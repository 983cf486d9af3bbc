--------------------------- MODULE PointsTx_proofs ---------------------------
(***************************************************************************)
(* Any number of requests, served statement by statement, leave the tables *)
(* as the handlers of PointsLedger would one after the other: TxSpec       *)
(* implements Spec, and every theorem about Spec holds of the interleaved  *)
(* handlers too.                                                           *)
(*                                                                         *)
(* The argument is that of two-phase locking, with the locks the handlers  *)
(* really take.  A row locked for update has one holder; what a process    *)
(* checked of a row it still holds stays true, because a commit that could *)
(* make it false holds the same row; so at the commit every check holds of *)
(* the committed rows.                                                     *)
(***************************************************************************)
EXTENDS PointsTx, Accounts_proofs

-----------------------------------------------------------------------------
(* Scripts: which locks a sequence of statements takes *)

IsList(s) == s \in Seq(Range(s))

LEMMA Joined ==
  ASSUME NEW s, NEW t, IsList(s), IsList(t)
  PROVE  /\ IsList(s \o t)
         /\ Range(s \o t) = Range(s) \cup Range(t)
         /\ Len(t) = 1 => (s \o t)[Len(s \o t)] = t[1]
<1> DEFINE S == Range(s) \cup Range(t)
<1>1. s \in Seq(S) /\ t \in Seq(S)
  BY SeqMonotonic DEF IsList
<1>2. Range(s \o t) = S
  BY <1>1, RangeConcatenation
<1>3. s \o t \in Seq(S) /\ (Len(t) = 1 => (s \o t)[Len(s \o t)] = t[1])
  BY <1>1
<1> QED BY <1>2, <1>3 DEF IsList

LEMMA Piece ==
  ASSUME NEW a
  PROVE  IsList(<<a>>) /\ Range(<<a>>) = {a} /\ Len(<<a>>) = 1 /\ <<a>>[1] = a
BY DEF IsList, Range

LEMMA PieceOfTwo ==
  ASSUME NEW a, NEW b
  PROVE  IsList(<<a, b>>) /\ a \in Range(<<a, b>>) /\ b \in Range(<<a, b>>)
BY DEF IsList, Range

LEMMA PieceOfThree ==
  ASSUME NEW a, NEW b, NEW c
  PROVE  IsList(<<a, b, c>>) /\ a \in Range(<<a, b, c>>)
BY DEF IsList, Range

IdempotencyLock(r) == Take("idempotency_records", <<r.session, r.key>>, "update")

BalanceRead == Take("point_ledger", "sum", "read")

\* What the scripts are put together from.
LEMMA Beginnings ==
  ASSUME NEW r
  PROVE  /\ IsList(Look(r)) /\ IsList(LockParent(r)) /\ IsList(LockChildActor(r))
         /\ IsList(Reserve(r)) /\ IsList(TaskLocks(r)) /\ IsList(ReadBalance)
         /\ Len(ReadBalance) = 1 /\ ReadBalance[1] = BalanceRead
         /\ Session(r, "update") \in Range(LockParent(r))
         /\ Session(r, "update") \in Range(LockChildActor(r))
         /\ IdempotencyLock(r) \in Range(Reserve(r))
         /\ Occurrence(r.taskOccurrence, "update") \in Range(TaskLocks(r))
<1>1. IsList(Look(r)) /\ IsList(LockParent(r)) /\ Session(r, "update") \in Range(LockParent(r))
  BY Piece DEF Look, LockParent
<1>2. IsList(LockChildActor(r)) /\ Session(r, "update") \in Range(LockChildActor(r))
  BY PieceOfTwo, Zenon DEF LockChildActor
<1>3. IsList(Reserve(r)) /\ IdempotencyLock(r) \in Range(Reserve(r))
  BY PieceOfThree, Zenon DEF Reserve, IdempotencyLock
<1>4. IsList(TaskLocks(r)) /\ Occurrence(r.taskOccurrence, "update") \in Range(TaskLocks(r))
  BY PieceOfTwo, Zenon DEF TaskLocks, ForUpdate, Occurrence
<1>5. IsList(ReadBalance) /\ Len(ReadBalance) = 1 /\ ReadBalance[1] = BalanceRead
  BY Piece DEF ReadBalance, BalanceRead
<1> QED BY <1>1, <1>2, <1>3, <1>4, <1>5

\* What each script locks: the row of its key; its session, where it takes the
\* session's row; the occurrence, redemption, reward and child it works on.
\* A script that reads the balance reads it last.
LEMMA CompletionScripts ==
  ASSUME NEW r
  PROVE  /\ IsList(SubmitScript(r)) /\ IsList(RejectScript(r)) /\ IsList(ApproveScript(r))
         /\ IsList(ReverseScript(r)) /\ IsList(CorrectScript(r))
         /\ \A s \in {SubmitScript(r), RejectScript(r), ApproveScript(r), ReverseScript(r)} :
              {Session(r, "update"), IdempotencyLock(r), Occurrence(r.occurrence, "update")}
                \subseteq Range(s)
         /\ {Session(r, "update"), IdempotencyLock(r)} \subseteq Range(CorrectScript(r))
         /\ Child(r.child, "update") \in Range(ReverseScript(r))
         /\ ReverseScript(r)[Len(ReverseScript(r))] = BalanceRead
<1> DEFINE o == <<Occurrence(r.occurrence, "update")>>
           c == <<Child(r.child, "update")>>
<1>1. /\ IsList(o) /\ Range(o) = {Occurrence(r.occurrence, "update")}
      /\ IsList(c) /\ Range(c) = {Child(r.child, "update")}
  BY Piece
<1>2. /\ SubmitScript(r) = LockChildActor(r) \o Reserve(r) \o o
      /\ RejectScript(r) = LockParent(r) \o Reserve(r) \o o
      /\ ApproveScript(r) = RejectScript(r) \o c
      /\ ReverseScript(r) = ApproveScript(r) \o ReadBalance
      /\ CorrectScript(r) = LockParent(r) \o Reserve(r) \o c
  BY DEF SubmitScript, RejectScript, ApproveScript, ReverseScript, CorrectScript
<1> HIDE DEF o, c
<1>3. /\ IsList(LockChildActor(r) \o Reserve(r))
      /\ {Session(r, "update"), IdempotencyLock(r)} \subseteq Range(LockChildActor(r) \o Reserve(r))
      /\ IsList(LockParent(r) \o Reserve(r))
      /\ {Session(r, "update"), IdempotencyLock(r)} \subseteq Range(LockParent(r) \o Reserve(r))
  BY Beginnings, Joined
<1>4. /\ IsList(SubmitScript(r)) /\ IsList(RejectScript(r)) /\ IsList(CorrectScript(r))
      /\ \A s \in {SubmitScript(r), RejectScript(r)} :
           {Session(r, "update"), IdempotencyLock(r), Occurrence(r.occurrence, "update")}
             \subseteq Range(s)
      /\ {Session(r, "update"), IdempotencyLock(r)} \subseteq Range(CorrectScript(r))
  BY <1>1, <1>2, <1>3, Joined
<1>5. /\ IsList(ApproveScript(r))
      /\ Range(ApproveScript(r)) = Range(RejectScript(r)) \cup {Child(r.child, "update")}
  BY <1>1, <1>2, <1>4, Joined
<1>6. /\ IsList(ReverseScript(r))
      /\ Range(ApproveScript(r)) \subseteq Range(ReverseScript(r))
      /\ ReverseScript(r)[Len(ReverseScript(r))] = BalanceRead
  BY <1>2, <1>5, Beginnings, Joined
<1> QED BY <1>4, <1>5, <1>6

LEMMA TaskScripts ==
  ASSUME NEW r, r.taskOccurrence = r.occurrence
  PROVE  /\ IsList(CancelTaskScript(r)) /\ IsList(UpdateTaskScript(r))
         /\ \A s \in {CancelTaskScript(r), UpdateTaskScript(r)} :
              {IdempotencyLock(r), Occurrence(r.occurrence, "update")} \subseteq Range(s)
<1> DEFINE seen == <<Take("completion_attempts", r.taskOccurrence, "read")>>
           group == <<Referenced("routine_groups", r.group)>>
<1>1. IsList(seen) /\ IsList(group)
  BY Piece
<1>2. /\ CancelTaskScript(r) = Look(r) \o Reserve(r) \o TaskLocks(r)
      /\ UpdateTaskScript(r) = Look(r) \o Reserve(r) \o seen \o TaskLocks(r) \o group
  BY DEF CancelTaskScript, UpdateTaskScript
<1> HIDE DEF seen, group
<1>3. IsList(Look(r) \o Reserve(r)) /\ IdempotencyLock(r) \in Range(Look(r) \o Reserve(r))
  BY Beginnings, Joined
<1>4. /\ IsList(Look(r) \o Reserve(r) \o seen)
      /\ IdempotencyLock(r) \in Range(Look(r) \o Reserve(r) \o seen)
  BY <1>1, <1>3, Joined
<1>5. /\ IsList(CancelTaskScript(r))
      /\ {IdempotencyLock(r), Occurrence(r.occurrence, "update")} \subseteq Range(CancelTaskScript(r))
  BY <1>2, <1>3, Beginnings, Joined
<1>6. /\ IsList(Look(r) \o Reserve(r) \o seen \o TaskLocks(r))
      /\ {IdempotencyLock(r), Occurrence(r.occurrence, "update")}
           \subseteq Range(Look(r) \o Reserve(r) \o seen \o TaskLocks(r))
  BY <1>4, Beginnings, Joined
<1>7. /\ IsList(UpdateTaskScript(r))
      /\ {IdempotencyLock(r), Occurrence(r.occurrence, "update")} \subseteq Range(UpdateTaskScript(r))
  BY <1>1, <1>2, <1>6, Joined
<1> QED BY <1>5, <1>7

LEMMA RewardScripts ==
  ASSUME NEW r
  PROVE  /\ IsList(RedeemScript(r)) /\ IsList(DecideScript(r))
         /\ {Child(r.child, "update"), IdempotencyLock(r), Take("rewards", r.reward, "update")}
              \subseteq Range(RedeemScript(r))
         /\ RedeemScript(r)[Len(RedeemScript(r))] = BalanceRead
         /\ {IdempotencyLock(r), Take("reward_redemptions", r.redemption, "update")}
              \subseteq Range(DecideScript(r))
<1> DEFINE c == <<Child(r.child, "update")>>
           w == <<Family("share"), Take("rewards", r.reward, "update")>>
           d == <<Child(r.child, "update"), Take("reward_redemptions", r.redemption, "update")>>
<1>1. /\ IsList(c) /\ Range(c) = {Child(r.child, "update")}
      /\ IsList(w) /\ Take("rewards", r.reward, "update") \in Range(w)
      /\ IsList(d) /\ Take("reward_redemptions", r.redemption, "update") \in Range(d)
  BY Piece, PieceOfTwo, Zenon
<1>2. /\ RedeemScript(r) = Look(r) \o c \o Reserve(r) \o w \o ReadBalance
      /\ DecideScript(r) = Look(r) \o Reserve(r) \o d
  BY DEF RedeemScript, DecideScript
<1> HIDE DEF c, w, d
<1>3. IsList(Look(r) \o c) /\ Child(r.child, "update") \in Range(Look(r) \o c)
  BY <1>1, Beginnings, Joined
<1>4. /\ IsList(Look(r) \o c \o Reserve(r))
      /\ {Child(r.child, "update"), IdempotencyLock(r)} \subseteq Range(Look(r) \o c \o Reserve(r))
  BY <1>3, Beginnings, Joined
<1>5. /\ IsList(Look(r) \o c \o Reserve(r) \o w)
      /\ {Child(r.child, "update"), IdempotencyLock(r), Take("rewards", r.reward, "update")}
           \subseteq Range(Look(r) \o c \o Reserve(r) \o w)
  BY <1>1, <1>4, Joined
<1>6. /\ IsList(RedeemScript(r))
      /\ {Child(r.child, "update"), IdempotencyLock(r), Take("rewards", r.reward, "update")}
           \subseteq Range(RedeemScript(r))
      /\ RedeemScript(r)[Len(RedeemScript(r))] = BalanceRead
  BY <1>2, <1>5, Beginnings, Joined
<1>7. IsList(Look(r) \o Reserve(r)) /\ IdempotencyLock(r) \in Range(Look(r) \o Reserve(r))
  BY Beginnings, Joined
<1>8. /\ IsList(DecideScript(r))
      /\ {IdempotencyLock(r), Take("reward_redemptions", r.redemption, "update")}
           \subseteq Range(DecideScript(r))
  BY <1>1, <1>2, <1>7, Joined
<1> QED BY <1>6, <1>8

\* What the script of a key locks, by what is asked under it.
LEMMA ScriptLocks ==
  ASSUME NEW k \in Keys, NEW r, r = Request[k], NEW s, s = Script(r)
  PROVE  /\ IsList(s)
         /\ IdempotencyLock(r) \in Range(s)
         /\ r.op \in OccurrenceOps => Occurrence(r.occurrence, "update") \in Range(s)
         /\ r.op \in Decisive => Take("reward_redemptions", r.redemption, "update") \in Range(s)
         /\ r.op = "Redeem" => Take("rewards", r.reward, "update") \in Range(s)
         /\ r.op \in {"Redeem", "Reverse"} =>
              Child(r.child, "update") \in Range(s) /\ s[Len(s)] = BalanceRead
         /\ r.op \in LocksSession => Session(r, "update") \in Range(s)
<1>1. CASE r.op \in {"Submit", "Withdraw", "Approve", "Reject", "Reverse", "Correct"}
  <2>1. /\ r.op \in {"Submit", "Withdraw"} => s = SubmitScript(r)
        /\ r.op = "Approve" => s = ApproveScript(r)
        /\ r.op = "Reject" => s = RejectScript(r)
        /\ r.op = "Reverse" => s = ReverseScript(r)
        /\ r.op = "Correct" => s = CorrectScript(r)
    BY <1>1 DEF Script, WithdrawScript, Decisive
  <2> QED BY <1>1, <2>1, CompletionScripts DEF OccurrenceOps, Versioned, Decisive
<1>2. CASE r.op \in {"CancelTask", "EditTask"}
  <2>1. r.taskOccurrence = r.occurrence
    BY <1>2, TxAssumption
  <2>2. /\ r.op = "CancelTask" => s = CancelTaskScript(r)
        /\ r.op = "EditTask" => s = UpdateTaskScript(r)
    BY <1>2 DEF Script, Decisive
  <2> QED BY <1>2, <2>1, <2>2, TaskScripts DEF OccurrenceOps, Versioned, Decisive, LocksSession
<1>3. CASE r.op \in Decisive \cup {"Redeem"}
  <2>1. /\ r.op = "Redeem" => s = RedeemScript(r)
        /\ r.op \in Decisive => s = DecideScript(r)
    BY <1>3 DEF Script, Decisive
  <2> QED BY <1>3, <2>1, RewardScripts DEF OccurrenceOps, Versioned, Decisive, LocksSession
<1> QED
  BY <1>1, <1>2, <1>3, TxAssumption DEF OccurrenceOps, Versioned

-----------------------------------------------------------------------------
(* Locks: what a process holds, and that nobody else does *)

\* Processes run scripts, at a place of theirs.
Places ==
  /\ DOMAIN script = Procs
  /\ pc \in [Procs -> Nat]

LEMMA BeginHolds ==
  ASSUME Places, NEW p \in Procs, NEW s, Begin(p, s)
  PROVE  /\ Places'
         /\ pc'[p] = 1 /\ script'[p] = s /\ Held(p)' = {}
         /\ \A q \in Procs : q # p =>
              pc'[q] = pc[q] /\ script'[q] = script[q] /\ Held(q)' = Held(q)
<1>1. /\ pc'[p] = 1 /\ script'[p] = s
      /\ \A q \in Procs : q # p => pc'[q] = pc[q] /\ script'[q] = script[q]
      /\ Places'
  BY DEF Begin, Places
<1> QED BY <1>1 DEF Held

LEMMA PassHolds ==
  ASSUME Places, NEW p \in Procs, Pass(p)
  PROVE  /\ Places'
         /\ pc'[p] = pc[p] + 1 /\ script' = script /\ Held(p)' = Held(p) \cup {Step(p)}
         /\ \A q \in Procs : q # p => pc'[q] = pc[q] /\ Held(q)' = Held(q)
<1>1. /\ pc'[p] = pc[p] + 1 /\ script' = script /\ Places'
      /\ \A q \in Procs : q # p => pc'[q] = pc[q]
  BY DEF Pass, Places
<1>2. pc[p] \in Nat /\ pc[p] >= 1
  BY DEF Pass, Waiting, Places
<1>3. 1 .. pc[p] + 1 - 1 = (1 .. pc[p] - 1) \cup {pc[p]}
  BY <1>2
<1> QED BY <1>1, <1>3 DEF Held, Step

LEMMA EndHolds ==
  ASSUME Places, NEW p \in Procs, End(p)
  PROVE  /\ Places'
         /\ pc'[p] = 0 /\ Held(p)' = {}
         /\ \A q \in Procs : q # p =>
              pc'[q] = pc[q] /\ script'[q] = script[q] /\ Held(q)' = Held(q)
<1>1. /\ pc'[p] = 0
      /\ \A q \in Procs : q # p => pc'[q] = pc[q] /\ script'[q] = script[q]
      /\ Places'
  BY DEF End, Places
<1> QED BY <1>1 DEF Held

\* Two transactions never hold a row in modes that clash.
Exclusive ==
  \A p, q \in Procs : p # q =>
    \A l \in Held(p), m \in Held(q) : l.row = m.row => ~ Clash(l.mode, m.mode)

LEMMA ClashSymmetric == \A m, n : Clash(m, n) <=> Clash(n, m)
BY DEF Clash

\* Taking a lock that is not denied, and releasing all, keeps locks exclusive.
LEMMA PassExclusive ==
  ASSUME Places, Exclusive, NEW p \in Procs, Pass(p)
  PROVE  Exclusive'
<1>1. \A q \in Procs : q # p => \A m \in Held(q) : m.row = Step(p).row => ~ Clash(m.mode, Step(p).mode)
  BY DEF Pass, Blocked, WaitsFor, Denies
<1> SUFFICES ASSUME NEW a \in Procs, NEW b \in Procs, a # b,
                    NEW l \in Held(a)', NEW m \in Held(b)', l.row = m.row
             PROVE  ~ Clash(l.mode, m.mode)
  BY DEF Exclusive
<1>2. /\ Held(a)' = IF a = p THEN Held(a) \cup {Step(p)} ELSE Held(a)
      /\ Held(b)' = IF b = p THEN Held(b) \cup {Step(p)} ELSE Held(b)
  BY PassHolds
<1>3. l \in Held(a) /\ m \in Held(b) => ~ Clash(l.mode, m.mode)
  BY DEF Exclusive
<1>4. CASE a = p /\ l = Step(p)
  BY <1>1, <1>2, <1>4, ClashSymmetric
<1>5. CASE b = p /\ m = Step(p)
  BY <1>1, <1>2, <1>5
<1> QED BY <1>2, <1>3, <1>4, <1>5

LEMMA DropExclusive ==
  ASSUME Exclusive, NEW p \in Procs, Held(p)' = {},
         \A q \in Procs : q # p => Held(q)' = Held(q)
  PROVE  Exclusive'
BY DEF Exclusive

\* The process is the only one that may change the row.
Holds(p, table, id) == Take(table, id, "update") \in Held(p)

LEMMA OneHolder ==
  ASSUME Exclusive, NEW p \in Procs, NEW q \in Procs, p # q, NEW table, NEW id,
         Holds(p, table, id)
  PROVE  ~ Holds(q, table, id)
<1>1. Clash("update", "update")
  BY DEF Clash, Clashes
<1>2. /\ Take(table, id, "update").mode = "update"
      /\ Take(table, id, "update").row = <<table, id>>
  BY DEF Take
<1> QED BY <1>1, <1>2 DEF Exclusive, Holds

\* Whoever finds a row free, for any mode an update clashes with, finds no holder.
LEMMA FreeUnheld ==
  ASSUME NEW table, NEW id, NEW mode \in {"update", "no_key_update"}, Free(<<table, id>>, mode)
  PROVE  \A q \in Procs : ~ Holds(q, table, id)
<1>1. Clash("update", mode)
  BY DEF Clash, Clashes
<1>2. /\ Take(table, id, "update").mode = "update"
      /\ Take(table, id, "update").row = <<table, id>>
  BY DEF Take
<1> QED BY <1>1, <1>2 DEF Free, Denies, Holds

-----------------------------------------------------------------------------
(* The invariant *)

TxTypes ==
  /\ Places
  /\ job \in [Procs -> Keys \cup {NoKey}]
  /\ DOMAIN asked = Keys
  /\ DOMAIN effects = Keys
  /\ done \subseteq Keys

\* A process is somewhere in the script of the key it serves, and asks for the
\* price its key names.
Serving(p) ==
  Running(p) =>
    /\ job[p] \in Keys
    /\ script[p] = Script(Asker(p))
    /\ pc[p] \in 1 .. Len(script[p]) + 1
    /\ Asker(p).op = "Redeem" => asked[job[p]] = Asker(p).cost

Affordable(r) ==
  IF r.op = "Redeem" THEN RedeemAffordable(r.child, r.cost) ELSE ReverseAffordable(r.occurrence)

\* What a process checked of the rows it holds is true of them still; at the
\* end of its script the balance it read suffices.
SecuredFor(p, r) ==
  /\ Holds(p, "idempotency_records", <<r.session, r.key>>) => job[p] \notin done
  /\ r.op \in OccurrenceOps /\ Holds(p, "occurrences", r.occurrence) => OccurrenceOK(r)
  /\ r.op = "Redeem" /\ Holds(p, "rewards", r.reward) => OfferStands(r.child, r.reward, r.cost)
  /\ r.op \in Decisive /\ Holds(p, "reward_redemptions", r.redemption) => Requested(r.redemption)
  /\ r.op \in {"Redeem", "Reverse"} /\ ~ Waiting(p) => Affordable(r)
  /\ r.op \in LocksSession /\ Holds(p, "sessions", r.session) => r.session \notin demoted

Secured(p) == Running(p) => SecuredFor(p, Asker(p))

AskedPrice == \A k \in Keys : Request[k].op = "Redeem" => asked[k] \in {0, Request[k].cost}

\* The effect of a key was committed once if its response is stored, else never.
Counted == \A k \in Keys : effects[k] = IF k \in done THEN 1 ELSE 0

\* Rows with an identity of their own were inserted under a key that is done.
Inserted ==
  /\ \A e \in ledger : e.kind = "manual_correction" =>
       \E k \in done : Request[k].op = "Correct" /\ Request[k].correction = e.ref
  /\ \A d \in Redemptions : redemption[d].state # "none" =>
       \E k \in done : Request[k].op = "Redeem" /\ Request[k].redemption = d

TxInv ==
  /\ Shape
  /\ TxTypes
  /\ Exclusive
  /\ \A p \in Procs : Serving(p)
  /\ \A p \in Procs : Secured(p)
  /\ AskedPrice
  /\ Counted
  /\ Inserted

LEMMA TxInvInit == TxInit => TxInv
<1> SUFFICES ASSUME TxInit PROVE TxInv
  OBVIOUS
<1>1. Shape
  BY ShapeInit DEF TxInit
<1>2. \A p \in Procs : ~ Running(p) /\ Held(p) = {}
  BY DEF TxInit, Idle, Running, Held
<1>3. TxTypes
  BY DEF TxInit, Idle, TxTypes, Places
<1>4. AskedPrice /\ Counted
  BY DEF TxInit, AskedPrice, Counted
<1>5. Inserted
  BY DEF TxInit, Init, Inserted, NoRedemption
<1> QED BY <1>1, <1>2, <1>3, <1>4, <1>5 DEF TxInv, Exclusive, Serving, Secured

-----------------------------------------------------------------------------
(* A commit: every check holds, and it is a step of PointsLedger *)

\* A process that has passed its script holds all of it.
LEMMA HoldsAll ==
  ASSUME TxInv, NEW p \in Procs, Running(p), ~ Waiting(p)
  PROVE  /\ job[p] \in Keys
         /\ \A lock \in Range(Script(Asker(p))) : lock \in Held(p)
<1>1. /\ job[p] \in Keys /\ script[p] = Script(Asker(p))
      /\ pc[p] \in 1 .. Len(script[p]) + 1
  BY DEF TxInv, Serving
<1>2. IsList(script[p])
  BY <1>1, ScriptLocks DEF Asker
<1>3. Len(script[p]) \in Nat /\ Range(script[p]) = {script[p][i] : i \in 1 .. Len(script[p])}
  BY <1>2, LenProperties DEF IsList, Range
<1>4. pc[p] = Len(script[p]) + 1
  BY <1>1, <1>3 DEF Waiting
<1>5. pc[p] - 1 = Len(script[p])
  BY <1>3, <1>4
<1> QED BY <1>1, <1>3, <1>5 DEF Held

\* What holds when a process commits.
LEMMA ReadyToCommit ==
  ASSUME TxInv, NEW p \in Procs, Running(p), ~ Waiting(p), NEW r, r = Asker(p)
  PROVE  /\ job[p] \in Keys \ done /\ r = Request[job[p]]
         /\ Holds(p, "idempotency_records", <<r.session, r.key>>)
         /\ r.op \in OccurrenceOps => Holds(p, "occurrences", r.occurrence) /\ OccurrenceOK(r)
         /\ r.op = "Redeem" => OfferStands(r.child, r.reward, r.cost)
         /\ r.op \in Decisive =>
              Holds(p, "reward_redemptions", r.redemption) /\ Requested(r.redemption)
         /\ r.op \in {"Redeem", "Reverse"} => Holds(p, "children", r.child) /\ Affordable(r)
         /\ r.op \in LocksSession => r.session \notin demoted
<1>1. job[p] \in Keys /\ r = Request[job[p]]
  BY HoldsAll DEF Asker
<1>2. \A lock \in Range(Script(r)) : lock \in Held(p)
  BY HoldsAll
<1>3. SecuredFor(p, r)
  BY DEF TxInv, Secured
<1>4. /\ Holds(p, "idempotency_records", <<r.session, r.key>>)
      /\ r.op \in OccurrenceOps => Holds(p, "occurrences", r.occurrence)
      /\ r.op = "Redeem" => Holds(p, "rewards", r.reward)
      /\ r.op \in Decisive => Holds(p, "reward_redemptions", r.redemption)
      /\ r.op \in {"Redeem", "Reverse"} => Holds(p, "children", r.child)
      /\ r.op \in LocksSession => Holds(p, "sessions", r.session)
  BY <1>1, <1>2, ScriptLocks, Zenon
     DEF Holds, IdempotencyLock, Occurrence, Child, Session
<1> QED BY <1>1, <1>3, <1>4 DEF SecuredFor

\* An identity is used by one key: until that is done, no row has it.
LEMMA Unused ==
  ASSUME TxInv, NEW k \in Keys \ done, NEW r, r = Request[k]
  PROVE  /\ r.op = "Correct" => Unposted(r.correction)
         /\ r.op = "Redeem" => redemption[r.redemption].state = "none"
<1>1. \A l \in done : /\ r.op = "Correct" /\ Request[l].op = "Correct" =>
                           Request[l].correction # r.correction
                      /\ r.op = "Redeem" /\ Request[l].op = "Redeem" =>
                           Request[l].redemption # r.redemption
  BY TxAssumption DEF TxInv, TxTypes
<1>2. r.op = "Redeem" => r.redemption \in Redemptions
  BY TxAssumption
<1> QED BY <1>1, <1>2 DEF TxInv, Inserted, Unposted

LEMMA CommitIsStep ==
  ASSUME TxInv, NEW p \in Procs, Commit(p)
  PROVE  Next
<1> DEFINE r == Asker(p)
<1>1. Running(p) /\ ~ Waiting(p) /\ Effect(r)
  BY DEF Commit
<1>2. job[p] \in Keys \ done /\ r = Request[job[p]]
  BY <1>1, ReadyToCommit
<1>3. /\ r.op \in OccurrenceOps => OccurrenceOK(r)
      /\ r.op = "Redeem" => OfferStands(r.child, r.reward, r.cost)
      /\ r.op \in Decisive => Requested(r.redemption)
      /\ r.op \in {"Redeem", "Reverse"} => Affordable(r)
  BY <1>1, ReadyToCommit
<1>4. /\ r.op = "Correct" => Unposted(r.correction)
      /\ r.op = "Redeem" => redemption[r.redemption].state = "none"
  BY <1>2, Unused
<1> HIDE DEF r
<1>5. CASE r.op \in Versioned
  <2>1. r.occurrence \in Occurrences
    BY <1>2, <1>5, TxAssumption DEF OccurrenceOps
  <2>2. AttemptStep(r.occurrence)
    <3>1. r.op # "Submit" => r.attempt \in 1 .. MaxAttempts
      BY <1>2, <1>5, TxAssumption
    <3>2. OccurrenceOK(r)
      BY <1>3, <1>5 DEF OccurrenceOps
    <3>3. CASE r.op = "Submit"
      BY <1>1, <3>2, <3>3 DEF Effect, OccurrenceOK, AttemptStep, Submit
    <3>4. CASE r.op \in {"Withdraw", "Approve", "Reject"}
      BY <1>1, <3>1, <3>2, <3>4
         DEF Effect, OccurrenceOK, AttemptStep, Withdraw, Approve, Reject
    <3>5. CASE r.op = "Reverse"
      BY <1>1, <1>3, <3>1, <3>2, <3>5 DEF Effect, OccurrenceOK, AttemptStep, Reverse, Affordable
    <3> QED BY <1>5, <3>3, <3>4, <3>5 DEF Versioned
  <2> QED BY <2>1, <2>2 DEF Next
<1>6. CASE r.op = "CancelTask"
  <2>1. r.occurrence \in Tasks
    BY <1>2, <1>6, TxAssumption
  <2>2. CancelTask(r.occurrence)
    BY <1>1, <1>3, <1>6 DEF Effect, OccurrenceOK, OccurrenceOps, CancelTask
  <2> QED BY <2>1, <2>2 DEF Next
<1>7. CASE r.op = "EditTask"
  <2>1. r.occurrence \in Tasks /\ r.worth \in PointValues
    BY <1>2, <1>7, TxAssumption
  <2>2. EditTask(r.occurrence, r.worth)
    BY <1>1, <1>3, <1>7 DEF Effect, OccurrenceOK, OccurrenceOps, EditTask
  <2> QED BY <2>1, <2>2 DEF Next
<1>8. CASE r.op = "Correct"
  <2>1. r.child \in Children /\ r.correction \in Corrections /\ r.amount \in Amounts
    BY <1>2, <1>8, TxAssumption
  <2>2. Correct(r.child, r.correction, r.amount)
    BY <1>1, <1>4, <1>8 DEF Effect, Correct
  <2> QED BY <2>1, <2>2 DEF Next
<1>9. CASE r.op = "Redeem"
  <2>1. r.child \in Children /\ r.reward \in Rewards /\ r.cost \in Costs /\ r.redemption \in Redemptions
    BY <1>2, <1>9, TxAssumption
  <2>2. Redeem(r.child, r.redemption, r.reward, r.cost)
    BY <1>1, <1>3, <1>4, <1>9 DEF Effect, Redeem, Affordable
  <2> QED BY <2>1, <2>2 DEF Next, RedemptionStep
<1>10. CASE r.op \in Decisive
  <2>1. r.redemption \in Redemptions
    BY <1>2, <1>10, TxAssumption
  <2>2. Fulfil(r.redemption) \/ CancelRedemption(r.redemption)
    BY <1>1, <1>3, <1>10 DEF Effect, Decisive, Fulfil, CancelRedemption
  <2> QED BY <2>1, <2>2 DEF Next, RedemptionStep
<1> QED
  BY <1>2, <1>5, <1>6, <1>7, <1>8, <1>9, <1>10, TxAssumption DEF OccurrenceOps

-----------------------------------------------------------------------------
(* What a commit changes, and whose checks it could disturb *)

SameOccurrence(o) ==
  /\ state'[o] = state[o] /\ attempts'[o] = attempts[o]
  /\ points'[o] = points[o] /\ version'[o] = version[o]
  /\ o \in open' <=> o \in open

\* A handler changes the occurrence and the redemption it names, and lowers the
\* balance of no child but its own.
LEMMA EffectTouches ==
  ASSUME Shape, NEW k \in Keys, NEW r, r = Request[k], Effect(r)
  PROVE  /\ \A o \in Occurrences : SameOccurrence(o) \/ (r.op \in OccurrenceOps /\ o = r.occurrence)
         /\ \A d \in Redemptions :
              \/ redemption'[d] = redemption[d]
              \/ r.op \in Decisive \cup {"Redeem"} /\ d = r.redemption
         /\ \A c \in Children :
              balance'[c] >= balance[c] \/ (r.op \in {"Redeem", "Reverse"} /\ c = r.child)
         /\ offer' = offer /\ ledger \subseteq ledger'
         /\ \A e \in ledger' \ ledger :
              e.kind = "manual_correction" => r.op = "Correct" /\ e.ref = r.correction
<1> USE DEF SameOccurrence
<1>1. TypeOK /\ RedemptionShape
  BY DEF Shape
<1>2. CASE r.op \in {"Submit", "Withdraw", "Reject", "CancelTask", "EditTask"}
  <2>1. r.occurrence \in Occurrences /\ r.op \in OccurrenceOps
    BY <1>2, TxAssumption DEF OccurrenceOps, Versioned
  <2>2. UNCHANGED <<ledger, balance, redemption, offer>>
    BY <1>2 DEF Effect, SubmitEffect, WithdrawEffect, RejectEffect, CancelTaskEffect,
                EditTaskEffect, ledgerVars
  <2>3. \A o \in Occurrences : o # r.occurrence => SameOccurrence(o)
    BY <1>1, <1>2, <2>1
       DEF Effect, SubmitEffect, WithdrawEffect, RejectEffect, CancelTaskEffect, EditTaskEffect,
           Move, Close, TypeOK
  <2>4. \A c \in Children : balance[c] >= balance[c]
    BY <1>1 DEF TypeOK
  <2> QED BY <2>1, <2>2, <2>3, <2>4
<1>3. CASE r.op \in {"Approve", "Reverse"}
  <2>1. /\ r.occurrence \in Occurrences /\ r.op \in OccurrenceOps
        /\ r.child = ChildOf[r.occurrence]
    BY <1>3, TxAssumption DEF OccurrenceOps, Versioned
  <2>2. /\ points[r.occurrence] \in Nat /\ ChildOf[r.occurrence] \in Children
        /\ balance \in [Children -> Int]
    BY <1>1, <2>1, PointsAssumption DEF TypeOK
  <2>3. \A o \in Occurrences : o # r.occurrence => SameOccurrence(o)
    BY <1>1, <1>3, <2>1 DEF Effect, ApproveEffect, ReverseEffect, Move, Close, TypeOK
  <2>4. UNCHANGED <<redemption, offer>>
    BY <1>3 DEF Effect, ApproveEffect, ReverseEffect
  <2>5. /\ ledger \subseteq ledger'
        /\ \A e \in ledger' \ ledger : e.kind # "manual_correction"
    BY <1>3 DEF Effect, ApproveEffect, ReverseEffect, Post, Award, Reversal, Entry
  <2>6. \A c \in Children : balance'[c] >= balance[c] \/ (r.op = "Reverse" /\ c = r.child)
    <3>1. CASE r.op = "Approve"
      <4>1. balance' = [balance EXCEPT ![ChildOf[r.occurrence]] = @ + points[r.occurrence]]
        BY <3>1 DEF Effect, ApproveEffect, Post, Award, Entry
      <4> QED BY <2>2, <4>1
    <3>2. CASE r.op = "Reverse"
      <4>1. balance' = [balance EXCEPT ![ChildOf[r.occurrence]] = @ + (-points[r.occurrence])]
        BY <3>2 DEF Effect, ReverseEffect, Post, Reversal, Entry
      <4> QED BY <2>1, <2>2, <3>2, <4>1
    <3> QED BY <1>3, <3>1, <3>2
  <2> QED BY <2>1, <2>3, <2>4, <2>5, <2>6
<1>4. CASE r.op = "Correct"
  <2>1. r.child \in Children /\ r.amount \in Nat
    BY <1>4, TxAssumption, PointsAssumption
  <2>2. UNCHANGED <<state, version, attempts, points, open, redemption, offer>>
    BY <1>4 DEF Effect, CorrectEffect, occurrenceVars
  <2>3. /\ ledger' = ledger \cup {Correction(r.child, r.correction, r.amount)}
        /\ Correction(r.child, r.correction, r.amount).ref = r.correction
        /\ balance' = [balance EXCEPT ![r.child] = @ + r.amount]
    BY <1>4 DEF Effect, CorrectEffect, Post, Correction, Entry
  <2>4. \A c \in Children : balance'[c] >= balance[c]
    BY <1>1, <2>1, <2>3 DEF TypeOK
  <2> QED BY <1>4, <2>2, <2>3, <2>4
<1>5. CASE r.op = "Redeem"
  <2>1. r.child \in Children /\ r.redemption \in Redemptions
    BY <1>5, TxAssumption
  <2>2. UNCHANGED <<state, version, attempts, points, open, offer>>
    BY <1>5 DEF Effect, RedeemEffect, occurrenceVars
  <2>3. /\ ledger \subseteq ledger'
        /\ \A e \in ledger' \ ledger : e.kind # "manual_correction"
    BY <1>5 DEF Effect, RedeemEffect, Post, Entry
  <2>4. \A d \in Redemptions : d # r.redemption => redemption'[d] = redemption[d]
    BY <1>1, <1>5, <2>1 DEF Effect, RedeemEffect, TypeOK
  <2>5. \A c \in Children : c # r.child => balance'[c] >= balance[c]
    <3>1. balance' = [balance EXCEPT ![r.child] = @ + (-r.cost)]
      BY <1>5 DEF Effect, RedeemEffect, Post, Entry
    <3> QED BY <1>1, <3>1 DEF TypeOK
  <2> QED BY <1>5, <2>2, <2>3, <2>4, <2>5
<1>6. CASE r.op = "Fulfil"
  <2>1. r.redemption \in Redemptions /\ r.op \in Decisive
    BY <1>6, TxAssumption DEF Decisive
  <2>2. UNCHANGED <<state, version, attempts, points, open, ledger, balance, offer>>
    BY <1>6 DEF Effect, FulfilEffect, occurrenceVars, ledgerVars
  <2>3. \A d \in Redemptions : d # r.redemption => redemption'[d] = redemption[d]
    BY <1>1, <1>6, <2>1 DEF Effect, FulfilEffect, TypeOK
  <2>4. \A c \in Children : balance[c] >= balance[c]
    BY <1>1 DEF TypeOK
  <2> QED BY <2>1, <2>2, <2>3, <2>4
<1>7. CASE r.op = "CancelRedemption"
  <2>1. r.redemption \in Redemptions /\ r.op \in Decisive
    BY <1>7, TxAssumption DEF Decisive
  <2>2. UNCHANGED <<state, version, attempts, points, open, offer>>
    BY <1>7 DEF Effect, CancelRedemptionEffect, occurrenceVars
  <2>3. \A d \in Redemptions : d # r.redemption => redemption'[d] = redemption[d]
    BY <1>1, <1>7, <2>1 DEF Effect, CancelRedemptionEffect, TypeOK
  <2>4. /\ ledger \subseteq ledger'
        /\ \A e \in ledger' \ ledger : e.kind # "manual_correction"
    BY <1>7 DEF Effect, CancelRedemptionEffect, Post, Refund, Entry
  <2>5. \A c \in Children : balance'[c] >= balance[c]
    <3> DEFINE who  == redemption[r.redemption].child
               cost == redemption[r.redemption].cost
    <3>1. balance' = [balance EXCEPT ![who] = @ + cost]
      BY <1>7 DEF Effect, CancelRedemptionEffect, Post, Refund, Entry
    <3>2. cost \in Nat
      <4>1. redemption[r.redemption].cost \in Costs \cup {0}
        BY <1>1, <2>1 DEF TypeOK, RedemptionRows
      <4>2. Costs \cup {0} \subseteq Nat
        BY PointsAssumption
      <4> QED BY <4>1, <4>2, Zenon
    <3> HIDE DEF who, cost
    <3> QED BY <1>1, <3>1, <3>2 DEF TypeOK
  <2> QED BY <2>1, <2>2, <2>3, <2>4, <2>5
<1> QED
  BY <1>2, <1>3, <1>4, <1>5, <1>6, <1>7, TxAssumption DEF OccurrenceOps, Versioned, Decisive

\* The checks a handler makes of an occurrence read nothing else.
LEMMA SameChecks ==
  ASSUME NEW r, r.op \in OccurrenceOps, SameOccurrence(r.occurrence), ledger \subseteq ledger',
         OccurrenceOK(r)
  PROVE  OccurrenceOK(r)'
<1> USE DEF SameOccurrence
<1>1. CASE r.op = "Submit"
  BY <1>1 DEF OccurrenceOK, SubmitOK
<1>2. CASE r.op \in {"Withdraw", "Approve", "Reject"}
  BY <1>2 DEF OccurrenceOK, Pending
<1>3. CASE r.op = "Reverse"
  <2>1. Award(r.occurrence)' = Award(r.occurrence)
    BY DEF Award
  <2> QED BY <1>3, <2>1 DEF OccurrenceOK, Approved
<1>4. CASE r.op = "CancelTask"
  BY <1>4 DEF OccurrenceOK, CancelTaskOK
<1>5. CASE r.op = "EditTask"
  BY <1>5 DEF OccurrenceOK, EditTaskOK
<1> QED BY <1>1, <1>2, <1>3, <1>4, <1>5 DEF OccurrenceOps, Versioned

\* A commit leaves alone every row that another process holds.
LEMMA CommitSparesOthers ==
  ASSUME TxInv, NEW p \in Procs, Commit(p), NEW q \in Procs, q # p
  PROVE  /\ \A o \in Occurrences : Holds(q, "occurrences", o) => SameOccurrence(o)
         /\ \A d \in Redemptions : Holds(q, "reward_redemptions", d) /\ Requested(d)
                                     => redemption'[d] = redemption[d]
         /\ \A c \in Children : Holds(q, "children", c) => balance'[c] >= balance[c]
         /\ \A s, k : Holds(q, "idempotency_records", <<s, k>>) =>
              <<s, k>> # <<Asker(p).session, Asker(p).key>>
         /\ offer' = offer /\ ledger \subseteq ledger'
<1> DEFINE r == Asker(p)
<1>0. Shape /\ Exclusive
  BY DEF TxInv
<1>1. Running(p) /\ ~ Waiting(p) /\ Effect(r)
  BY DEF Commit
<1>2. /\ job[p] \in Keys \ done /\ r = Request[job[p]]
      /\ Holds(p, "idempotency_records", <<r.session, r.key>>)
      /\ r.op \in OccurrenceOps => Holds(p, "occurrences", r.occurrence)
      /\ r.op \in Decisive => Holds(p, "reward_redemptions", r.redemption)
      /\ r.op \in {"Redeem", "Reverse"} => Holds(p, "children", r.child)
  BY <1>1, ReadyToCommit
<1>3. r.op = "Redeem" => redemption[r.redemption].state = "none"
  BY <1>2, Unused
<1> HIDE DEF r
<1>4. /\ \A o \in Occurrences : SameOccurrence(o) \/ (r.op \in OccurrenceOps /\ o = r.occurrence)
      /\ \A d \in Redemptions :
           \/ redemption'[d] = redemption[d]
           \/ r.op \in Decisive \cup {"Redeem"} /\ d = r.redemption
      /\ \A c \in Children :
           balance'[c] >= balance[c] \/ (r.op \in {"Redeem", "Reverse"} /\ c = r.child)
      /\ offer' = offer /\ ledger \subseteq ledger'
  BY <1>0, <1>1, <1>2, EffectTouches
<1>5. \A table, id : Holds(p, table, id) => ~ Holds(q, table, id)
  BY <1>0, OneHolder
<1>6. ASSUME NEW o \in Occurrences, Holds(q, "occurrences", o) PROVE SameOccurrence(o)
  BY <1>2, <1>4, <1>5, <1>6
<1>7. ASSUME NEW d \in Redemptions, Holds(q, "reward_redemptions", d), Requested(d)
      PROVE  redemption'[d] = redemption[d]
  BY <1>2, <1>3, <1>4, <1>5, <1>7 DEF Requested
<1>8. ASSUME NEW c \in Children, Holds(q, "children", c) PROVE balance'[c] >= balance[c]
  BY <1>2, <1>4, <1>5, <1>8
<1>9. \A s, k : Holds(q, "idempotency_records", <<s, k>>) => <<s, k>> # <<r.session, r.key>>
  BY <1>2, <1>5
<1> QED BY <1>4, <1>6, <1>7, <1>8, <1>9 DEF r

-----------------------------------------------------------------------------
(* The invariant is kept, step by step *)

\* What a process has secured stays so while it, its key and its locks stay, and
\* nothing disturbs a row it holds.
LEMMA StaysSecured ==
  ASSUME NEW q \in Procs, Secured(q), NEW r, r = Asker(q),
         pc'[q] = pc[q], script'[q] = script[q], Held(q)' = Held(q), job'[q] = job[q],
         Running(q) =>
           /\ Holds(q, "idempotency_records", <<r.session, r.key>>) /\ job[q] \notin done
                => job[q] \notin done'
           /\ r.op \in OccurrenceOps /\ Holds(q, "occurrences", r.occurrence) /\ OccurrenceOK(r)
                => OccurrenceOK(r)'
           /\ r.op = "Redeem" /\ Holds(q, "rewards", r.reward) /\ OfferStands(r.child, r.reward, r.cost)
                => OfferStands(r.child, r.reward, r.cost)'
           /\ r.op \in Decisive /\ Holds(q, "reward_redemptions", r.redemption)
                /\ Requested(r.redemption) => Requested(r.redemption)'
           /\ r.op \in {"Redeem", "Reverse"} /\ ~ Waiting(q) /\ Affordable(r) => Affordable(r)'
           /\ r.op \in LocksSession /\ Holds(q, "sessions", r.session) /\ r.session \notin demoted
                => r.session \notin demoted'
  PROVE  Secured(q)'
<1>1. r' = r /\ Asker(q)' = r
  BY DEF Asker
<1>2. /\ Running(q)' <=> Running(q)
      /\ Waiting(q)' <=> Waiting(q)
      /\ \A table, id : Holds(q, table, id)' <=> Holds(q, table, id)
  BY DEF Running, Waiting, Holds
<1> QED BY <1>1, <1>2 DEF Secured, SecuredFor

\* Nothing is disturbed when no table changes.
LEMMA QuietSecured ==
  ASSUME NEW q \in Procs, Secured(q), UNCHANGED <<vars, done, demoted>>,
         pc'[q] = pc[q], script'[q] = script[q], Held(q)' = Held(q), job'[q] = job[q]
  PROVE  Secured(q)'
<1>1. PICK r : r = Asker(q)
  OBVIOUS
<1>2. /\ OccurrenceOK(r) => OccurrenceOK(r)'
      /\ OfferStands(r.child, r.reward, r.cost) => OfferStands(r.child, r.reward, r.cost)'
      /\ Requested(r.redemption) => Requested(r.redemption)'
      /\ Affordable(r) => Affordable(r)'
  <2> USE DEF vars
  <2>1. OccurrenceOK(r)' <=> OccurrenceOK(r)
    BY DEF OccurrenceOK, SubmitOK, Pending, Approved, Award, Entry, CancelTaskOK, EditTaskOK
  <2>2. Affordable(r)' <=> Affordable(r)
    BY DEF Affordable, RedeemAffordable, ReverseAffordable
  <2> QED BY <2>1, <2>2 DEF OfferStands, Requested
<1>3. done' = done /\ demoted' = demoted
  OBVIOUS
<1> QED BY <1>1, <1>2, <1>3, StaysSecured

LEMMA QuietTables ==
  ASSUME Shape, Inserted, Counted, UNCHANGED <<vars, done, effects>>
  PROVE  Shape' /\ Inserted' /\ Counted'
<1>1. Shape'
  BY ShapeStep
<1>2. Inserted' /\ Counted'
  BY DEF vars, Inserted, Counted
<1> QED BY <1>1, <1>2

\* A delivery: the first request names the price it was shown.
LEMMA DeliverKeeps ==
  ASSUME TxInv, NEW p \in Procs, NEW k \in Keys, Deliver(p, k)
  PROVE  TxInv'
<1> DEFINE s == Script(Request[k])
<1>0. /\ Shape /\ TxTypes /\ Places /\ Exclusive /\ AskedPrice /\ Counted /\ Inserted
      /\ \A q \in Procs : Serving(q) /\ Secured(q)
  BY DEF TxInv, TxTypes
<1>1. /\ Begin(p, s) /\ job' = [job EXCEPT ![p] = k]
      /\ UNCHANGED <<vars, done, effects, demoted, saw>>
      /\ \/ asked[k] # 0 /\ asked' = asked
         \/ asked[k] = 0 /\ asked' = [asked EXCEPT ![k] = Shown(Request[k])]
      /\ Request[k].op = "Redeem" /\ asked[k] = 0 => Shown(Request[k]) = Request[k].cost
  <2>1. Request[k].op = "Redeem" /\ Offered(Request[k]) => Shown(Request[k]) = Request[k].cost
    BY DEF Offered, Shown, OfferStands, Versioned, OccurrenceOps, Decisive
  <2> QED BY <2>1 DEF Deliver
<1>2. IsList(s) /\ IdempotencyLock(Request[k]) \in Range(s)
  BY ScriptLocks
<1> HIDE DEF s
<1>3. /\ Places'
      /\ pc'[p] = 1 /\ script'[p] = s /\ Held(p)' = {}
      /\ \A q \in Procs : q # p =>
           pc'[q] = pc[q] /\ script'[q] = script[q] /\ Held(q)' = Held(q)
  BY <1>0, <1>1, BeginHolds
<1>4. Len(s) \in Nat /\ 1 \in 1 .. Len(s)
  <2>1. s \in Seq(Range(s))
    BY <1>2 DEF IsList
  <2>2. Len(s) \in Nat /\ DOMAIN s = 1 .. Len(s)
    BY <2>1
  <2>3. DOMAIN s # {}
    BY <1>2 DEF Range
  <2> QED BY <2>2, <2>3
<1>5. /\ job'[p] = k /\ \A q \in Procs : q # p => job'[q] = job[q]
      /\ job' \in [Procs -> Keys \cup {NoKey}] /\ DOMAIN asked' = Keys
  BY <1>0, <1>1 DEF TxTypes
<1>6. TxTypes'
  BY <1>0, <1>1, <1>3, <1>5 DEF TxTypes
<1>7. \A l \in Keys : Request[l].op = "Redeem" =>
        /\ asked'[l] \in {0, Request[l].cost}
        /\ l = k => asked'[l] = Request[l].cost
        /\ asked[l] = Request[l].cost => asked'[l] = Request[l].cost
  <2>1. \A l \in Keys : Request[l].op = "Redeem" => Request[l].cost # 0
    BY TxAssumption, PointsAssumption
  <2> QED BY <1>0, <1>1, <2>1 DEF TxTypes, AskedPrice
<1>8. AskedPrice'
  BY <1>7 DEF AskedPrice
<1>9. Serving(p)'
  <2>1. Asker(p)' = Request[k]
    BY <1>5 DEF Asker
  <2> QED BY <1>3, <1>4, <1>5, <1>7, <2>1 DEF Serving, s
<1>10. ASSUME NEW q \in Procs, q # p PROVE Serving(q)'
  <2>1. Asker(q)' = Asker(q) /\ (Running(q)' <=> Running(q))
    BY <1>3, <1>5, <1>10 DEF Asker, Running
  <2> QED BY <1>0, <1>3, <1>5, <1>7, <1>10, <2>1 DEF Serving, Asker
<1>11. Secured(p)'
  <2>1. Waiting(p)' /\ \A table, id : ~ Holds(p, table, id)'
    BY <1>3, <1>4 DEF Waiting, Holds
  <2> QED BY <2>1 DEF Secured, SecuredFor
<1>12. ASSUME NEW q \in Procs, q # p PROVE Secured(q)'
  BY <1>0, <1>1, <1>3, <1>5, <1>12, QuietSecured
<1>13. Exclusive'
  BY <1>0, <1>3, DropExclusive
<1>14. Shape' /\ Inserted' /\ Counted'
  BY <1>0, <1>1, QuietTables
<1> QED BY <1>6, <1>8, <1>9, <1>10, <1>11, <1>12, <1>13, <1>14 DEF TxInv

\* A statement: the row it locks is checked as it is locked.
LEMMA AdvanceKeeps ==
  ASSUME TxInv, NEW p \in Procs, Advance(p)
  PROVE  TxInv'
<1>0. /\ Shape /\ TxTypes /\ Places /\ Exclusive /\ AskedPrice /\ Counted /\ Inserted
      /\ \A q \in Procs : Serving(q) /\ Secured(q)
  BY DEF TxInv, TxTypes
<1>1. /\ Pass(p) /\ Check(p, Step(p))
      /\ UNCHANGED <<vars, job, asked, done, effects, demoted>>
  BY DEF Advance, requestVars
<1>2. /\ Places'
      /\ pc'[p] = pc[p] + 1 /\ script' = script /\ Held(p)' = Held(p) \cup {Step(p)}
      /\ \A q \in Procs : q # p => pc'[q] = pc[q] /\ Held(q)' = Held(q)
  BY <1>0, <1>1, PassHolds
<1>3. Running(p) /\ pc[p] \in 1 .. Len(script[p])
  BY <1>1 DEF Pass, Waiting, Running
<1>4. job[p] \in Keys /\ script[p] = Script(Asker(p))
  BY <1>0, <1>3 DEF Serving
<1>5. IsList(script[p]) /\ Len(script[p]) \in Nat
  BY <1>4, ScriptLocks DEF Asker, IsList
<1>6. TxTypes' /\ AskedPrice'
  BY <1>0, <1>1, <1>2 DEF TxTypes, AskedPrice
<1>7. \A q \in Procs : Asker(q)' = Asker(q)
  BY <1>1 DEF Asker
<1>8. Serving(p)'
  <2>1. pc'[p] \in 1 .. Len(script'[p]) + 1
    BY <1>2, <1>3, <1>5
  <2> QED BY <1>0, <1>1, <1>2, <1>3, <1>7, <2>1 DEF Serving
<1>9. ASSUME NEW q \in Procs, q # p PROVE Serving(q)' /\ Secured(q)'
  <2>1. Running(q)' <=> Running(q)
    BY <1>2, <1>9 DEF Running
  <2>2. Serving(q)'
    BY <1>0, <1>1, <1>2, <1>7, <1>9, <2>1 DEF Serving
  <2> QED BY <1>0, <1>1, <1>2, <1>9, <2>2, QuietSecured
<1>10. Secured(p)'
  <2>1. PICK r : r = Asker(p)
    OBVIOUS
  <2>2. SecuredFor(p, r) /\ Asker(p)' = r
    BY <1>0, <1>3, <1>7, <2>1 DEF Secured
  <2>3. \A table, id : Holds(p, table, id)' =>
          Holds(p, table, id) \/ Step(p) = Take(table, id, "update")
    BY <1>2 DEF Holds
  <2>4. \A table, id : Take(table, id, "update").table = table /\ Take(table, id, "update").mode = "update"
    BY DEF Take
  <2>5. r.op = "Redeem" => asked[job[p]] = r.cost
    BY <1>0, <1>3, <2>1 DEF Serving
  <2>6. /\ Step(p).table = "idempotency_records" => job[p] \notin done
        /\ Step(p).table = "occurrences" => OccurrenceOK(r)
        /\ r.op = "Redeem" /\ Step(p).table = "rewards" => OfferStands(r.child, r.reward, r.cost)
        /\ Step(p).table = "reward_redemptions" => Requested(r.redemption)
        /\ Step(p).table = "sessions" /\ Step(p).mode = "update" => r.session \notin demoted
    BY <1>1, <2>1, <2>5 DEF Check
  <2>7. Holds(p, "idempotency_records", <<r.session, r.key>>)' => job[p] \notin done
    BY <2>2, <2>3, <2>4, <2>6, Zenon DEF SecuredFor
  <2>8. r.op \in OccurrenceOps /\ Holds(p, "occurrences", r.occurrence)' => OccurrenceOK(r)
    BY <2>2, <2>3, <2>4, <2>6, Zenon DEF SecuredFor
  <2>9. /\ r.op = "Redeem" /\ Holds(p, "rewards", r.reward)' =>
             OfferStands(r.child, r.reward, r.cost)
        /\ r.op \in Decisive /\ Holds(p, "reward_redemptions", r.redemption)' =>
             Requested(r.redemption)
    BY <2>2, <2>3, <2>4, <2>6, Zenon DEF SecuredFor
  <2>10. r.op \in LocksSession /\ Holds(p, "sessions", r.session)' => r.session \notin demoted
    <3> SUFFICES ASSUME r.op \in LocksSession, Holds(p, "sessions", r.session)'
                 PROVE  r.session \notin demoted
      OBVIOUS
    <3>1. CASE Holds(p, "sessions", r.session)
      BY <2>2, <3>1 DEF SecuredFor
    <3>2. CASE Step(p) = Take("sessions", r.session, "update")
      BY <2>4, <2>6, <3>2
    <3> QED BY <2>3, <3>1, <3>2
  <2>11. r.op \in {"Redeem", "Reverse"} /\ ~ Waiting(p)' => Affordable(r)
    <3> SUFFICES ASSUME r.op \in {"Redeem", "Reverse"}, ~ Waiting(p)' PROVE Affordable(r)
      OBVIOUS
    <3>1. pc[p] = Len(script[p])
      BY <1>2, <1>3, <1>5 DEF Waiting
    <3>2. Step(p) = BalanceRead
      BY <1>4, <2>1, <3>1, ScriptLocks DEF Step, Asker
    <3>3. BalanceRead.table = "point_ledger"
      BY DEF BalanceRead, Take
    <3> QED BY <1>1, <2>1, <2>5, <3>2, <3>3 DEF Check, Affordable
  <2>12. /\ OccurrenceOK(r)' <=> OccurrenceOK(r)
         /\ OfferStands(r.child, r.reward, r.cost)' <=> OfferStands(r.child, r.reward, r.cost)
         /\ Requested(r.redemption)' <=> Requested(r.redemption)
         /\ Affordable(r)' <=> Affordable(r)
    <3> USE <1>1 DEF vars
    <3>1. OccurrenceOK(r)' <=> OccurrenceOK(r)
      BY DEF OccurrenceOK, SubmitOK, Pending, Approved, Award, Entry, CancelTaskOK, EditTaskOK
    <3>2. Affordable(r)' <=> Affordable(r)
      BY DEF Affordable, RedeemAffordable, ReverseAffordable
    <3> QED BY <3>1, <3>2 DEF OfferStands, Requested
  <2>13. job'[p] = job[p] /\ done' = done /\ demoted' = demoted
    BY <1>1
  <2> QED
    BY <2>2, <2>7, <2>8, <2>9, <2>10, <2>11, <2>12, <2>13 DEF Secured, SecuredFor
<1>11. Exclusive'
  BY <1>0, <1>1, PassExclusive
<1>12. Shape' /\ Inserted' /\ Counted'
  BY <1>0, <1>1, QuietTables
<1> QED BY <1>6, <1>8, <1>9, <1>10, <1>11, <1>12 DEF TxInv

\* A commit: the row of the key is the committer's, so nobody else passed it.
LEMMA CommitKeeps ==
  ASSUME TxInv, NEW p \in Procs, Commit(p)
  PROVE  TxInv'
<1>0. /\ Shape /\ TxTypes /\ Places /\ Exclusive /\ AskedPrice /\ Counted /\ Inserted
      /\ \A q \in Procs : Serving(q) /\ Secured(q)
  BY DEF TxInv, TxTypes
<1>1. /\ Running(p) /\ ~ Waiting(p) /\ Effect(Asker(p)) /\ End(p)
      /\ done' = done \cup {job[p]}
      /\ effects' = [effects EXCEPT ![job[p]] = @ + 1]
      /\ job' = [job EXCEPT ![p] = NoKey]
      /\ asked' = asked /\ demoted' = demoted
  BY DEF Commit, Stop
<1>2. /\ Places'
      /\ pc'[p] = 0 /\ Held(p)' = {}
      /\ \A q \in Procs : q # p =>
           pc'[q] = pc[q] /\ script'[q] = script[q] /\ Held(q)' = Held(q)
  BY <1>0, <1>1, EndHolds
<1>3. PICK r : r = Asker(p)
  OBVIOUS
<1>4. job[p] \in Keys \ done /\ r = Request[job[p]]
  BY <1>1, <1>3, ReadyToCommit
<1>5. Shape'
  <2>1. Next
    BY CommitIsStep
  <2> QED BY <1>0, <2>1, ShapeStep
<1>6. Inserted'
  <2>1. \A e \in ledger' : e.kind = "manual_correction" =>
          \E k \in done' : Request[k].op = "Correct" /\ Request[k].correction = e.ref
    <3> SUFFICES ASSUME NEW e \in ledger', e.kind = "manual_correction"
                 PROVE  \E k \in done' : Request[k].op = "Correct" /\ Request[k].correction = e.ref
      OBVIOUS
    <3>1. e \in ledger \/ (r.op = "Correct" /\ e.ref = r.correction)
      BY <1>0, <1>1, <1>3, <1>4, EffectTouches
    <3> QED BY <1>0, <1>1, <1>4, <3>1 DEF Inserted
  <2>2. \A d \in Redemptions : redemption'[d].state # "none" =>
          \E k \in done' : Request[k].op = "Redeem" /\ Request[k].redemption = d
    <3> SUFFICES ASSUME NEW d \in Redemptions, redemption'[d].state # "none"
                 PROVE  \E k \in done' : Request[k].op = "Redeem" /\ Request[k].redemption = d
      OBVIOUS
    <3>1. \/ redemption'[d] = redemption[d]
          \/ r.op \in Decisive \cup {"Redeem"} /\ d = r.redemption
      BY <1>0, <1>1, <1>3, <1>4, EffectTouches
    <3>2. r.op \in Decisive => redemption[r.redemption].state # "none"
      BY <1>1, <1>3, ReadyToCommit DEF Requested
    <3> QED BY <1>0, <1>1, <1>4, <3>1, <3>2 DEF Inserted
  <2> QED BY <2>1, <2>2 DEF Inserted
<1>7. Counted' /\ TxTypes' /\ AskedPrice'
  BY <1>0, <1>1, <1>2, <1>4 DEF Counted, TxTypes, AskedPrice
<1>8. job'[p] = NoKey /\ \A q \in Procs : q # p => job'[q] = job[q]
  BY <1>0, <1>1 DEF TxTypes
<1>9. Serving(p)' /\ Secured(p)'
  BY <1>2 DEF Serving, Secured, Running
<1>10. ASSUME NEW q \in Procs, q # p PROVE Serving(q)'
  <2>1. Asker(q)' = Asker(q) /\ (Running(q)' <=> Running(q))
    BY <1>2, <1>8, <1>10 DEF Asker, Running
  <2> QED BY <1>0, <1>1, <1>2, <1>8, <1>10, <2>1 DEF Serving
<1>11. ASSUME NEW q \in Procs, q # p PROVE Secured(q)'
  <2>1. PICK t : t = Asker(q)
    OBVIOUS
  <2>2. CASE ~ Running(q)
    BY <1>2, <1>11, <2>2 DEF Secured, Running
  <2>3. CASE Running(q)
    <3>1. job[q] \in Keys /\ t = Request[job[q]]
      BY <1>0, <2>1, <2>3 DEF Serving, Asker
    <3>2. /\ \A o \in Occurrences : Holds(q, "occurrences", o) => SameOccurrence(o)
          /\ \A d \in Redemptions : Holds(q, "reward_redemptions", d) /\ Requested(d)
                                      => redemption'[d] = redemption[d]
          /\ \A c \in Children : Holds(q, "children", c) => balance'[c] >= balance[c]
          /\ \A s, k : Holds(q, "idempotency_records", <<s, k>>) =>
               <<s, k>> # <<r.session, r.key>>
          /\ offer' = offer /\ ledger \subseteq ledger'
      BY <1>3, <1>11, CommitSparesOthers
    <3>3. Holds(q, "idempotency_records", <<t.session, t.key>>) /\ job[q] \notin done
            => job[q] \notin done'
      <4>1. Holds(q, "idempotency_records", <<t.session, t.key>>) => t # r
        BY <3>2
      <4> QED BY <1>1, <1>4, <3>1, <4>1
    <3>4. t.op \in OccurrenceOps /\ Holds(q, "occurrences", t.occurrence) /\ OccurrenceOK(t)
            => OccurrenceOK(t)'
      <4>1. t.op \in OccurrenceOps => t.occurrence \in Occurrences
        BY <3>1, TxAssumption
      <4> QED BY <3>2, <4>1, SameChecks
    <3>5. OfferStands(t.child, t.reward, t.cost) => OfferStands(t.child, t.reward, t.cost)'
      BY <3>2 DEF OfferStands
    <3>6. t.op \in Decisive /\ Holds(q, "reward_redemptions", t.redemption)
            /\ Requested(t.redemption) => Requested(t.redemption)'
      <4>1. t.op \in Decisive => t.redemption \in Redemptions
        BY <3>1, TxAssumption
      <4> QED BY <3>2, <4>1 DEF Requested
    <3>7. t.op \in {"Redeem", "Reverse"} /\ ~ Waiting(q) /\ Affordable(t) => Affordable(t)'
      <4> SUFFICES ASSUME t.op \in {"Redeem", "Reverse"}, ~ Waiting(q), Affordable(t)
                   PROVE  Affordable(t)'
        OBVIOUS
      <4>1. /\ Holds(q, "children", t.child)
            /\ t.op = "Reverse" => Holds(q, "occurrences", t.occurrence)
        BY <2>1, <2>3, ReadyToCommit DEF OccurrenceOps, Versioned
      <4>2. balance \in [Children -> Int] /\ balance' \in [Children -> Int]
            /\ points \in [Occurrences -> PointValues]
        BY <1>0, <1>5 DEF Shape, TypeOK
      <4>3. CASE t.op = "Redeem"
        <5>1. t.child \in Children /\ t.cost \in Nat
          BY <3>1, <4>3, TxAssumption, PointsAssumption
        <5>2. balance[t.child] >= t.cost /\ balance'[t.child] >= balance[t.child]
          BY <3>2, <4>1, <4>3, <5>1 DEF Affordable, RedeemAffordable
        <5>3. balance'[t.child] >= t.cost
          BY <4>2, <5>1, <5>2
        <5> QED BY <4>3, <5>3 DEF Affordable, RedeemAffordable
      <4>4. CASE t.op = "Reverse"
        <5>1. /\ t.occurrence \in Occurrences /\ t.child = ChildOf[t.occurrence]
              /\ t.child \in Children
          BY <3>1, <4>4, TxAssumption, PointsAssumption DEF OccurrenceOps, Versioned
        <5>2. points[t.occurrence] \in Nat /\ points'[t.occurrence] = points[t.occurrence]
          BY <3>2, <4>1, <4>2, <4>4, <5>1, PointsAssumption DEF SameOccurrence
        <5>3. /\ balance[t.child] >= points[t.occurrence]
              /\ balance'[t.child] >= balance[t.child]
          BY <3>2, <4>1, <4>4, <5>1 DEF Affordable, ReverseAffordable
        <5>4. balance'[t.child] >= points'[t.occurrence]
          BY <4>2, <5>1, <5>2, <5>3
        <5> QED BY <4>4, <5>1, <5>4 DEF Affordable, ReverseAffordable
      <4> QED BY <4>3, <4>4
    <3>8. Secured(q) /\ pc'[q] = pc[q] /\ script'[q] = script[q] /\ Held(q)' = Held(q)
          /\ job'[q] = job[q] /\ demoted' = demoted
      BY <1>0, <1>1, <1>2, <1>8, <1>11
    <3> QED BY <2>1, <3>3, <3>4, <3>5, <3>6, <3>7, <3>8, StaysSecured
  <2> QED BY <2>2, <2>3
<1>12. Exclusive'
  BY <1>0, <1>2, DropExclusive
<1> QED BY <1>5, <1>6, <1>7, <1>9, <1>10, <1>11, <1>12 DEF TxInv

LEMMA GiveUpKeeps ==
  ASSUME TxInv, NEW p \in Procs, GiveUp(p)
  PROVE  TxInv'
<1>0. /\ Shape /\ TxTypes /\ Places /\ Exclusive /\ AskedPrice /\ Counted /\ Inserted
      /\ \A q \in Procs : Serving(q) /\ Secured(q)
  BY DEF TxInv, TxTypes
<1>1. /\ End(p) /\ job' = [job EXCEPT ![p] = NoKey]
      /\ UNCHANGED <<vars, asked, done, effects, demoted>>
  BY DEF GiveUp, Stop, requestVars
<1>2. /\ Places'
      /\ pc'[p] = 0 /\ Held(p)' = {}
      /\ \A q \in Procs : q # p =>
           pc'[q] = pc[q] /\ script'[q] = script[q] /\ Held(q)' = Held(q)
  BY <1>0, <1>1, EndHolds
<1>3. job'[p] = NoKey /\ \A q \in Procs : q # p => job'[q] = job[q]
  BY <1>0, <1>1 DEF TxTypes
<1>4. TxTypes' /\ AskedPrice'
  BY <1>0, <1>1, <1>2 DEF TxTypes, AskedPrice
<1>5. Serving(p)' /\ Secured(p)'
  BY <1>2 DEF Serving, Secured, Running
<1>6. ASSUME NEW q \in Procs, q # p PROVE Serving(q)' /\ Secured(q)'
  <2>1. Asker(q)' = Asker(q) /\ (Running(q)' <=> Running(q))
    BY <1>2, <1>3, <1>6 DEF Asker, Running
  <2>2. Serving(q)'
    BY <1>0, <1>1, <1>2, <1>3, <1>6, <2>1 DEF Serving
  <2> QED BY <1>0, <1>1, <1>2, <1>3, <1>6, <2>2, QuietSecured
<1>7. Exclusive'
  BY <1>0, <1>2, DropExclusive
<1>8. Shape' /\ Inserted' /\ Counted'
  BY <1>0, <1>1, QuietTables
<1> QED BY <1>4, <1>5, <1>6, <1>7, <1>8 DEF TxInv

\* What happens around the handlers waits for the rows they hold.
LEMMA ElsewhereKeeps ==
  ASSUME TxInv, Elsewhere
  PROVE  TxInv'
<1>0. /\ Shape /\ TxTypes /\ Places /\ Exclusive /\ AskedPrice /\ Counted /\ Inserted
      /\ \A q \in Procs : Serving(q) /\ Secured(q)
  BY DEF TxInv, TxTypes
<1>1. /\ UNCHANGED <<script, pc, job, asked, done, effects, demoted>>
      /\ UNCHANGED <<state, version, attempts, points, ledger, balance, redemption>>
      /\ \A o \in Occurrences : (o \in open' <=> o \in open) \/ Free(<<"occurrences", o>>, "update")
      /\ \A c \in Children, w \in Rewards :
           offer'[<<c, w>>] = offer[<<c, w>>] \/ Free(<<"rewards", w>>, "update")
  <2>1. UNCHANGED <<script, pc, job, asked, done, effects, demoted>>
    BY DEF Elsewhere, lockVars, requestVars
  <2>2. CASE \E o \in Occurrences : Free(<<"occurrences", o>>, "update") /\ Reschedule(o)
    BY <2>1, <2>2 DEF Reschedule, occurrenceVars, ledgerVars
  <2>3. CASE \E c \in Children, w \in Rewards : Free(<<"rewards", w>>, "update") /\ Reprice(c, w)
    BY <1>0, <2>1, <2>3 DEF Reprice, occurrenceVars, ledgerVars, Shape, TypeOK
  <2> QED BY <2>2, <2>3, <2>1 DEF Elsewhere
<1>2. Shape'
  <2>1. Next
    BY DEF Elsewhere, Next
  <2> QED BY <1>0, <2>1, ShapeStep
<1>3. Inserted' /\ Counted' /\ TxTypes' /\ AskedPrice' /\ Exclusive'
  BY <1>0, <1>1 DEF Inserted, Counted, TxTypes, Places, AskedPrice, Exclusive, Held
<1>4. ASSUME NEW q \in Procs PROVE Serving(q)'
  BY <1>0, <1>1 DEF Serving, Running, Asker
<1>5. ASSUME NEW q \in Procs PROVE Secured(q)'
  <2>1. PICK t : t = Asker(q)
    OBVIOUS
  <2>2. Held(q)' = Held(q)
    BY <1>1 DEF Held
  <2>3. Running(q) => job[q] \in Keys /\ t = Request[job[q]]
    BY <1>0, <2>1 DEF Serving, Asker
  <2>4. Running(q) /\ t.op \in OccurrenceOps /\ Holds(q, "occurrences", t.occurrence)
          /\ OccurrenceOK(t) => OccurrenceOK(t)'
    <3> SUFFICES ASSUME Running(q), t.op \in OccurrenceOps, Holds(q, "occurrences", t.occurrence),
                        OccurrenceOK(t)
                 PROVE  OccurrenceOK(t)'
      OBVIOUS
    <3>1. t.occurrence \in Occurrences
      BY <2>3, TxAssumption
    <3>2. ~ Free(<<"occurrences", t.occurrence>>, "update")
      BY FreeUnheld
    <3>3. SameOccurrence(t.occurrence)
      BY <1>1, <3>1, <3>2 DEF SameOccurrence
    <3> QED BY <1>1, <3>3, SameChecks
  <2>5. Running(q) /\ t.op = "Redeem" /\ Holds(q, "rewards", t.reward)
          /\ OfferStands(t.child, t.reward, t.cost) => OfferStands(t.child, t.reward, t.cost)'
    <3> SUFFICES ASSUME Running(q), t.op = "Redeem", Holds(q, "rewards", t.reward),
                        OfferStands(t.child, t.reward, t.cost)
                 PROVE  OfferStands(t.child, t.reward, t.cost)'
      OBVIOUS
    <3>1. t.child \in Children /\ t.reward \in Rewards
      BY <2>3, TxAssumption
    <3>2. ~ Free(<<"rewards", t.reward>>, "update")
      BY FreeUnheld
    <3>3. offer'[<<t.child, t.reward>>] = offer[<<t.child, t.reward>>]
      BY <1>1, <3>1, <3>2
    <3> QED BY <3>3 DEF OfferStands
  <2>6. (Requested(t.redemption)' <=> Requested(t.redemption)) /\ (Affordable(t)' <=> Affordable(t))
    BY <1>1 DEF Requested, Affordable, RedeemAffordable, ReverseAffordable
  <2>7. Secured(q) /\ pc'[q] = pc[q] /\ script'[q] = script[q] /\ job'[q] = job[q]
        /\ done' = done /\ demoted' = demoted
    BY <1>0, <1>1
  <2> QED BY <2>1, <2>2, <2>4, <2>5, <2>6, <2>7, StaysSecured
<1> QED BY <1>2, <1>3, <1>4, <1>5 DEF TxInv

LEMMA DemoteKeeps ==
  ASSUME TxInv, NEW s \in Switching, Demote(s)
  PROVE  TxInv'
<1>0. /\ Shape /\ TxTypes /\ Places /\ Exclusive /\ AskedPrice /\ Counted /\ Inserted
      /\ \A q \in Procs : Serving(q) /\ Secured(q)
  BY DEF TxInv, TxTypes
<1>1. /\ UNCHANGED <<vars, script, pc, job, asked, done, effects>>
      /\ demoted' = demoted \cup {s}
      /\ \A q \in Procs : ~ Holds(q, "sessions", s)
  BY FreeUnheld DEF Demote, lockVars, requestVars
<1>2. TxTypes' /\ AskedPrice' /\ Exclusive'
  BY <1>0, <1>1 DEF TxTypes, Places, AskedPrice, Exclusive, Held
<1>3. Shape' /\ Inserted' /\ Counted'
  BY <1>0, <1>1, QuietTables
<1>4. ASSUME NEW q \in Procs PROVE Serving(q)'
  BY <1>0, <1>1 DEF Serving, Running, Asker
<1>5. ASSUME NEW q \in Procs PROVE Secured(q)'
  <2>1. PICK t : t = Asker(q)
    OBVIOUS
  <2>2. Held(q)' = Held(q)
    BY <1>1 DEF Held
  <2>3. /\ OccurrenceOK(t)' <=> OccurrenceOK(t)
        /\ OfferStands(t.child, t.reward, t.cost)' <=> OfferStands(t.child, t.reward, t.cost)
        /\ Requested(t.redemption)' <=> Requested(t.redemption)
        /\ Affordable(t)' <=> Affordable(t)
    <3> USE <1>1 DEF vars
    <3>1. OccurrenceOK(t)' <=> OccurrenceOK(t)
      BY DEF OccurrenceOK, SubmitOK, Pending, Approved, Award, Entry, CancelTaskOK, EditTaskOK
    <3>2. Affordable(t)' <=> Affordable(t)
      BY DEF Affordable, RedeemAffordable, ReverseAffordable
    <3> QED BY <3>1, <3>2 DEF OfferStands, Requested
  <2>4. Holds(q, "sessions", t.session) => t.session # s
    BY <1>1
  <2>5. Secured(q) /\ pc'[q] = pc[q] /\ script'[q] = script[q] /\ job'[q] = job[q] /\ done' = done
        /\ (Holds(q, "sessions", t.session) /\ t.session \notin demoted => t.session \notin demoted')
    BY <1>0, <1>1, <2>4
  <2> QED BY <2>1, <2>2, <2>3, <2>5, StaysSecured
<1> QED BY <1>2, <1>3, <1>4, <1>5 DEF TxInv

LEMMA TxInvStep ==
  ASSUME TxInv, [TxNext]_txVars
  PROVE  TxInv'
<1>1. CASE TxNext
  BY <1>1, DeliverKeeps, AdvanceKeeps, CommitKeeps, GiveUpKeeps, ElsewhereKeeps, DemoteKeeps
     DEF TxNext
<1>2. CASE UNCHANGED txVars
  <2>0. /\ Shape /\ TxTypes /\ Places /\ Exclusive /\ AskedPrice /\ Counted /\ Inserted
        /\ \A q \in Procs : Serving(q) /\ Secured(q)
    BY DEF TxInv, TxTypes
  <2>1. UNCHANGED <<vars, script, pc, job, asked, done, effects, demoted>>
    BY <1>2 DEF txVars, lockVars, requestVars
  <2>2. \A q \in Procs : Held(q)' = Held(q)
    BY <2>1 DEF Held
  <2>3. \A q \in Procs : Serving(q)' /\ Secured(q)'
    <3> SUFFICES ASSUME NEW q \in Procs PROVE Serving(q)' /\ Secured(q)'
      OBVIOUS
    <3>1. Serving(q)'
      BY <2>0, <2>1 DEF Serving, Running, Asker
    <3> QED BY <2>0, <2>1, <2>2, <3>1, QuietSecured
  <2>4. TxTypes' /\ AskedPrice' /\ Exclusive'
    BY <2>0, <2>1, <2>2 DEF TxTypes, Places, AskedPrice, Exclusive
  <2>5. Shape' /\ Inserted' /\ Counted'
    BY <2>0, <2>1, QuietTables
  <2> QED BY <2>3, <2>4, <2>5 DEF TxInv
<1> QED BY <1>1, <1>2

\* Whatever the number of requests, their order and their retries: a row locked
\* for update has one holder, what a handler checked of the rows it holds is
\* still true, and what a key did is counted once.
THEOREM TxInvariant == TxSpec => []TxInv
BY TxInvInit, TxInvStep, PTL DEF TxSpec

-----------------------------------------------------------------------------
(* What it implies *)

\* A key takes effect once, however often and however concurrently it is sent:
\* the reservation of the key's row orders the requests that carry it.
THEOREM KeysExecuteOnce == TxSpec => []ExecutedOnce
<1>1. TxInv => ExecutedOnce
  BY DEF TxInv, Counted, ExecutedOnce
<1> QED BY <1>1, TxInvariant, PTL

LEMMA TxStepIsStep ==
  ASSUME TxInv, [TxNext]_txVars
  PROVE  [Next]_vars
<1>1. ASSUME NEW p \in Procs, NEW k \in Keys, Deliver(p, k) PROVE UNCHANGED vars
  BY <1>1 DEF Deliver, vars
<1>2. ASSUME NEW p \in Procs, Advance(p) \/ GiveUp(p) PROVE UNCHANGED vars
  BY <1>2 DEF Advance, GiveUp, vars
<1>3. ASSUME NEW p \in Procs, Commit(p) PROVE Next
  BY <1>3, CommitIsStep
<1>4. Elsewhere => Next
  BY DEF Elsewhere, Next
<1>5. ASSUME NEW s \in Switching, Demote(s) PROVE UNCHANGED vars
  BY <1>5 DEF Demote, vars
<1>6. UNCHANGED txVars => UNCHANGED vars
  BY DEF txVars, vars
<1> QED BY <1>1, <1>2, <1>3, <1>4, <1>5, <1>6 DEF TxNext

\* The interleaved handlers implement PointsLedger: every commit is one step of
\* it, whose checks all hold of the committed rows at that moment.
THEOREM Serialization == TxSpec => Serializable
<1>1. TxInit => Init
  BY DEF TxInit
<1>2. TxInv /\ [TxNext]_txVars => [Next]_vars
  BY TxStepIsStep
<1> QED BY <1>1, <1>2, TxInvariant, PTL DEF TxSpec, Spec, Serializable

\* So what holds of the handlers one after the other holds of the handlers
\* served concurrently: chores and ledger agree, nobody owes points, no row is
\* posted twice, versions count, and the accounts are kept.
THEOREM ConcurrentHandlers ==
  TxSpec => /\ [](AttemptsAgree /\ LedgerAgrees /\ Solvent)
            /\ PostedOnce
            /\ VersionCountsTransitions
            /\ KeepsAccounts
<1>1. TxSpec => Spec
  BY Serialization DEF Serializable
<1> QED
  BY <1>1, AttemptsAlwaysAgree, LedgerAlwaysAgrees, AlwaysSolvent, AlwaysPostedOnce,
     VersionsAlwaysCount, ImplementsAccounts, PTL

\* The handlers that lock their session commit only while it has the mode they
\* checked: a profile switch waits for them.
THEOREM AuthorityAlwaysHeld == TxSpec => AuthorityHeld
<1>1. TxInv /\ [TxNext]_txVars => [CommitsUnder(LocksSession)]_txVars
  <2> SUFFICES ASSUME TxInv, NEW p \in Procs, Commit(p), Asker(p).op \in LocksSession
               PROVE  Asker(p).session \notin demoted
    BY DEF CommitsUnder
  <2>1. PICK r : r = Asker(p)
    OBVIOUS
  <2> QED BY <2>1, ReadyToCommit DEF Commit
<1> QED BY <1>1, TxInvariant, PTL DEF TxSpec, AuthorityHeld

\* The price of a task moves only while nobody has attempted it, although the
\* statement that looks for attempts may see them as they were.
THEOREM EditsAlwaysUnattempted == TxSpec => EditsUnattempted
<1>1. TxInv /\ [TxNext]_txVars =>
        [\A o \in Tasks : points'[o] # points[o] => attempts[o] = <<>>]_txVars
  <2> SUFFICES ASSUME TxInv, TxNext, NEW o \in Tasks, points'[o] # points[o]
               PROVE  attempts[o] = <<>>
    OBVIOUS
  <2>1. TypeOK /\ Tasks \subseteq Occurrences
    BY PointsAssumption DEF TxInv, Shape
  <2>2. Next
    BY TxStepIsStep DEF vars
  <2>3. \E t \in Tasks, worth \in PointValues : EditTask(t, worth)
    BY <2>2 DEF Next, AttemptStep, RedemptionStep, Submit, SubmitEffect, Withdraw, WithdrawEffect,
                Approve, ApproveEffect, Reject, RejectEffect, Reverse, ReverseEffect, CancelTask,
                CancelTaskEffect, Correct, CorrectEffect, Redeem, RedeemEffect, Fulfil,
                FulfilEffect, CancelRedemption, CancelRedemptionEffect, Reschedule, Reprice
  <2>4. PICK t \in Tasks, worth \in PointValues : EditTask(t, worth)
    BY <2>3
  <2> QED BY <2>1, <2>4 DEF EditTask, EditTaskEffect, SnapshotMutable, TypeOK
<1> QED BY <1>1, TxInvariant, PTL DEF TxSpec, EditsUnattempted

-----------------------------------------------------------------------------
(* What a page showed.  A version names one row of an occurrence, so whoever  *)
(* finds the version it was shown, and holds the row, finds what was shown.   *)

Remembers(o, v, shown) == v \in Nat /\ v <= version[o] /\ (version[o] = v => Row(o) = shown)

ShownFor(k) ==
  Request[k].op \in Versioned /\ asked[k] # 0 =>
    Remembers(Request[k].occurrence, asked[k], screen[k])

Matched(p) ==
  Running(p) /\ Asker(p).op \in Versioned =>
    /\ asked[job[p]] # 0
    /\ Holds(p, "occurrences", Asker(p).occurrence) => VersionMatches(Asker(p), job[p])

ShownInv ==
  /\ DOMAIN screen = Keys
  /\ \A o \in Occurrences : version[o] # 0
  /\ \A k \in Keys : ShownFor(k)
  /\ \A p \in Procs : Matched(p)

LEMMA VersionedChores ==
  ASSUME NEW k \in Keys, Request[k].op \in Versioned
  PROVE  Request[k].occurrence \in Occurrences
BY TxAssumption DEF OccurrenceOps

\* A request that goes on keeps what it was shown, and the row it holds its version.
LEMMA StaysMatched ==
  ASSUME NEW q \in Procs, Matched(q),
         pc'[q] = pc[q], Held(q)' = Held(q), job'[q] = job[q],
         Running(q) /\ Asker(q).op \in Versioned =>
           /\ asked[job[q]] # 0 => asked'[job[q]] = asked[job[q]]
           /\ Holds(q, "occurrences", Asker(q).occurrence) =>
                version'[Asker(q).occurrence] = version[Asker(q).occurrence]
  PROVE  Matched(q)'
<1>1. Asker(q)' = Asker(q) /\ (Running(q)' <=> Running(q))
  BY DEF Asker, Running
<1>2. PICK r : r = Asker(q)
  OBVIOUS
<1>3. PICK k : k = job[q]
  OBVIOUS
<1>4. Holds(q, "occurrences", r.occurrence)' <=> Holds(q, "occurrences", r.occurrence)
  BY DEF Holds
<1>5. /\ Running(q) /\ r.op \in Versioned =>
           /\ asked[k] # 0
           /\ Holds(q, "occurrences", r.occurrence) => VersionMatches(r, k)
      /\ Running(q) /\ r.op \in Versioned =>
           /\ asked[k] # 0 => asked'[k] = asked[k]
           /\ Holds(q, "occurrences", r.occurrence) => version'[r.occurrence] = version[r.occurrence]
  BY <1>2, <1>3 DEF Matched
<1>6. Running(q) /\ r.op \in Versioned =>
        /\ asked'[k] # 0
        /\ Holds(q, "occurrences", r.occurrence) => VersionMatches(r, k)'
  BY <1>5 DEF VersionMatches
<1>7. Asker(q)' = r /\ job'[q] = k
  BY <1>1, <1>2, <1>3
<1> QED BY <1>1, <1>4, <1>6, <1>7 DEF Matched

\* A request is sent once with what the page shows, and repeated as it was.
LEMMA AskedOnce ==
  ASSUME TxInv, DOMAIN screen = Keys, [TxNext]_txVars
  PROVE  /\ DOMAIN screen' = Keys
         /\ \A k \in Keys :
              \/ asked'[k] = asked[k] /\ screen'[k] = screen[k]
              \/ /\ asked[k] = 0
                 /\ asked'[k] = Shown(Request[k]) /\ screen'[k] = Pictured(Request[k])
                 /\ UNCHANGED vars
<1>0. DOMAIN asked = Keys
  BY DEF TxInv, TxTypes
<1>1. ASSUME NEW p \in Procs, NEW l \in Keys, Deliver(p, l)
      PROVE  /\ UNCHANGED vars
             /\ \/ asked' = asked /\ screen' = screen
                \/ /\ asked[l] = 0 /\ asked' = [asked EXCEPT ![l] = Shown(Request[l])]
                   /\ screen' = [screen EXCEPT ![l] = Pictured(Request[l])]
  BY <1>1 DEF Deliver
<1>2. ASSUME NEW p \in Procs, NEW l \in Keys, Deliver(p, l)
      PROVE  /\ DOMAIN screen' = Keys
             /\ \A k \in Keys :
                  \/ asked'[k] = asked[k] /\ screen'[k] = screen[k]
                  \/ /\ asked[k] = 0
                     /\ asked'[k] = Shown(Request[k]) /\ screen'[k] = Pictured(Request[k])
                     /\ UNCHANGED vars
  BY <1>0, <1>1, <1>2
<1>3. ASSUME NEW p \in Procs, Advance(p) \/ Commit(p) \/ GiveUp(p)
      PROVE  asked' = asked /\ screen' = screen
  BY <1>3 DEF Advance, Commit, GiveUp, requestVars
<1>4. Elsewhere \/ (\E s \in Switching : Demote(s)) => asked' = asked /\ screen' = screen
  BY DEF Elsewhere, Demote, requestVars
<1>5. UNCHANGED txVars => asked' = asked /\ screen' = screen
  BY DEF txVars, requestVars
<1> QED BY <1>2, <1>3, <1>4, <1>5 DEF TxNext

LEMMA ShownInvInit == TxInit => ShownInv
<1> SUFFICES ASSUME TxInit PROVE ShownInv
  OBVIOUS
<1>1. \A p \in Procs : ~ Running(p)
  BY DEF TxInit, Idle, Running
<1> QED BY <1>1 DEF TxInit, Init, ShownInv, ShownFor, Matched

\* No later row has the version that a page showed.
LEMMA ShownForStep ==
  ASSUME TxInv, ShownInv, [TxNext]_txVars
  PROVE  /\ \A o \in Occurrences : version'[o] # 0
         /\ \A k \in Keys : ShownFor(k)'
<1>1. MovesVersion /\ version \in [Occurrences -> Nat]
  BY TxStepIsStep, VersionStep DEF TxInv, Shape, TypeOK
<1>2. \A o \in Occurrences : version'[o] # 0
  BY <1>1 DEF MovesVersion, ShownInv
<1>3. ASSUME NEW o \in Occurrences, NEW v, NEW shown, Remembers(o, v, shown)
      PROVE  Remembers(o, v, shown)'
  <2>1. CASE version'[o] = version[o] + 1
    BY <1>1, <1>3, <2>1 DEF Remembers
  <2>2. CASE version'[o] = version[o] /\ Row(o)' = Row(o)
    BY <1>3, <2>2 DEF Remembers
  <2> QED BY <1>1, <2>1, <2>2 DEF MovesVersion, Row
<1>4. ASSUME NEW k \in Keys PROVE ShownFor(k)'
  <2> SUFFICES ASSUME Request[k].op \in Versioned, asked'[k] # 0
               PROVE  Remembers(Request[k].occurrence, asked[k], screen[k])'
    BY DEF ShownFor
  <2>1. Request[k].occurrence \in Occurrences
    BY VersionedChores
  <2>2. PICK o : o = Request[k].occurrence
    OBVIOUS
  <2>3. PICK v, shown : v = asked'[k] /\ shown = screen'[k]
    OBVIOUS
  <2>4. CASE asked'[k] = asked[k] /\ screen'[k] = screen[k]
    <3>1. Remembers(o, v, shown)
      BY <2>2, <2>3, <2>4 DEF ShownInv, ShownFor
    <3>2. Remembers(o, v, shown)'
      BY <1>3, <2>1, <2>2, <3>1
    <3> QED BY <2>2, <2>3, <3>2 DEF Remembers, Row
  <2>5. CASE /\ asked'[k] = Shown(Request[k]) /\ screen'[k] = Pictured(Request[k])
             /\ UNCHANGED vars
    <3>1. v = version[o] /\ shown = Row(o)
      BY <2>2, <2>3, <2>5 DEF Shown, Pictured
    <3>2. Remembers(o, v, shown)
      BY <1>1, <2>1, <2>2, <3>1 DEF Remembers
    <3>3. Remembers(o, v, shown)'
      BY <1>3, <2>1, <2>2, <3>2
    <3> QED BY <2>2, <2>3, <3>3 DEF Remembers, Row
  <2> QED BY <2>4, <2>5, AskedOnce DEF ShownInv
<1> QED BY <1>2, <1>4

\* The row that a statement locks has the version the request names.
LEMMA MatchedStep ==
  ASSUME TxInv, ShownInv, [TxNext]_txVars
  PROVE  \A q \in Procs : Matched(q)'
<1>0. /\ Places /\ DOMAIN asked = Keys /\ job \in [Procs -> Keys \cup {NoKey}]
      /\ \A q \in Procs : Serving(q) /\ Matched(q)
  BY DEF TxInv, TxTypes, ShownInv
<1>1. \A k \in Keys : asked[k] # 0 => asked'[k] = asked[k]
  BY AskedOnce DEF ShownInv
<1>2. \A q \in Procs : Running(q) => job[q] \in Keys /\ Asker(q) = Request[job[q]]
  BY <1>0 DEF Serving, Asker
<1>3. ASSUME NEW q \in Procs, pc'[q] = pc[q], Held(q)' = Held(q), job'[q] = job[q],
             \A o \in Occurrences : Holds(q, "occurrences", o) => version'[o] = version[o]
      PROVE  Matched(q)'
  <2>1. Running(q) /\ Asker(q).op \in Versioned => Asker(q).occurrence \in Occurrences
    BY <1>2, VersionedChores
  <2> QED BY <1>0, <1>1, <1>2, <1>3, <2>1, StaysMatched
<1>4. ASSUME NEW q \in Procs, UNCHANGED <<script, pc, job, version>> PROVE Matched(q)'
  BY <1>3, <1>4 DEF Held
<1>5. ASSUME NEW p \in Procs, NEW k \in Keys, Deliver(p, k), NEW q \in Procs PROVE Matched(q)'
  <2>1. /\ Begin(p, Script(Request[k])) /\ job' = [job EXCEPT ![p] = k]
        /\ version' = version
    BY <1>5 DEF Deliver, vars
  <2>2. /\ Held(p)' = {}
        /\ \A z \in Procs : z # p => pc'[z] = pc[z] /\ Held(z)' = Held(z)
    BY <1>0, <2>1, BeginHolds
  <2>3. job'[p] = k /\ (q # p => job'[q] = job[q])
    BY <1>0, <2>1
  <2>4. CASE q # p
    BY <1>3, <2>1, <2>2, <2>3, <2>4
  <2>5. CASE q = p
    <3>1. Request[k].op \in Versioned => asked'[k] # 0
      <4>1. \/ asked[k] # 0 /\ asked' = asked
            \/ asked' = [asked EXCEPT ![k] = Shown(Request[k])]
        BY <1>5 DEF Deliver
      <4>2. Request[k].op \in Versioned => Shown(Request[k]) # 0
        BY VersionedChores DEF Shown, ShownInv
      <4> QED BY <1>0, <4>1, <4>2
    <3>2. Asker(p)' = Request[k]
      BY <2>3 DEF Asker
    <3>3. \A table, id : ~ Holds(p, table, id)'
      BY <2>2 DEF Holds
    <3> QED BY <2>3, <2>5, <3>1, <3>2, <3>3 DEF Matched
  <2> QED BY <2>4, <2>5
<1>6. ASSUME NEW p \in Procs, Advance(p), NEW q \in Procs PROVE Matched(q)'
  <2>1. /\ Pass(p) /\ Check(p, Step(p))
        /\ job' = job /\ version' = version /\ asked' = asked
    BY <1>6 DEF Advance, vars, requestVars
  <2>2. /\ pc'[p] = pc[p] + 1 /\ Held(p)' = Held(p) \cup {Step(p)}
        /\ \A z \in Procs : z # p => pc'[z] = pc[z] /\ Held(z)' = Held(z)
    BY <1>0, <2>1, PassHolds
  <2>3. CASE q # p
    BY <1>3, <2>1, <2>2, <2>3
  <2>4. CASE q = p
    <3>1. Running(p)
      BY <2>1 DEF Pass, Waiting, Running
    <3>2. PICK r, k : r = Asker(p) /\ k = job[p]
      OBVIOUS
    <3>3. Asker(p)' = r /\ job'[p] = k
      BY <2>1, <3>2 DEF Asker
    <3>4. r.op \in Versioned =>
            /\ asked[k] # 0
            /\ Holds(p, "occurrences", r.occurrence) => VersionMatches(r, k)
      BY <1>0, <3>1, <3>2 DEF Matched
    <3>5. Take("occurrences", r.occurrence, "update").table = "occurrences"
      BY DEF Take
    <3>6. Holds(p, "occurrences", r.occurrence)' =>
            \/ Holds(p, "occurrences", r.occurrence)
            \/ Step(p).table = "occurrences"
      BY <2>2, <3>5 DEF Holds
    <3>7. Step(p).table = "occurrences" => VersionMatches(r, k)
      BY <2>1, <3>2 DEF Check
    <3>8. VersionMatches(r, k) => VersionMatches(r, k)'
      BY <2>1 DEF VersionMatches
    <3> QED BY <2>1, <2>4, <3>3, <3>4, <3>6, <3>7, <3>8 DEF Matched
  <2> QED BY <2>3, <2>4
<1>7. ASSUME NEW p \in Procs, Commit(p) \/ GiveUp(p), NEW q \in Procs PROVE Matched(q)'
  <2>1. End(p) /\ job' = [job EXCEPT ![p] = NoKey]
    BY <1>7 DEF Commit, GiveUp, Stop
  <2>2. /\ pc'[p] = 0
        /\ \A z \in Procs : z # p => pc'[z] = pc[z] /\ Held(z)' = Held(z)
    BY <1>0, <2>1, EndHolds
  <2>3. CASE q = p
    BY <2>2, <2>3 DEF Matched, Running
  <2>4. CASE q # p
    <3>1. job'[q] = job[q]
      BY <1>0, <2>1, <2>4
    <3>2. \A o \in Occurrences : Holds(q, "occurrences", o) => version'[o] = version[o]
      <4>1. CASE GiveUp(p)
        BY <4>1 DEF GiveUp, vars
      <4>2. CASE Commit(p)
        BY <2>4, <4>2, CommitSparesOthers DEF SameOccurrence
      <4> QED BY <1>7, <4>1, <4>2
    <3> QED BY <1>3, <2>2, <2>4, <3>1, <3>2
  <2> QED BY <2>3, <2>4
<1>8. ASSUME Elsewhere PROVE UNCHANGED <<script, pc, job, version>>
  BY <1>8 DEF Elsewhere, lockVars, Reschedule, Reprice, occurrenceVars
<1>9. ASSUME NEW s \in Switching, Demote(s) PROVE UNCHANGED <<script, pc, job, version>>
  BY <1>9 DEF Demote, lockVars, vars
<1>10. UNCHANGED txVars => UNCHANGED <<script, pc, job, version>>
  BY DEF txVars, lockVars, vars
<1> QED BY <1>4, <1>5, <1>6, <1>7, <1>8, <1>9, <1>10 DEF TxNext

LEMMA ShownInvStep ==
  ASSUME TxInv, ShownInv, [TxNext]_txVars
  PROVE  ShownInv'
BY AskedOnce, ShownForStep, MatchedStep DEF ShownInv

\* A child and a parent act on the occurrence that their page showed, however
\* many others act on it meanwhile: on another state, after other attempts or at
\* another price the version differs, and the request is refused.
THEOREM ActsAlwaysAsShown == TxSpec => ActsAsShown
<1>1. TxInv /\ ShownInv /\ [TxNext]_txVars => ShownInv'
  BY ShownInvStep
<1>2. TxInv /\ ShownInv /\ [TxNext]_txVars => [ActsOnShown]_txVars
  <2> SUFFICES ASSUME TxInv, ShownInv, NEW p \in Procs, Commit(p), Asker(p).op \in Versioned
               PROVE  Row(Asker(p).occurrence) = screen[job[p]]
    BY DEF ActsOnShown
  <2>1. PICK r : r = Asker(p)
    OBVIOUS
  <2>2. Running(p) /\ ~ Waiting(p)
    BY DEF Commit
  <2>3. job[p] \in Keys /\ r = Request[job[p]] /\ Holds(p, "occurrences", r.occurrence)
    BY <2>1, <2>2, ReadyToCommit DEF OccurrenceOps
  <2>4. asked[job[p]] # 0 /\ version[r.occurrence] = asked[job[p]]
    BY <2>1, <2>2, <2>3 DEF ShownInv, Matched, VersionMatches
  <2> QED BY <2>1, <2>3, <2>4 DEF ShownInv, ShownFor, Remembers
<1> QED BY <1>1, <1>2, ShownInvInit, TxInvariant, PTL DEF TxSpec, ActsAsShown
=============================================================================
