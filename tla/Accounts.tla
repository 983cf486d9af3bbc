------------------------------ MODULE Accounts ------------------------------
(***************************************************************************)
(* What the household's points promise, whatever handlers move them: an    *)
(* account per child, and items (a chore, a redemption, a correction) that *)
(* each credit or debit one account once.  An item that took effect may be *)
(* undone once, by the opposite amount, unless it was settled.  No account *)
(* is ever overdrawn.                                                      *)
(***************************************************************************)
EXTENDS Integers

CONSTANTS
  Children,
  NoChild,    \* the account of an item that did nothing yet
  Items,
  Amounts     \* integers: what an item may move

VARIABLES
  funds,    \* points each child may spend
  item      \* what each item did: its status, account and amount

Idle == [status |-> "idle", child |-> NoChild, amount |-> 0]

Init ==
  /\ funds = [c \in Children |-> 0]
  /\ item = [i \in Items |-> Idle]

Apply(i, c, amount) ==
  /\ item[i] = Idle
  /\ funds[c] + amount >= 0
  /\ funds' = [funds EXCEPT ![c] = @ + amount]
  /\ item' = [item EXCEPT ![i] = [status |-> "applied", child |-> c, amount |-> amount]]

Undo(i) ==
  /\ item[i].status = "applied"
  /\ funds[item[i].child] >= item[i].amount
  /\ funds' = [funds EXCEPT ![item[i].child] = @ - item[i].amount]
  /\ item' = [item EXCEPT ![i].status = "undone"]

Settle(i) ==
  /\ item[i].status = "applied"
  /\ item' = [item EXCEPT ![i].status = "settled"]
  /\ UNCHANGED funds

Next ==
  \E i \in Items :
    \/ \E c \in Children, amount \in Amounts : Apply(i, c, amount)
    \/ Undo(i)
    \/ Settle(i)

Spec == Init /\ [][Next]_<<funds, item>>
=============================================================================
