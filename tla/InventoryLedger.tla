---------------------------- MODULE InventoryLedger ----------------------------
(***************************************************************************)
(* What the users of inventories may rely on, however many create, edit    *)
(* and delete them at once.  A call asks for one thing of one inventory:   *)
(* the only one of that name, or a new one where there is none.  Then it   *)
(* happens, once and as a whole, or it does not happen at all: a delivery  *)
(* of all its copies (of none, to create an inventory), a withdrawal of at *)
(* most its copies, or the end of the inventory.  Nobody withdraws from    *)
(* the collection, and nobody else's copies change.                        *)
(*                                                                         *)
(* A call that is made again is another request.  Two may ask for a new    *)
(* inventory of one name, and each get one.                                *)
(***************************************************************************)
EXTENDS Integers

CONSTANTS
  Names, Collection, Printings, Sessions,
  Inventories,             \* the keys of inventories
  Deliveries, Withdrawals  \* the copies of each printing that a call may ask for

VARIABLES
  name,    \* of each key the name of its inventory, "none" before it and "gone" after it
  copies,  \* of each key the copies of each printing
  request  \* of each session what it has asked for

vars == <<name, copies, request>>

Nothing == [p \in Printings |-> 0]
NoRequest == [kind |-> "none", name |-> "none", row |-> 0, wanted |-> Nothing]

Init ==
  /\ name = [r \in Inventories |-> "none"]
  /\ copies = [r \in Inventories |-> Nothing]
  /\ request = [s \in Sessions |-> NoRequest]

Ask(s, kind, n, r, wanted) ==
  /\ request[s] = NoRequest
  /\ \A q \in Inventories : name[q] = n => q = r
  /\ \/ name[r] = n
     \/ kind = "deliver" /\ name[r] = "none" /\ \A t \in Sessions : request[t].row # r
  /\ request' = [request EXCEPT ![s] = [kind |-> kind, name |-> n, row |-> r, wanted |-> wanted]]
  /\ UNCHANGED <<name, copies>>

Answered(s, kind) == request[s].kind = kind /\ request' = [request EXCEPT ![s] = NoRequest]

Deliver(s) ==
  LET q == request[s]
  IN /\ Answered(s, "deliver")
     /\ name[q.row] \in {"none", q.name}
     /\ name' = [name EXCEPT ![q.row] = q.name]
     /\ copies' = [copies EXCEPT ![q.row] = [p \in Printings |-> @[p] + q.wanted[p]]]

Least(c, q) == IF c > q THEN c - q ELSE 0

Withdraw(s) ==
  LET q == request[s]
  IN /\ Answered(s, "withdraw")
     /\ name[q.row] = q.name /\ q.name # Collection
     /\ \E Found \in SUBSET Printings :
          copies' = [copies EXCEPT ![q.row] = [p \in Printings |-> IF p \in Found THEN Least(@[p], q.wanted[p])
                                                                    ELSE @[p]]]
     /\ UNCHANGED name

Drop(s) ==
  LET q == request[s]
  IN /\ Answered(s, "drop")
     /\ name[q.row] = q.name
     /\ name' = [name EXCEPT ![q.row] = "gone"]
     /\ copies' = [copies EXCEPT ![q.row] = Nothing]

Abandon(s) ==
  /\ request[s] # NoRequest /\ request' = [request EXCEPT ![s] = NoRequest]
  /\ UNCHANGED <<name, copies>>

Next ==
  \E s \in Sessions :
    \/ \E n \in Names, r \in Inventories :
         \/ \E wanted \in Deliveries : Ask(s, "deliver", n, r, wanted)
         \/ \E wanted \in Withdrawals : Ask(s, "withdraw", n, r, wanted)
         \/ Ask(s, "drop", n, r, Nothing)
    \/ Deliver(s) \/ Withdraw(s) \/ Drop(s) \/ Abandon(s)

Spec == Init /\ [][Next]_vars
================================================================================
