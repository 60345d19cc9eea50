------------------------------- MODULE Escrow -------------------------------
(***************************************************************************)
(* What the payments service promises about money, with no transactions,   *)
(* locks or requests: wallets have balances, a hold sets an amount aside,  *)
(* and a hold is settled once, in one atomic step, by being released (the  *)
(* money stays) or transferred (the money moves).  Payments is the         *)
(* detailed specification that implements it.                              *)
(***************************************************************************)
EXTENDS Integers

CONSTANTS Wallets,         \* wallet ids
          HoldIds,         \* hold ids
          Amounts,         \* amounts a hold may have
          OpeningBalance,  \* the balances the wallets are seeded with
          None             \* "no such row"

\* The constants are those of Payments, which states what is assumed of them.

VARIABLES balance,  \* wallets.balance
          holds     \* the holds table, NoHold where the id is unused

vars == <<balance, holds>>

HoldStatus == {"active", "released", "transferred"}

\* A row of the holds table; NoHold stands for a row that does not exist.
NoHold == [status |-> "none", wallet |-> None, amount |-> 0]
Hold   == [status : HoldStatus, wallet : Wallets, amount : Amounts]

Init ==
  /\ balance = OpeningBalance
  /\ holds = [h \in HoldIds |-> NoHold]

\* Money is set aside; no balance changes.
Place(h, w, a) ==
  /\ holds[h] = NoHold
  /\ holds' = [holds EXCEPT ![h] = [status |-> "active", wallet |-> w, amount |-> a]]
  /\ UNCHANGED balance

\* The money set aside is the owner's again; no balance changes.
Release(h) ==
  /\ holds[h].status = "active"
  /\ holds' = [holds EXCEPT ![h].status = "released"]
  /\ UNCHANGED balance

\* The money set aside moves, all of it, from the owner to another wallet.
Settle(h, to) ==
  /\ holds[h].status = "active"
  /\ to # holds[h].wallet
  /\ balance[holds[h].wallet] >= holds[h].amount
  /\ holds' = [holds EXCEPT ![h].status = "transferred"]
  /\ balance' = [balance EXCEPT ![holds[h].wallet] = @ - holds[h].amount,
                                ![to] = @ + holds[h].amount]

Next ==
  \E h \in HoldIds :
    \/ \E w \in Wallets, a \in Amounts : Place(h, w, a)
    \/ Release(h)
    \/ \E to \in Wallets : Settle(h, to)

Spec == Init /\ [][Next]_vars
=============================================================================
