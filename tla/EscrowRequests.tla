--------------------------- MODULE EscrowRequests ---------------------------
(***************************************************************************)
(* What the payments service promises to its callers: a request takes      *)
(* effect at most once, in one atomic step between the call and the        *)
(* answer, and the effect is the one it asked for.  "ok" means that it     *)
(* did, "refused" that it did not, and that nothing could be released or   *)
(* transferred; "failed" tells nothing, for the answer of a request that   *)
(* took effect may be lost.                                                *)
(*                                                                         *)
(* When a hold is granted or refused is left open: that the funds suffice  *)
(* is decided on reads that are not current (see Payments).                *)
(***************************************************************************)
EXTENDS Escrow

VARIABLES op,      \* what each request under way asks for, else "none"
          arg,     \* its body
          answer   \* its answer, "none" until there is one

calls == <<op, arg, answer>>

NoArg == [wallet |-> None, amount |-> 0, hold |-> None]

\* A request is named like the hold it would make.
RequestsInit ==
  /\ Init
  /\ op = [r \in HoldIds |-> "none"]
  /\ arg = [r \in HoldIds |-> NoArg]
  /\ answer = [r \in HoldIds |-> "none"]

Ask(r, what, body) ==
  /\ op[r] = "none" /\ answer[r] = "none"
  /\ op' = [op EXCEPT ![r] = what]
  /\ arg' = [arg EXCEPT ![r] = body]
  /\ UNCHANGED <<vars, answer>>

Reply(r, a) ==
  /\ op[r] # "none"
  /\ op' = [op EXCEPT ![r] = "none"]
  /\ arg' = [arg EXCEPT ![r] = NoArg]
  /\ answer' = [answer EXCEPT ![r] = a]

\* What is asked for is done, whether or not the caller gets to know.
Serve(r) ==
  /\ \/ op[r] = "hold" /\ arg[r].wallet \in Wallets /\ Place(r, arg[r].wallet, arg[r].amount)
     \/ op[r] = "release" /\ Release(arg[r].hold)
     \/ op[r] = "transfer" /\ arg[r].wallet \in Wallets /\ Settle(arg[r].hold, arg[r].wallet)
  /\ \E a \in {"ok", "failed"} : Reply(r, a)

\* Nothing to release or to transfer, or nobody to transfer it to.
Pointless(r) ==
  LET h == arg[r].hold IN
  \/ holds[h].status # "active"
  \/ op[r] = "transfer" /\ arg[r].wallet \in {None, holds[h].wallet}

Refuse(r) ==
  /\ op[r] \in {"release", "transfer"} => Pointless(r)
  /\ Reply(r, "refused")
  /\ UNCHANGED vars

GiveUp(r) == Reply(r, "failed") /\ UNCHANGED vars

Bodies(what) ==
  CASE what = "hold"     -> [wallet : Wallets \cup {None}, amount : Amounts, hold : {None}]
    [] what = "release"  -> [wallet : {None}, amount : {0}, hold : HoldIds]
    [] what = "transfer" -> [wallet : Wallets \cup {None}, amount : {0}, hold : HoldIds]

RequestsNext ==
  \E r \in HoldIds :
    \/ \E what \in {"hold", "release", "transfer"} : \E body \in Bodies(what) : Ask(r, what, body)
    \/ Serve(r) \/ Refuse(r) \/ GiveUp(r)

RequestsSpec == RequestsInit /\ [][RequestsNext]_<<vars, calls>>
=============================================================================
