----------------------------- MODULE SessionMC -----------------------------
(***************************************************************************)
(* Instances of Session for TLC.                                           *)
(***************************************************************************)
EXTENDS Session

CONSTANTS A,     \* a page
          Forms  \* the calls that may be a login

\* All calls run in page A; any other page is loaded anew from time to time, which is
\* enough for it to refresh the cookies they share at any moment.
AllInA == [c \in Calls |-> A]

FormsFairSpec ==
  Init /\ [][Next /\ (\A c \in Calls \ Forms : body'[c] = "api")]_vars /\ Fairness
=============================================================================
