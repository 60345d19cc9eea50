---------------------------- MODULE LedgerProofs ----------------------------
(***************************************************************************)
(* The sums of Payments, for any set of requests, wallets and amounts: a   *)
(* balance is what the transactions table adds up to, and a wallet is      *)
(* overdrawn by a hold whose snapshot missed another hold only.            *)
(*                                                                         *)
(* A sum is computed by removing the elements of a set in an order nobody  *)
(* knows.  Induction over the subsets of a finite set, in the form "among  *)
(* the subsets that are wrong one is minimal", shows that it has a value   *)
(* and that the order does not matter.                                     *)
(***************************************************************************)
EXTENDS PaymentsProofs, FiniteSetTheorems

\* The element that a fold removes first.
Pick(s) == CHOOSE x \in s : TRUE

\* g gives the sum of the values v over each subset of S.
Sums(g, S, v) ==
  g = [s \in SUBSET S |-> IF s = {} THEN 0 ELSE v[Pick(s)] + g[s \ {Pick(s)}]]

-----------------------------------------------------------------------------
(* Sums over a finite set. *)

LEMMA PickIn ==
  ASSUME NEW s, s # {}
  PROVE  Pick(s) \in s
  BY DEF Pick

LEMMA MinimalSet ==
  ASSUME NEW S, IsFiniteSet(S), NEW Bad \in SUBSET (SUBSET S), Bad # {}
  PROVE  \E s \in Bad : \A t \in Bad : t \subseteq s => t = s
  <1>1. IsWellFoundedOn(StrictSubsetOrdering(S), SUBSET S)
    BY FS_StrictSubsetOrderingWellFounded, FS_FiniteSubsetsOfFinite
  <1>2. \E s \in Bad : \A t \in Bad : ~ (<<t, s>> \in StrictSubsetOrdering(S))
    BY <1>1, WFMin
  <1>3. PICK s \in Bad : \A t \in Bad : ~ (<<t, s>> \in StrictSubsetOrdering(S))
    BY <1>2
  <1>4. ASSUME NEW t \in Bad, t \subseteq s PROVE t = s
    BY <1>3, <1>4 DEF StrictSubsetOrdering
  <1> QED
    BY <1>4

LEMMA SumsUnfold ==
  ASSUME NEW g, NEW S, NEW v, Sums(g, S, v)
  PROVE  /\ g[{}] = 0
         /\ \A s \in SUBSET S : s # {} => g[s] = v[Pick(s)] + g[s \ {Pick(s)}]
  <1> DEFINE body(s) == IF s = {} THEN 0 ELSE v[Pick(s)] + g[s \ {Pick(s)}]
  <1>1. g = [s \in SUBSET S |-> body(s)]
    BY DEF Sums
  <1> HIDE DEF body
  <1>2. \A s \in SUBSET S : g[s] = body(s)
    BY <1>1
  <1> QED
    BY <1>2 DEF body

LEMMA SumsAreIntegers ==
  ASSUME NEW S, IsFiniteSet(S), NEW v, \A x \in S : v[x] \in Int, NEW g, Sums(g, S, v)
  PROVE  \A s \in SUBSET S : g[s] \in Int
  <1>0. g[{}] = 0 /\ \A s \in SUBSET S : s # {} => g[s] = v[Pick(s)] + g[s \ {Pick(s)}]
    BY SumsUnfold
  <1> DEFINE Bad == {s \in SUBSET S : g[s] \notin Int}
  <1> SUFFICES ASSUME Bad # {} PROVE FALSE
    OBVIOUS
  <1>1. PICK s \in Bad : \A t \in Bad : t \subseteq s => t = s
    <2>1. Bad \in SUBSET (SUBSET S)
      OBVIOUS
    <2> HIDE DEF Bad
    <2> QED
      BY <2>1, MinimalSet
  <1>2. s \in SUBSET S /\ g[s] \notin Int
    OBVIOUS
  <1>3. s # {} /\ g[s] = v[Pick(s)] + g[s \ {Pick(s)}]
    <2>1. s = {} => g[s] = g[{}]
      OBVIOUS
    <2>2. 0 \in Int
      OBVIOUS
    <2>3. s # {}
      BY <1>0, <1>2, <2>1, <2>2
    <2> QED
      BY <1>0, <1>2, <2>3
  <1>4. Pick(s) \in s
    BY <1>3, PickIn
  <1>5. s \ {Pick(s)} \notin Bad
    BY <1>1, <1>4
  <1>6. g[s \ {Pick(s)}] \in Int /\ v[Pick(s)] \in Int
    BY <1>2, <1>4, <1>5
  <1>7. g[s] \in Int
    BY <1>3, <1>6
  <1> QED
    BY <1>2, <1>7

\* Any element may be the first that is removed.
LEMMA SumsRemove ==
  ASSUME NEW S, IsFiniteSet(S), NEW v, \A x \in S : v[x] \in Int, NEW g, Sums(g, S, v),
         NEW r \in SUBSET S, NEW y \in r
  PROVE  g[r] = v[y] + g[r \ {y}]
  <1> DEFINE Bad == {s \in SUBSET S : \E x \in s : g[s] # v[x] + g[s \ {x}]}
  <1> SUFFICES ASSUME Bad # {} PROVE FALSE
    OBVIOUS
  <1>1. PICK s \in Bad : \A t \in Bad : t \subseteq s => t = s
    <2>1. Bad \in SUBSET (SUBSET S)
      OBVIOUS
    <2> HIDE DEF Bad
    <2> QED
      BY <2>1, MinimalSet
  <1>2. s \in SUBSET S
    OBVIOUS
  <1>3. PICK x \in s : g[s] # v[x] + g[s \ {x}]
    OBVIOUS
  <1> DEFINE p == Pick(s)
  <1>4. s # {} /\ g[s] = v[p] + g[s \ {p}]
    BY <1>2, <1>3, SumsUnfold
  <1>5. p \in s /\ p # x
    BY <1>3, <1>4, PickIn
  <1> HIDE DEF p
  <1>6. s \ {p} \notin Bad /\ s \ {p} \in SUBSET S /\ x \in s \ {p}
    BY <1>1, <1>2, <1>5
  <1>7. g[s \ {p}] = v[x] + g[(s \ {p}) \ {x}]
    BY <1>6
  <1>8. s \ {x} \notin Bad /\ s \ {x} \in SUBSET S /\ p \in s \ {x}
    BY <1>1, <1>2, <1>5
  <1>9. g[s \ {x}] = v[p] + g[(s \ {x}) \ {p}]
    BY <1>8
  <1>10. (s \ {p}) \ {x} = (s \ {x}) \ {p} /\ (s \ {x}) \ {p} \in SUBSET S
    BY <1>2
  <1>11. v[p] \in Int /\ v[x] \in Int /\ g[(s \ {x}) \ {p}] \in Int
    BY <1>2, <1>5, <1>10, SumsAreIntegers
  <1> HIDE DEF Bad
  <1>12. g[s] = v[p] + (v[x] + g[(s \ {x}) \ {p}])
    BY <1>4, <1>7, <1>10
  <1>13. v[x] + g[s \ {x}] = v[x] + (v[p] + g[(s \ {x}) \ {p}])
    BY <1>9
  <1>14. \A a, b, c \in Int : a + (b + c) = b + (a + c)
    OBVIOUS
  <1> QED
    BY <1>3, <1>11, <1>12, <1>13, <1>14

\* The sum over a set depends on the values of its elements only.
LEMMA SumsAgree ==
  ASSUME NEW S, IsFiniteSet(S), NEW v, NEW g, Sums(g, S, v),
         NEW T, NEW u, NEW h, Sums(h, T, u),
         NEW r \in SUBSET S, r \subseteq T, \A x \in r : v[x] = u[x]
  PROVE  g[r] = h[r]
  <1> DEFINE Bad == {s \in SUBSET S : s \subseteq r /\ g[s] # h[s]}
  <1> SUFFICES ASSUME Bad # {} PROVE FALSE
    OBVIOUS
  <1>1. PICK s \in Bad : \A t \in Bad : t \subseteq s => t = s
    <2>1. Bad \in SUBSET (SUBSET S)
      OBVIOUS
    <2> HIDE DEF Bad
    <2> QED
      BY <2>1, MinimalSet
  <1>2. s \in SUBSET S /\ s \in SUBSET T /\ s \subseteq r /\ g[s] # h[s]
    OBVIOUS
  <1>3. g[{}] = 0 /\ (s # {} => g[s] = v[Pick(s)] + g[s \ {Pick(s)}])
    BY <1>2, SumsUnfold
  <1>4. h[{}] = 0 /\ (s # {} => h[s] = u[Pick(s)] + h[s \ {Pick(s)}])
    BY <1>2, SumsUnfold
  <1>5. s # {}
    BY <1>2, <1>3, <1>4
  <1>6. Pick(s) \in s
    BY <1>5, PickIn
  <1>7. s \ {Pick(s)} \notin Bad
    BY <1>1, <1>6
  <1>8. g[s \ {Pick(s)}] = h[s \ {Pick(s)}] /\ v[Pick(s)] = u[Pick(s)]
    BY <1>2, <1>6, <1>7
  <1> QED
    BY <1>2, <1>3, <1>4, <1>5, <1>8

\* A fold is the function g whose value it is.
LEMMA SumsExist ==
  ASSUME NEW S, IsFiniteSet(S), NEW v
  PROVE  \E g : Sums(g, S, v)
  <1> DEFINE Bad == {T \in SUBSET S : ~ \E g : Sums(g, T, v)}
  <1> SUFFICES ASSUME Bad # {} PROVE FALSE
    OBVIOUS
  <1>1. PICK T \in Bad : \A t \in Bad : t \subseteq T => t = T
    <2>1. Bad \in SUBSET (SUBSET S)
      OBVIOUS
    <2> HIDE DEF Bad
    <2> QED
      BY <2>1, MinimalSet
  <1>2. T \in SUBSET S /\ ~ \E g : Sums(g, T, v)
    OBVIOUS
  <1>3. \A t \in SUBSET T : t # T => \E g : Sums(g, t, v)
    BY <1>1
  <1> HIDE DEF Bad
  <1> DEFINE of(t)  == CHOOSE g : Sums(g, t, v)
             val(t) == of(t)[t]
             all == [s \in SUBSET T |-> IF s = {} THEN 0 ELSE v[Pick(s)] + val(s \ {Pick(s)})]
  <1>4. \A t \in SUBSET T : t # T => Sums(of(t), t, v)
    BY <1>3
  <1> HIDE DEF of
  <1>5. ASSUME NEW t \in SUBSET T, t # T PROVE all[t] = val(t)
    <2>1. Sums(of(t), t, v)
      BY <1>4, <1>5
    <2>2. CASE t = {}
      <3>1. of(t)[{}] = 0
        BY <2>1, SumsUnfold
      <3> QED
        BY <2>2, <3>1
    <2>3. CASE t # {}
      <3> DEFINE u == t \ {Pick(t)}
      <3>1. Pick(t) \in t
        BY <2>3, PickIn
      <3>2. u \in SUBSET t /\ u \in SUBSET T /\ u # T
        BY <3>1
      <3>3. Sums(of(u), u, v)
        BY <3>2, <1>4
      <3>4. t \in SUBSET t
        OBVIOUS
      <3>5. of(t)[t] = v[Pick(t)] + of(t)[u]
        BY <2>1, <2>3, <3>4, SumsUnfold
      <3>6. IsFiniteSet(t)
        BY <1>2, FS_Subset
      <3>7. of(t)[u] = of(u)[u]
        <4> HIDE DEF u
        <4> QED
          BY <2>1, <3>2, <3>3, <3>6, SumsAgree
      <3>8. all[t] = v[Pick(t)] + val(u)
        BY <2>3
      <3> QED
        BY <3>5, <3>7, <3>8
    <2> QED
      BY <2>2, <2>3
  <1>6. ASSUME NEW s \in SUBSET T, s # {} PROVE all[s \ {Pick(s)}] = val(s \ {Pick(s)})
    <2>1. Pick(s) \in s
      BY <1>6, PickIn
    <2> HIDE DEF all, val
    <2> QED
      BY <2>1, <1>5
  <1>7. Sums(all, T, v)
    <2>1. \A s \in SUBSET T :
             (IF s = {} THEN 0 ELSE v[Pick(s)] + val(s \ {Pick(s)}))
           = (IF s = {} THEN 0 ELSE v[Pick(s)] + all[s \ {Pick(s)}])
      <3> HIDE DEF all, val
      <3> QED
        BY <1>6
    <2>2. all = [s \in SUBSET T |-> IF s = {} THEN 0 ELSE v[Pick(s)] + val(s \ {Pick(s)})]
      OBVIOUS
    <2> HIDE DEF all, val
    <2> QED
      BY <2>1, <2>2 DEF Sums
  <1> QED
    BY <1>2, <1>7

\* The sum over a set, taken out of the fold: the same for all that agree on the values.
Sum(v, S) == (CHOOSE g : Sums(g, S, v))[S]

LEMMA SumIs ==
  ASSUME NEW S, IsFiniteSet(S), NEW v, NEW g, Sums(g, S, v)
  PROVE  Sum(v, S) = g[S]
  <1> DEFINE h == CHOOSE f : Sums(f, S, v)
  <1>1. Sums(h, S, v)
    OBVIOUS
  <1>2. S \in SUBSET S
    OBVIOUS
  <1> HIDE DEF h
  <1>3. h[S] = g[S]
    BY <1>1, <1>2, SumsAgree
  <1> QED
    BY <1>3 DEF Sum, h

LEMMA SumEmpty ==
  ASSUME NEW v
  PROVE  Sum(v, {}) = 0
  <1>1. IsFiniteSet({})
    BY FS_EmptySet
  <1>2. PICK g : Sums(g, {}, v)
    BY <1>1, SumsExist
  <1>3. g[{}] = 0
    BY <1>2, SumsUnfold
  <1> QED
    BY <1>1, <1>2, <1>3, SumIs

LEMMA SumInt ==
  ASSUME NEW S, IsFiniteSet(S), NEW v, \A x \in S : v[x] \in Int
  PROVE  Sum(v, S) \in Int
  <1>1. PICK g : Sums(g, S, v)
    BY SumsExist
  <1>2. S \in SUBSET S
    OBVIOUS
  <1>3. g[S] \in Int
    BY <1>1, <1>2, SumsAreIntegers
  <1> QED
    BY <1>1, <1>3, SumIs

LEMMA SumSame ==
  ASSUME NEW S, IsFiniteSet(S), NEW v, NEW u, \A x \in S : v[x] = u[x]
  PROVE  Sum(v, S) = Sum(u, S)
  <1>1. PICK g : Sums(g, S, v)
    BY SumsExist
  <1>2. PICK h : Sums(h, S, u)
    BY SumsExist
  <1>3. S \in SUBSET S
    OBVIOUS
  <1>4. g[S] = h[S]
    BY <1>1, <1>2, <1>3, SumsAgree
  <1> QED
    BY <1>1, <1>2, <1>4, SumIs

LEMMA SumAdd ==
  ASSUME NEW S, IsFiniteSet(S), NEW y, y \notin S, NEW v, \A x \in S \cup {y} : v[x] \in Int
  PROVE  Sum(v, S \cup {y}) = v[y] + Sum(v, S)
  <1> DEFINE T == S \cup {y}
  <1>1. IsFiniteSet(T)
    BY FS_AddElement
  <1>2. T \in SUBSET T /\ y \in T /\ T \ {y} = S /\ S \in SUBSET T /\ S \in SUBSET S
    OBVIOUS
  <1>3. \A x \in T : v[x] \in Int
    OBVIOUS
  <1> HIDE DEF T
  <1>4. PICK g : Sums(g, T, v)
    BY <1>1, SumsExist
  <1>5. g[T] = v[y] + g[T \ {y}]
    BY <1>1, <1>2, <1>3, <1>4, SumsRemove
  <1>6. PICK h : Sums(h, S, v)
    BY SumsExist
  <1>7. h[S] = g[S]
    BY <1>2, <1>4, <1>6, SumsAgree
  <1>8. Sum(v, T) = g[T]
    BY <1>1, <1>4, SumIs
  <1>9. Sum(v, S) = h[S]
    BY <1>6, SumIs
  <1> QED
    BY <1>2, <1>5, <1>7, <1>8, <1>9 DEF T

\* More elements of no negative value add up to no less.
LEMMA SumGrows ==
  ASSUME NEW S, IsFiniteSet(S), NEW v, \A x \in S : v[x] \in Nat, NEW R \in SUBSET S
  PROVE  Sum(v, R) <= Sum(v, S)
  <1> DEFINE Bad == {s \in SUBSET S : R \subseteq s /\ ~ (Sum(v, R) <= Sum(v, s))}
  <1> SUFFICES ASSUME Bad # {} PROVE FALSE
    OBVIOUS
  <1>1. PICK s \in Bad : \A t \in Bad : t \subseteq s => t = s
    <2>1. Bad \in SUBSET (SUBSET S)
      OBVIOUS
    <2> HIDE DEF Bad
    <2> QED
      BY <2>1, MinimalSet
  <1>2. s \in SUBSET S /\ R \subseteq s /\ ~ (Sum(v, R) <= Sum(v, s))
    OBVIOUS
  <1>3. IsFiniteSet(R) /\ IsFiniteSet(s)
    BY <1>2, FS_Subset
  <1>4. \A x \in S : v[x] \in Int
    OBVIOUS
  <1>5. Sum(v, R) \in Int
    BY <1>3, <1>4, SumInt
  <1>6. R # s
    BY <1>2, <1>5
  <1>7. PICK y \in s : y \notin R
    BY <1>2, <1>6
  <1> DEFINE t == s \ {y}
  <1>8. t \notin Bad /\ t \in SUBSET S /\ R \subseteq t /\ t \cup {y} = s /\ y \notin t
    BY <1>1, <1>2, <1>7
  <1>9. Sum(v, R) <= Sum(v, t)
    BY <1>8
  <1> HIDE DEF t, Bad
  <1>10. IsFiniteSet(t)
    BY <1>8, FS_Subset
  <1>11. Sum(v, t) \in Int
    BY <1>4, <1>8, <1>10, SumInt
  <1>12. \A x \in t \cup {y} : v[x] \in Int
    BY <1>2, <1>4, <1>8
  <1>13. Sum(v, t \cup {y}) = v[y] + Sum(v, t)
    BY <1>8, <1>10, <1>12, SumAdd
  <1>14. v[y] \in Nat
    BY <1>2, <1>7
  <1>15. Sum(v, R) <= v[y] + Sum(v, t)
    BY <1>5, <1>9, <1>11, <1>14
  <1> QED
    BY <1>2, <1>8, <1>13, <1>15

-----------------------------------------------------------------------------
(* The transactions table. *)

Amount(rows)    == [row \in rows |-> row.amount]
AmountsOf(rows) == MapThenSumSet(LAMBDA row : row.amount, rows)

LEMMA AmountsAreSum ==
  ASSUME NEW S, IsFiniteSet(S)
  PROVE  AmountsOf(S) = Sum(Amount(S), S)
  <1> DEFINE body(g, s) == IF s = {} THEN 0 ELSE Pick(s).amount + g[s \ {Pick(s)}]
             f == CHOOSE g : g = [s \in SUBSET S |-> body(g, s)]
  <1>1. AmountsOf(S) = f[S]
    BY DEF AmountsOf, MapThenSumSet, MapThenFoldSet, Pick
  <1>2. ASSUME NEW g
        PROVE  (g = [s \in SUBSET S |-> body(g, s)]) <=> Sums(g, S, Amount(S))
    <2>1. \A s \in SUBSET S : s # {} => Amount(S)[Pick(s)] = Pick(s).amount
      BY PickIn DEF Amount
    <2>2. \A s \in SUBSET S :
            body(g, s) = IF s = {} THEN 0 ELSE Amount(S)[Pick(s)] + g[s \ {Pick(s)}]
      BY <2>1
    <2> HIDE DEF body
    <2>3. [s \in SUBSET S |-> body(g, s)]
        = [s \in SUBSET S |-> IF s = {} THEN 0 ELSE Amount(S)[Pick(s)] + g[s \ {Pick(s)}]]
      BY <2>2
    <2> QED
      BY <2>3 DEF Sums
  <1>3. \E g : g = [s \in SUBSET S |-> body(g, s)]
    BY <1>2, SumsExist
  <1>4. f = [s \in SUBSET S |-> body(f, s)]
    BY <1>3
  <1>5. Sums(f, S, Amount(S))
    BY <1>2, <1>4
  <1> HIDE DEF f
  <1> QED
    BY <1>1, <1>5, SumIs

LEMMA AmountsAdd ==
  ASSUME NEW S, IsFiniteSet(S), NEW row, row \notin S, \A r \in S \cup {row} : r.amount \in Int
  PROVE  /\ AmountsOf(S \cup {row}) = row.amount + AmountsOf(S)
         /\ AmountsOf(S) \in Int
  <1> DEFINE T == S \cup {row}
  <1>1. IsFiniteSet(T)
    BY FS_AddElement
  <1>2. \A r \in T : Amount(T)[r] = r.amount /\ r.amount \in Int
    BY DEF Amount
  <1>3. \A r \in S : Amount(S)[r] = r.amount /\ r.amount \in Int
    BY DEF Amount
  <1>4. Sum(Amount(T), S \cup {row}) = Amount(T)[row] + Sum(Amount(T), S)
    BY <1>2, SumAdd
  <1>5. Sum(Amount(T), S) = Sum(Amount(S), S)
    BY <1>2, <1>3, SumSame
  <1>6. Sum(Amount(S), S) \in Int
    BY <1>3, SumInt
  <1>7. AmountsOf(T) = Sum(Amount(T), T)
    BY <1>1, AmountsAreSum
  <1>8. AmountsOf(S) = Sum(Amount(S), S)
    BY AmountsAreSum
  <1>9. Amount(T)[row] = row.amount
    BY <1>2
  <1> QED
    BY <1>4, <1>5, <1>6, <1>7, <1>8, <1>9

\* The rows that move money in or out of w.
Moves(w) == {row \in ledger : row.wallet = w /\ row.type \in {"transfer_debit", "transfer_credit"}}

\* Who has written rows is done.
LedgerInv ==
  /\ IsFiniteSet(ledger)
  /\ \A row \in ledger : pc[row.by] \in Answers
  /\ BalanceIsLedger

Booked == \A w \in Wallets : balance[w] = OpeningBalance[w] + AmountsOf(Moves(w))

LEMMA BalanceIsBooked == BalanceIsLedger <=> Booked
  BY DEF BalanceIsLedger, Booked, AmountsOf, Moves

LEMMA BalanceStaysBooked == BalanceIsLedger' <=> Booked'
  BY BalanceIsBooked, PTL

LEMMA LedgerInit == Init => LedgerInv
  <1> SUFFICES ASSUME Init PROVE LedgerInv
    OBVIOUS
  <1>1. IsFiniteSet({}) /\ ledger = {}
    BY FS_EmptySet DEF Init
  <1>2. AmountsOf({}) = 0
    BY <1>1, AmountsAreSum, SumEmpty
  <1>3. \A w \in Wallets : balance[w] = OpeningBalance[w] /\ OpeningBalance[w] \in Nat /\ Moves(w) = {}
    BY <1>1, PaymentsAssumption DEF Init, Moves
  <1>4. \A w \in Wallets : balance[w] = OpeningBalance[w] + AmountsOf(Moves(w))
    BY <1>2, <1>3
  <1> QED
    BY <1>1, <1>4, BalanceIsBooked DEF LedgerInv, Booked

\* A step that moves no balance and adds no row but of another kind.
LEMMA LedgerStill ==
  ASSUME IInv, LedgerInv, NEW p \in Requests, Acts(p),
         UNCHANGED ledger \/ (pc'[p] \in Answers /\ \E row : ledger' = ledger \cup {row} /\ row.by = p
                                /\ row.type \notin {"transfer_debit", "transfer_credit"}),
         UNCHANGED balance, pc[p] \in Answers => pc'[p] \in Answers
  PROVE  LedgerInv'
  <1>1. \A row \in ledger' : pc'[row.by] \in Answers
    <2>1. \A row \in ledger : row.by \in Requests
      BY DEF IInv, TypeOK, LedgerRow
    <2>2. \A q \in Requests \ {p} : pc'[q] = pc[q]
      BY OthersStay DEF IInv
    <2>3. \A row \in ledger : pc[row.by] \in Answers
      BY DEF LedgerInv
    <2>4. \A row \in ledger : pc'[row.by] \in Answers
      BY <2>1, <2>2, <2>3
    <2> QED
      BY <2>4
  <1>2. IsFiniteSet(ledger')
    BY FS_AddElement DEF LedgerInv
  <1>3. \A w \in Wallets : Moves(w)' = Moves(w)
    BY DEF Moves
  <1>4. Booked'
    BY <1>3, BalanceIsBooked DEF LedgerInv, Booked
  <1> QED
    BY <1>1, <1>2, <1>4, BalanceStaysBooked DEF LedgerInv

LEMMA LedgerTransfers ==
  ASSUME IInv, LedgerInv, NEW p \in Requests, TransferCommit(p)
  PROVE  LedgerInv'
  <1> DEFINE h == arg[p].hold
             a == holds[h].amount
             from == holds[h].wallet
             to == arg[p].wallet
             debit == [by |-> p, type |-> "transfer_debit", wallet |-> from, hold |-> h, amount |-> -a]
             credit == [by |-> p, type |-> "transfer_credit", wallet |-> to, hold |-> h, amount |-> a]
  <1>1. PICK answer \in Answers : EndTx(p, answer)
    BY DEF TransferCommit, Commit, Answers
  <1>2. /\ pc'[p] \in Answers /\ pc[p] \notin Answers
        /\ \A q \in Requests \ {p} : pc'[q] = pc[q]
    BY <1>1, EndTxFrame DEF IInv, TransferCommit, Answers
  <1>3. /\ h \in Requests /\ from \in Wallets /\ to \in Wallets /\ from # to
        /\ a \in Amounts
    BY SettledRow DEF TransferCommit, Settling, InTransfer, IInv, LockInv, Validated, HoldOwned
  <1>4. a \in Int /\ -a \in Int
    BY <1>3, Constants
  <1>5. seen[p].balance = balance[from] /\ seen[p].recipient = balance[to]
    BY DEF TransferCommit, IInv, LockInv, TransferReadsCurrent
  <1>6. /\ balance' = [balance EXCEPT ![from] = balance[from] - a, ![to] = balance[to] + a]
        /\ ledger' = ledger \cup {debit, credit}
    BY <1>5 DEF TransferCommit, Record
  <1>7. /\ debit.by = p /\ debit.wallet = from /\ debit.amount = -a
        /\ debit.type = "transfer_debit"
        /\ credit.by = p /\ credit.wallet = to /\ credit.amount = a
        /\ credit.type = "transfer_credit"
    OBVIOUS
  <1>8. \A row \in ledger : row.by # p /\ row.by \in Requests /\ row.amount \in Int
    BY <1>2 DEF LedgerInv, IInv, TypeOK, LedgerRow
  <1> HIDE DEF debit, credit, from, to, h, a
  <1>9. \A row \in ledger' : pc'[row.by] \in Answers
    BY <1>2, <1>6, <1>7, <1>8 DEF LedgerInv
  <1>10. IsFiniteSet(ledger')
    <2>1. IsFiniteSet(ledger \cup {debit})
      BY FS_AddElement DEF LedgerInv
    <2>2. IsFiniteSet((ledger \cup {debit}) \cup {credit})
      BY <2>1, FS_AddElement
    <2>3. (ledger \cup {debit}) \cup {credit} = ledger'
      BY <1>6
    <2> QED
      BY <2>2, <2>3
  <1>11. ASSUME NEW w \in Wallets
         PROVE  balance'[w] = OpeningBalance[w] + AmountsOf(Moves(w)')
    <2>1. /\ Moves(w) \subseteq ledger /\ debit \notin ledger /\ credit \notin ledger
      BY <1>7, <1>8 DEF Moves
    <2>2. IsFiniteSet(Moves(w)) /\ \A row \in Moves(w) : row.amount \in Int
      BY <1>8, <2>1, FS_Subset DEF LedgerInv
    <2>3. balance[w] = OpeningBalance[w] + AmountsOf(Moves(w)) /\ OpeningBalance[w] \in Int
      BY BalanceIsBooked, PaymentsAssumption DEF LedgerInv, Booked
    <2>4. /\ debit.wallet = w => Moves(w)' = Moves(w) \cup {debit}
          /\ credit.wallet = w => Moves(w)' = Moves(w) \cup {credit}
          /\ debit.wallet # w /\ credit.wallet # w => Moves(w)' = Moves(w)
      BY <1>3, <1>6, <1>7 DEF Moves
    <2>5. balance \in [Wallets -> Nat]
      BY DEF IInv, TypeOK
    <2>6. CASE w = from
      <3>1. AmountsOf(Moves(w) \cup {debit}) = debit.amount + AmountsOf(Moves(w)) /\ AmountsOf(Moves(w)) \in Int
        BY <1>4, <1>7, <2>1, <2>2, AmountsAdd
      <3>2. balance'[w] = balance[w] - a
        BY <1>3, <1>6, <2>5, <2>6
      <3>3. Moves(w)' = Moves(w) \cup {debit}
        BY <1>7, <2>4, <2>6
      <3>4. balance'[w] = (OpeningBalance[w] + AmountsOf(Moves(w))) - a
        BY <2>3, <3>2
      <3>5. AmountsOf(Moves(w)') = -a + AmountsOf(Moves(w))
        BY <1>7, <3>1, <3>3
      <3> QED
        BY <1>4, <2>3, <3>1, <3>4, <3>5
    <2>7. CASE w = to
      <3>1. AmountsOf(Moves(w) \cup {credit}) = credit.amount + AmountsOf(Moves(w)) /\ AmountsOf(Moves(w)) \in Int
        BY <1>4, <1>7, <2>1, <2>2, AmountsAdd
      <3>2. balance'[w] = balance[w] + a
        BY <1>3, <1>6, <2>5, <2>7
      <3>3. Moves(w)' = Moves(w) \cup {credit}
        BY <1>7, <2>4, <2>7
      <3>4. balance'[w] = (OpeningBalance[w] + AmountsOf(Moves(w))) + a
        BY <2>3, <3>2
      <3>5. AmountsOf(Moves(w)') = a + AmountsOf(Moves(w))
        BY <1>7, <3>1, <3>3
      <3> QED
        BY <1>4, <2>3, <3>1, <3>4, <3>5
    <2>8. CASE w # from /\ w # to
      <3>1. Moves(w)' = Moves(w)
        BY <1>7, <2>4, <2>8
      <3>2. balance'[w] = balance[w]
        BY <1>6, <2>5, <2>8
      <3> QED
        BY <2>3, <3>1, <3>2
    <2> QED
      BY <2>6, <2>7, <2>8
  <1>12. Booked'
    BY <1>11 DEF Booked
  <1> QED
    BY <1>9, <1>10, <1>12, BalanceStaysBooked DEF LedgerInv

LEMMA LedgerStep == IInv /\ LedgerInv /\ [Next]_vars => LedgerInv'
  <1> SUFFICES ASSUME IInv, LedgerInv, [Next]_vars PROVE LedgerInv'
    OBVIOUS
  <1>1. CASE UNCHANGED vars
    <2>1. ledger' = ledger /\ pc' = pc /\ balance' = balance
      BY <1>1 DEF vars, tables
    <2>2. Booked'
      BY <2>1, BalanceIsBooked DEF LedgerInv, Booked, Moves
    <2> QED
      BY <2>1, <2>2, BalanceStaysBooked DEF LedgerInv
  <1>2. ASSUME NEW p \in Requests, Acts(p) PROVE LedgerInv'
    <2>1. CASE TransferCommit(p)
      BY <2>1, LedgerTransfers
    <2>2. CASE HoldRefuse(p) \/ HoldPlace(p) \/ ReleaseCommit(p)
      <3>1. PICK answer \in Answers : EndTx(p, answer)
        BY <2>2 DEF HoldRefuse, HoldPlace, ReleaseCommit, Commit, Answers
      <3>2. pc'[p] \in Answers
        BY <3>1, EndTxFrame DEF IInv
      <3>3. UNCHANGED balance /\ \E row : ledger' = ledger \cup {row} /\ row.by = p
                                    /\ row.type \notin {"transfer_debit", "transfer_credit"}
        <4>1. CASE HoldRefuse(p)
          <5> DEFINE row == [by |-> p, type |-> "hold_failed", wallet |-> arg[p].wallet,
                         hold |-> None, amount |-> -arg[p].amount]
          <5>1. balance' = balance /\ ledger' = ledger \cup {row}
            BY <4>1 DEF HoldRefuse, Record
          <5>2. row.by = p /\ row.type = "hold_failed"
            OBVIOUS
          <5> HIDE DEF row
          <5> QED
            BY <5>1, <5>2
        <4>2. CASE HoldPlace(p)
          <5> DEFINE row == [by |-> p, type |-> "hold", wallet |-> arg[p].wallet,
                         hold |-> p, amount |-> -arg[p].amount]
          <5>1. balance' = balance /\ ledger' = ledger \cup {row}
            BY <4>2 DEF HoldPlace, Record
          <5>2. row.by = p /\ row.type = "hold"
            OBVIOUS
          <5> HIDE DEF row
          <5> QED
            BY <5>1, <5>2
        <4>3. CASE ReleaseCommit(p)
          <5> DEFINE row == [by |-> p, type |-> "release", wallet |-> holds[arg[p].hold].wallet,
                         hold |-> arg[p].hold, amount |-> holds[arg[p].hold].amount]
          <5>1. balance' = balance /\ ledger' = ledger \cup {row}
            BY <4>3 DEF ReleaseCommit, Record
          <5>2. row.by = p /\ row.type = "release"
            OBVIOUS
          <5> HIDE DEF row
          <5> QED
            BY <5>1, <5>2
        <4> QED
          BY <2>2, <4>1, <4>2, <4>3
      <3> QED
        BY <1>2, <3>2, <3>3, LedgerStill
    <2>3. CASE \E answer \in Answers : Rollback(p, answer)
      <3>1. UNCHANGED <<ledger, balance>> /\ pc'[p] \in Answers
        BY <2>3, EndTxFrame DEF IInv, Rollback, tables
      <3> QED
        BY <1>2, <3>1, LedgerStill
    <2>4. CASE ~(TransferCommit(p) \/ HoldRefuse(p) \/ HoldPlace(p) \/ ReleaseCommit(p)
                   \/ \E answer \in Answers : Rollback(p, answer))
      <3>1. UNCHANGED <<ledger, balance>> /\ pc[p] \notin Answers
        BY <1>2, <2>4
        DEF Acts, BeginHold, BeginRelease, BeginTransfer, HoldLockWallet, LockHold, ReleaseLedger,
            TransferLockSource, TransferLockRecipient, tables, Answers
      <3> QED
        BY <1>2, <3>1, LedgerStill
    <2> QED
      BY <2>1, <2>2, <2>3, <2>4
  <1> QED
    BY StepCases, <1>1, <1>2

\* Every balance is the opening balance plus what was transferred in and out, for any
\* number of requests: no pair of transfers loses an update (handler.go:290-325).
THEOREM LedgerBalances == Spec => []BalanceIsLedger
  <1>1. LedgerInv => BalanceIsLedger
    BY DEF LedgerInv
  <1> QED
    BY LedgerInit, LedgerStep, <1>1, Invariance, PTL DEF Spec

-----------------------------------------------------------------------------
(* The holds table. *)

HoldAmount(d, hs) == [h \in hs |-> d[h].amount]
TotalOf(d, hs)    == MapThenSumSet(LAMBDA h : d[h].amount, hs)

LEMMA TotalIsSum ==
  ASSUME NEW d, NEW S, IsFiniteSet(S)
  PROVE  TotalOf(d, S) = Sum(HoldAmount(d, S), S)
  <1> DEFINE body(g, s) == IF s = {} THEN 0 ELSE d[Pick(s)].amount + g[s \ {Pick(s)}]
             f == CHOOSE g : g = [s \in SUBSET S |-> body(g, s)]
  <1>1. TotalOf(d, S) = f[S]
    BY DEF TotalOf, MapThenSumSet, MapThenFoldSet, Pick
  <1>2. ASSUME NEW g
        PROVE  (g = [s \in SUBSET S |-> body(g, s)]) <=> Sums(g, S, HoldAmount(d, S))
    <2>1. \A s \in SUBSET S : s # {} => HoldAmount(d, S)[Pick(s)] = d[Pick(s)].amount
      BY PickIn DEF HoldAmount
    <2>2. \A s \in SUBSET S :
            body(g, s) = IF s = {} THEN 0 ELSE HoldAmount(d, S)[Pick(s)] + g[s \ {Pick(s)}]
      BY <2>1
    <2> HIDE DEF body
    <2>3. [s \in SUBSET S |-> body(g, s)]
        = [s \in SUBSET S |-> IF s = {} THEN 0 ELSE HoldAmount(d, S)[Pick(s)] + g[s \ {Pick(s)}]]
      BY <2>2
    <2> QED
      BY <2>3 DEF Sums
  <1>3. \E g : g = [s \in SUBSET S |-> body(g, s)]
    BY <1>2, SumsExist
  <1>4. f = [s \in SUBSET S |-> body(f, s)]
    BY <1>3
  <1>5. Sums(f, S, HoldAmount(d, S))
    BY <1>2, <1>4
  <1> HIDE DEF f
  <1> QED
    BY <1>1, <1>5, SumIs

LEMMA TotalInt ==
  ASSUME NEW d, NEW S, IsFiniteSet(S), \A h \in S : d[h].amount \in Nat
  PROVE  TotalOf(d, S) \in Int
  <1>1. \A h \in S : HoldAmount(d, S)[h] \in Int
    BY DEF HoldAmount
  <1>2. Sum(HoldAmount(d, S), S) \in Int
    BY <1>1, SumInt
  <1> QED
    BY <1>2, TotalIsSum

\* Rows with the same amounts add up to the same.
LEMMA TotalSame ==
  ASSUME NEW d, NEW e, NEW S, IsFiniteSet(S), \A h \in S : d[h].amount = e[h].amount
  PROVE  TotalOf(d, S) = TotalOf(e, S)
  <1>1. HoldAmount(d, S) = HoldAmount(e, S)
    BY DEF HoldAmount
  <1>2. TotalOf(d, S) = Sum(HoldAmount(d, S), S)
    BY TotalIsSum
  <1>3. TotalOf(e, S) = Sum(HoldAmount(e, S), S)
    BY TotalIsSum
  <1> QED
    BY <1>1, <1>2, <1>3

LEMMA TotalAdd ==
  ASSUME NEW d, NEW S, IsFiniteSet(S), NEW y, y \notin S, \A h \in S \cup {y} : d[h].amount \in Nat
  PROVE  TotalOf(d, S \cup {y}) = d[y].amount + TotalOf(d, S)
  <1> DEFINE T == S \cup {y}
  <1>1. IsFiniteSet(T)
    BY FS_AddElement
  <1>2. \A h \in T : HoldAmount(d, T)[h] = d[h].amount /\ HoldAmount(d, T)[h] \in Int
    BY DEF HoldAmount
  <1>3. \A h \in S : HoldAmount(d, S)[h] = HoldAmount(d, T)[h]
    BY DEF HoldAmount
  <1>4. Sum(HoldAmount(d, T), S \cup {y}) = HoldAmount(d, T)[y] + Sum(HoldAmount(d, T), S)
    BY <1>2, SumAdd
  <1>5. Sum(HoldAmount(d, S), S) = Sum(HoldAmount(d, T), S)
    BY <1>3, SumSame
  <1>6. TotalOf(d, T) = Sum(HoldAmount(d, T), T)
    BY <1>1, TotalIsSum
  <1>7. TotalOf(d, S) = Sum(HoldAmount(d, S), S)
    BY TotalIsSum
  <1>8. HoldAmount(d, T)[y] = d[y].amount
    BY <1>2
  <1> QED
    BY <1>4, <1>5, <1>6, <1>7, <1>8

LEMMA TotalGrows ==
  ASSUME NEW d, NEW S, IsFiniteSet(S), NEW R \in SUBSET S, \A h \in S : d[h].amount \in Nat
  PROVE  TotalOf(d, R) <= TotalOf(d, S)
  <1>1. IsFiniteSet(R)
    BY FS_Subset
  <1>2. \A h \in S : HoldAmount(d, S)[h] \in Nat
    BY DEF HoldAmount
  <1>3. \A h \in R : HoldAmount(d, R)[h] = HoldAmount(d, S)[h]
    BY DEF HoldAmount
  <1>4. Sum(HoldAmount(d, S), R) <= Sum(HoldAmount(d, S), S)
    BY <1>2, SumGrows
  <1>5. Sum(HoldAmount(d, R), R) = Sum(HoldAmount(d, S), R)
    BY <1>1, <1>3, SumSame
  <1>6. TotalOf(d, R) = Sum(HoldAmount(d, R), R)
    BY <1>1, TotalIsSum
  <1>7. TotalOf(d, S) = Sum(HoldAmount(d, S), S)
    BY TotalIsSum
  <1> QED
    BY <1>4, <1>5, <1>6, <1>7

\* Headroom, with the table it is computed from as an argument.
Room(w)      == balance[w] - TotalOf(holds, ActiveHolds(w))
RoomIsLeft   == \A w \in Wallets : Headroom(w) = Room(w)

LEMMA HeadroomIsRoom == RoomIsLeft
  BY DEF RoomIsLeft, Headroom, Room, Total, TotalOf

LEMMA HeadroomStaysRoom == RoomIsLeft'
  BY HeadroomIsRoom, PTL

ActiveRows == {h \in Requests : Active(h)}

\* What a handler compares with before it commits a hold: the balance is current, its
\* row being locked; of the snapshot nothing is known.
SnapInv ==
  /\ IsFiniteSet(ActiveRows)
  /\ \A p \in Requests :
       /\ IsFiniteSet(seen[p].held)
       /\ pc[p] = "hold_commit" => /\ walletLock[arg[p].wallet] = p
                                   /\ seen[p].balance = balance[arg[p].wallet]

LEMMA SnapInit == Init => SnapInv
  <1> SUFFICES ASSUME Init PROVE SnapInv
    OBVIOUS
  <1>1. ActiveRows = {} /\ \A p \in Requests : seen[p].held = {} /\ pc[p] # "hold_commit"
    BY DEF Init, ActiveRows, Active, NoHold, NoSeen
  <1> QED
    BY <1>1, FS_EmptySet DEF SnapInv

\* A step changes which holds are active by the one that is placed or settled.
LEMMA ActiveRowsStep ==
  ASSUME IInv, NEW p \in Requests, Acts(p)
  PROVE  \A h \in Requests \ {p} : holds'[h].status = "active" => holds[h].status = "active"
  <1>t. TypeOK
    BY DEF IInv
  <1>1. CASE HoldPlace(p)
    BY <1>1, <1>t DEF HoldPlace, TypeOK
  <1>2. CASE ReleaseCommit(p) \/ TransferCommit(p)
    <2>1. PICK s \in {"released", "transferred"} : holds' = [holds EXCEPT ![arg[p].hold].status = s]
      BY <1>2 DEF ReleaseCommit, TransferCommit
    <2> QED
      BY <2>1, <1>t DEF TypeOK
  <1>3. CASE ~HoldPlace(p) /\ ~ReleaseCommit(p) /\ ~TransferCommit(p)
    <2>1. holds' = holds
      BY <1>3 DEF Acts, BeginHold, BeginRelease, BeginTransfer, HoldLockWallet, HoldRefuse, LockHold,
                ReleaseLedger, TransferLockSource, TransferLockRecipient, Rollback, tables
    <2> QED
      BY <2>1
  <1> QED
    BY <1>1, <1>2, <1>3

LEMMA SnapStep == IInv /\ SnapInv /\ [Next]_vars => SnapInv'
  <1> SUFFICES ASSUME IInv, SnapInv, [Next]_vars PROVE SnapInv'
    OBVIOUS
  <1>t. TypeOK
    BY DEF IInv
  <1>1. CASE UNCHANGED vars
    BY <1>1 DEF vars, tables, locks, SnapInv, ActiveRows, Active
  <1>2. ASSUME NEW p \in Requests, Acts(p) PROVE SnapInv'
    <2>1. IsFiniteSet(ActiveRows')
      <3>1. ActiveRows' \subseteq ActiveRows \cup {p}
        BY <1>2, ActiveRowsStep DEF ActiveRows, Active
      <3>2. IsFiniteSet(ActiveRows \cup {p})
        BY FS_AddElement DEF SnapInv
      <3> QED
        BY <3>1, <3>2, FS_Subset
    <2>2. ASSUME NEW q \in Requests
          PROVE  /\ IsFiniteSet(seen'[q].held)
                 /\ pc'[q] = "hold_commit" => /\ walletLock'[arg'[q].wallet] = q
                                              /\ seen'[q].balance = balance'[arg'[q].wallet]
      <3>0. IsFiniteSet(seen[q].held)
        BY DEF SnapInv
      <3>1. CASE q # p
        <4>1. pc'[q] = pc[q] /\ arg'[q] = arg[q] /\ seen'[q] = seen[q]
          <5>1. CASE \E answer \in Answers : EndTx(p, answer)
            BY <3>1, <5>1, <1>t, EndTxFrame
          <5>2. CASE ~ \E answer \in Answers : EndTx(p, answer)
            BY <1>2, <3>1, <5>2, <1>t
            DEF TypeOK, Goto, Acts, BeginHold, BeginRelease, BeginTransfer, HoldLockWallet, LockHold,
                ReleaseLedger, TransferLockSource, TransferLockRecipient, HoldRefuse, HoldPlace,
                ReleaseCommit, TransferCommit, Rollback, Commit, Answers
          <5> QED
            BY <5>1, <5>2
        <4>2. ASSUME pc[q] = "hold_commit"
              PROVE  /\ walletLock'[arg[q].wallet] = q
                     /\ seen[q].balance = balance'[arg[q].wallet]
          <5>1. arg[q].wallet \in Wallets
            BY <4>2 DEF IInv, LockInv, Validated
          <5>2. walletLock[arg[q].wallet] = q /\ seen[q].balance = balance[arg[q].wallet]
            BY <4>2 DEF SnapInv
          <5> QED
            BY <1>2, <3>1, <5>1, <5>2, OthersWalletKept
        <4> QED
          BY <3>0, <4>1, <4>2
      <3>2. CASE q = p
        <4>1. CASE HoldLockWallet(p)
          BY <3>0, <3>2, <4>1, <1>t DEF HoldLockWallet, Goto, TypeOK, Arg, tables
        <4>2. CASE \E w \in Wallets \cup {None}, a \in Amounts : BeginHold(p, w, a)
          <5>1. PICK w \in Wallets \cup {None}, a \in Amounts : BeginHold(p, w, a)
            BY <4>2
          <5>2. pc'[p] = "hold_select" /\ seen'[p].held = ActiveHolds(w)
            BY <5>1, <1>t DEF BeginHold, Goto, TypeOK, Seen
          <5>3. ActiveHolds(w) \subseteq ActiveRows
            BY DEF ActiveHolds, ActiveRows
          <5>4. IsFiniteSet(ActiveHolds(w))
            BY <5>3, FS_Subset DEF SnapInv
          <5> QED
            BY <3>2, <5>2, <5>4
        <4>3. CASE \E answer \in Answers : EndTx(p, answer)
          <5>1. pc'[p] # "hold_commit" /\ seen'[p].held = {}
            BY <4>3, <1>t DEF EndTx, Goto, TypeOK, NoSeen, Answers
          <5> QED
            BY <3>2, <5>1, FS_EmptySet
        <4>4. CASE ~(\/ HoldLockWallet(p) \/ \E w \in Wallets \cup {None}, a \in Amounts : BeginHold(p, w, a)
                     \/ \E answer \in Answers : EndTx(p, answer))
          <5>1. pc'[p] # "hold_commit" /\ seen'[p].held = seen[p].held
            BY <1>2, <4>4, <1>t
            DEF TypeOK, Seen, Goto, Acts, BeginRelease, BeginTransfer, LockHold,
                ReleaseLedger, TransferLockSource, TransferLockRecipient, HoldRefuse, HoldPlace,
                ReleaseCommit, TransferCommit, Rollback, Commit, Answers
          <5> QED
            BY <3>0, <3>2, <5>1
        <4> QED
          BY <4>1, <4>2, <4>3, <4>4
      <3> QED
        BY <3>1, <3>2
    <2> QED
      BY <2>1, <2>2 DEF SnapInv
  <1> QED
    BY StepCases, <1>1, <1>2

-----------------------------------------------------------------------------
(* How a step changes what a wallet has left. *)

\* The step is a hold for w whose snapshot lacks a hold that is active.
RacedHold(w) ==
  \E p \in Requests : /\ arg[p].wallet = w
                      /\ pc[p] = "hold_commit" /\ pc'[p] # pc[p]
                      /\ ~(ActiveHolds(w) \subseteq seen[p].held)

\* Amounts are numbers and the holds of a wallet are finitely many.
LEMMA HoldsSum ==
  ASSUME IInv, SnapInv, NEW w \in Wallets
  PROVE  /\ IsFiniteSet(ActiveHolds(w))
         /\ \A h \in Requests : holds[h].amount \in Nat
         /\ balance[w] \in Nat
         /\ TotalOf(holds, ActiveHolds(w)) \in Int
  <1>1. ActiveHolds(w) \subseteq ActiveRows /\ ActiveHolds(w) \subseteq Requests
    BY DEF ActiveHolds, ActiveRows
  <1>2. IsFiniteSet(ActiveHolds(w))
    BY <1>1, FS_Subset DEF SnapInv
  <1>3. \A h \in Requests : holds[h].amount \in Amounts \cup {0}
    BY DEF IInv, TypeOK
  <1>4. \A h \in Requests : holds[h].amount \in Nat
    BY <1>3, Constants
  <1>5. balance[w] \in Nat
    BY DEF IInv, TypeOK
  <1>6. \A h \in ActiveHolds(w) : holds[h].amount \in Nat
    BY <1>1, <1>4
  <1>7. TotalOf(holds, ActiveHolds(w)) \in Int
    BY <1>2, <1>6, TotalInt
  <1> QED
    BY <1>2, <1>4, <1>5, <1>7

\* A hold that added up all there is leaves something, and a hold on another wallet
\* changes nothing.
LEMMA PlaceRoom ==
  ASSUME IInv, SnapInv, NEW p \in Requests, HoldPlace(p), NEW w \in Wallets
  PROVE  Room(w)' >= Room(w) \/ Room(w)' >= 0 \/ RacedHold(w)
  <1>1. pc[p] = "hold_commit" /\ pc'[p] # pc[p]
    <2>1. PICK answer \in Answers : EndTx(p, answer)
      BY DEF HoldPlace, Commit, Answers
    <2>2. pc'[p] \in Answers
      BY <2>1, EndTxFrame DEF IInv
    <2> QED
      BY <2>2 DEF HoldPlace, Answers
  <1>2. /\ arg[p].wallet \in Wallets /\ arg[p].amount \in Amounts
        /\ seen[p].balance = balance[arg[p].wallet]
        /\ holds[p] = NoHold
    BY <1>1 DEF IInv, LockInv, Validated, SnapInv, HoldRows, Answers
  <1>3. /\ holds' = [holds EXCEPT ![p] = [status |-> "active", wallet |-> arg[p].wallet,
                                          amount |-> arg[p].amount]]
        /\ balance' = balance
    BY DEF HoldPlace
  <1>4. /\ holds'[p].amount = arg[p].amount /\ holds'[p].status = "active"
        /\ holds'[p].wallet = arg[p].wallet
        /\ \A h \in Requests \ {p} : holds'[h] = holds[h]
    BY <1>3 DEF IInv, TypeOK
  <1> DEFINE A == ActiveHolds(w)
  <1>5. /\ IsFiniteSet(A) /\ A \subseteq Requests /\ p \notin A
        /\ TotalOf(holds, A) \in Int /\ balance[w] \in Nat
        /\ \A h \in Requests : holds[h].amount \in Nat
    BY <1>2, HoldsSum DEF ActiveHolds, Active, NoHold
  <1>6. CASE arg[p].wallet # w
    <2>1. ActiveHolds(w)' = A
      BY <1>4, <1>5, <1>6 DEF ActiveHolds, Active
    <2> HIDE DEF A
    <2>2. \A h \in A : holds[h].amount = holds'[h].amount
      BY <1>4, <1>5
    <2>3. TotalOf(holds, A) = TotalOf(holds', A)
      BY <1>5, <2>2, TotalSame
    <2>4. Room(w)' = Room(w)
      BY <1>3, <2>1, <2>3 DEF Room, A
    <2>5. Room(w) \in Int
      BY <1>5 DEF Room, A
    <2> QED
      BY <2>4, <2>5
  <1>7. CASE arg[p].wallet = w /\ A \subseteq seen[p].held
    <2>1. ActiveHolds(w)' = A \cup {p}
      BY <1>4, <1>5, <1>7 DEF ActiveHolds, Active
    <2> DEFINE H == seen[p].held
    <2>2. IsFiniteSet(H) /\ H \subseteq Requests
      BY DEF SnapInv, IInv, TypeOK, Seen
    <2>3. seen[p].balance - TotalOf(holds, H) >= arg[p].amount
      BY DEF HoldPlace, Available, Total, TotalOf
    <2>4. arg[p].amount \in Nat
      BY <1>2, Constants
    <2> HIDE DEF A, H
    <2>5. \A h \in A : holds[h].amount = holds'[h].amount
      BY <1>4, <1>5
    <2>6. TotalOf(holds, A) = TotalOf(holds', A)
      BY <1>5, <2>5, TotalSame
    <2>7. \A h \in A \cup {p} : holds'[h].amount \in Nat
      BY <1>4, <1>5, <2>4
    <2>8. TotalOf(holds', A \cup {p}) = arg[p].amount + TotalOf(holds', A)
      BY <1>4, <1>5, <2>7, TotalAdd
    <2>9. \A h \in H : holds[h].amount \in Nat
      BY <1>5, <2>2
    <2>10. TotalOf(holds, H) \in Int
      BY <2>2, <2>9, TotalInt
    <2>11. TotalOf(holds, A) <= TotalOf(holds, H)
      BY <1>7, <2>2, <2>9, TotalGrows DEF H
    <2>12. Room(w)' = balance[w] - (arg[p].amount + TotalOf(holds, A))
      BY <1>3, <2>1, <2>6, <2>8 DEF Room
    <2>13. balance[w] - TotalOf(holds, H) >= arg[p].amount
      BY <1>2, <1>7, <2>3
    <2>14. \A b, a, x, y \in Int : x <= y /\ b - y >= a => b - (a + x) >= 0
      OBVIOUS
    <2>15. balance[w] - (arg[p].amount + TotalOf(holds, A)) >= 0
      BY <1>5, <2>4, <2>10, <2>11, <2>13, <2>14
    <2> QED
      BY <2>12, <2>15
  <1>8. CASE arg[p].wallet = w /\ ~(A \subseteq seen[p].held)
    BY <1>1, <1>8 DEF RacedHold
  <1> QED
    BY <1>6, <1>7, <1>8

\* A hold that is settled no longer counts, and what a transfer takes it had set aside.
LEMMA SettleRoom ==
  ASSUME IInv, SnapInv, NEW p \in Requests, ReleaseCommit(p) \/ TransferCommit(p), NEW w \in Wallets
  PROVE  Room(w)' >= Room(w)
  <1> DEFINE g == arg[p].hold
             A == ActiveHolds(w)
             B == ActiveHolds(w) \ {g}
  <1>1. /\ g \in Requests /\ holds[g].status = "active" /\ holds[g].amount \in Amounts
        /\ holds[g].wallet \in Wallets
    BY SettledRow DEF ReleaseCommit, TransferCommit, Settling, InTransfer
  <1>2. PICK s \in {"released", "transferred"} : holds' = [holds EXCEPT ![g].status = s]
    BY DEF ReleaseCommit, TransferCommit
  <1>3. /\ holds'[g].status # "active" /\ holds'[g].amount = holds[g].amount
        /\ \A h \in Requests \ {g} : holds'[h] = holds[h]
    BY <1>1, <1>2 DEF IInv, TypeOK
  <1>4. /\ IsFiniteSet(A) /\ A \subseteq Requests
        /\ TotalOf(holds, A) \in Int /\ balance[w] \in Nat
        /\ \A h \in Requests : holds[h].amount \in Nat
    BY HoldsSum DEF ActiveHolds
  <1>5. ActiveHolds(w)' = B
    BY <1>3 DEF ActiveHolds, Active
  <1>6. /\ holds[g].wallet = w => g \in A /\ A = B \cup {g}
        /\ holds[g].wallet # w => A = B
        /\ B \subseteq A /\ g \notin B
    BY <1>1 DEF ActiveHolds, Active
  <1> DEFINE a == holds[g].amount
  <1>7. a \in Nat /\ a > 0
    BY <1>1, Constants
  <1>8. Room(w)' = balance'[w] - TotalOf(holds', B)
    BY <1>5 DEF Room
  <1>9. Room(w) = balance[w] - TotalOf(holds, A)
    BY DEF Room
  <1>10. \/ balance'[w] = balance[w]
         \/ balance'[w] = balance[w] + a
         \/ holds[g].wallet = w /\ balance'[w] = balance[w] - a
    <2>1. CASE ReleaseCommit(p)
      BY <2>1 DEF ReleaseCommit
    <2>2. CASE TransferCommit(p)
      <3> DEFINE from == holds[g].wallet
                 to == arg[p].wallet
      <3>1. to # from
        BY <2>2 DEF TransferCommit, IInv, LockInv, HoldOwned, Settling, InTransfer
      <3>2. /\ seen[p].balance = balance[from] /\ seen[p].recipient = balance[to]
        BY <2>2 DEF TransferCommit, IInv, LockInv, TransferReadsCurrent
      <3>3. balance' = [balance EXCEPT ![from] = balance[from] - a, ![to] = balance[to] + a]
        BY <2>2, <3>2 DEF TransferCommit
      <3>4. balance \in [Wallets -> Nat]
        BY DEF IInv, TypeOK
      <3> HIDE DEF from, to, a
      <3>5. \/ w = from /\ balance'[w] = balance[w] - a
            \/ w = to /\ balance'[w] = balance[w] + a
            \/ w # from /\ w # to /\ balance'[w] = balance[w]
        BY <3>1, <3>3, <3>4
      <3> QED
        BY <3>5 DEF from
    <2> QED
      BY <2>1, <2>2
  <1> HIDE DEF A, B, g
  <1>11. IsFiniteSet(B) /\ B \in SUBSET A
    BY <1>4, <1>6, FS_Subset
  <1>12. \A h \in B : holds[h].amount = holds'[h].amount
    BY <1>3, <1>4, <1>6
  <1>13. TotalOf(holds, B) = TotalOf(holds', B)
    BY <1>11, <1>12, TotalSame
  <1>14. \A h \in A : holds[h].amount \in Nat
    BY <1>4
  <1>15. TotalOf(holds, B) <= TotalOf(holds, A)
    BY <1>4, <1>11, <1>14, TotalGrows
  <1>16. \A h \in B : holds[h].amount \in Nat
    BY <1>11, <1>14
  <1>17. TotalOf(holds, B) \in Int
    BY <1>11, <1>16, TotalInt
  <1>18. \A h \in B \cup {g} : holds[h].amount \in Nat
    BY <1>7, <1>16
  <1>19. holds[g].wallet = w => TotalOf(holds, A) = a + TotalOf(holds, B)
    <2> SUFFICES ASSUME holds[g].wallet = w PROVE TotalOf(holds, B \cup {g}) = a + TotalOf(holds, B)
      BY <1>6
    <2> QED
      BY <1>6, <1>11, <1>18, TotalAdd
  <1> DEFINE tA == TotalOf(holds, A)
             tB == TotalOf(holds, B)
             b  == balance[w]
  <1>20. /\ b \in Int /\ tA \in Int /\ tB \in Int /\ tB <= tA
         /\ Room(w) = b - tA /\ Room(w)' = balance'[w] - tB
         /\ \/ balance'[w] = b \/ balance'[w] = b + a
            \/ balance'[w] = b - a /\ tA = a + tB
    BY <1>4, <1>8, <1>9, <1>10, <1>13, <1>15, <1>17, <1>19
  <1> HIDE DEF tA, tB, b, a
  <1> QED
    BY <1>7, <1>20

RoomsAreIntegers == \A w \in Wallets : Room(w) \in Int

LEMMA RoomInt == IInv /\ SnapInv => RoomsAreIntegers
  <1> SUFFICES ASSUME IInv, SnapInv, NEW w \in Wallets PROVE Room(w) \in Int
    BY DEF RoomsAreIntegers
  <1>1. balance[w] \in Int /\ TotalOf(holds, ActiveHolds(w)) \in Int
    BY HoldsSum
  <1> QED
    BY <1>1 DEF Room

LEMMA RaceStep ==
  ASSUME IInv, SnapInv, [Next]_vars, NEW w \in Wallets
  PROVE  Room(w)' >= Room(w) \/ Room(w)' >= 0 \/ RacedHold(w)
  <1>1. CASE UNCHANGED <<balance, holds>>
    <2>1. Room(w)' = Room(w)
      BY <1>1 DEF Room, ActiveHolds, Active
    <2>2. balance[w] \in Int /\ TotalOf(holds, ActiveHolds(w)) \in Int
      BY HoldsSum
    <2>3. Room(w) \in Int
      BY <2>2 DEF Room
    <2> QED
      BY <2>1, <2>3
  <1>2. CASE \E p \in Requests : HoldPlace(p)
    BY <1>2, PlaceRoom
  <1>3. CASE \E p \in Requests : ReleaseCommit(p) \/ TransferCommit(p)
    BY <1>3, SettleRoom
  <1>4. CASE UNCHANGED vars
    BY <1>1, <1>4 DEF vars, tables
  <1>5. ASSUME NEW p \in Requests, Acts(p), ~HoldPlace(p), ~ReleaseCommit(p), ~TransferCommit(p)
        PROVE  UNCHANGED <<balance, holds>>
    BY <1>5 DEF Acts, BeginHold, BeginRelease, BeginTransfer, HoldLockWallet, HoldRefuse, LockHold,
                ReleaseLedger, TransferLockSource, TransferLockRecipient, Rollback, tables
  <1> QED
    BY StepCases, <1>1, <1>2, <1>3, <1>4, <1>5

\* Only two holds placed at once overdraw a wallet, for any number of requests: a hold
\* whose sum counted every active hold leaves no less than nothing, and a release or a
\* transfer never takes more than its own hold had set aside (handler.go:56-100).
THEOREM OverdraftRaced == Spec => OverdraftOnlyByRace
  <1> DEFINE Raced == \A w \in Wallets : Headroom(w)' < 0 /\ Headroom(w)' < Headroom(w) => RacedHold(w)
  <1>1. ASSUME IInv, SnapInv, [Next]_vars, RoomIsLeft, RoomIsLeft', RoomsAreIntegers, RoomsAreIntegers'
        PROVE  Raced
    <2> SUFFICES ASSUME NEW w \in Wallets, Headroom(w)' < 0, Headroom(w)' < Headroom(w)
                 PROVE  RacedHold(w)
      OBVIOUS
    <2>1. Headroom(w) = Room(w) /\ Headroom(w)' = Room(w)'
      BY <1>1 DEF RoomIsLeft
    <2>2. Room(w)' >= Room(w) \/ Room(w)' >= 0 \/ RacedHold(w)
      BY <1>1, RaceStep
    <2>3. Room(w) \in Int /\ Room(w)' \in Int
      BY <1>1 DEF RoomsAreIntegers
    <2> QED
      BY <2>1, <2>2, <2>3
  <1>2. Spec => []SnapInv
    BY SnapInit, SnapStep, Invariance, PTL DEF Spec
  <1>3. Raced => [Raced]_vars
    OBVIOUS
  <1> HIDE DEF Raced
  <1>4. Spec => [][Raced]_vars
    BY <1>1, <1>2, RoomInt, HeadroomIsRoom, HeadroomStaysRoom, Invariance, PTL DEF Spec
  <1> QED
    BY <1>4 DEF Raced, RacedHold, OverdraftOnlyByRace

-----------------------------------------------------------------------------
(* Refused holds. *)

\* Only HoldFunds' own comparison refuses a hold that has its wallet locked.
LEMMA RefusedByCompare ==
  ASSUME IInv, [Next]_vars, NEW p \in Requests, pc[p] = "hold_commit", pc'[p] = "refused"
  PROVE  HoldRefuse(p)
  <1>t. TypeOK
    BY DEF IInv
  <1>1. ~UNCHANGED vars
    BY DEF vars
  <1>2. PICK q \in Requests : Begin(q) \/ Step(q) \/ Fail(q)
    BY <1>1 DEF Next
  <1>3. Acts(q)
    <2>1. "refused" \in Answers /\ "failed" \in Answers
      BY DEF Answers
    <2> QED
      BY <1>2, <2>1 DEF Begin, Step, Fail, Acts, RefuseHold, TransferInvariantViolation,
                        WalletNotFound, DeadlockVictim
  <1>4. q = p
    BY <1>t, <1>3, OthersStay
  <1>5. ~Begin(p)
    BY DEF Begin, BeginHold, BeginRelease, BeginTransfer
  <1>6. ~EndTx(p, "failed") /\ ~EndTx(p, "ok")
    BY <1>t DEF EndTx, Goto, TypeOK
  <1>7. ~Fail(p) /\ ~DeadlockVictim(p) /\ ~HoldPlace(p)
    BY <1>6 DEF Fail, DeadlockVictim, Rollback, HoldPlace, Commit
  <1> QED
    BY <1>2, <1>4, <1>5, <1>7
    DEF Step, HoldLockWallet, RefuseHold, LockHold, ReleaseLedger, ReleaseCommit, TransferLockSource,
        TransferInvariantViolation, TransferLockRecipient, TransferCommit, WalletNotFound

\* A hold whose snapshot has only holds that are still active is compared with no less
\* than what its wallet has left.
LEMMA RefuseRoom ==
  ASSUME IInv, SnapInv, NEW p \in Requests, HoldRefuse(p),
         seen[p].held \subseteq ActiveHolds(arg[p].wallet)
  PROVE  Room(arg[p].wallet) < arg[p].amount
  <1> DEFINE w == arg[p].wallet
             a == arg[p].amount
             H == seen[p].held
             A == ActiveHolds(w)
  <1>1. pc[p] = "hold_commit" /\ seen[p].balance - TotalOf(holds, H) < a
    BY DEF HoldRefuse, Available, Total, TotalOf
  <1>2. w \in Wallets /\ a \in Amounts /\ seen[p].balance = balance[w]
    BY <1>1 DEF IInv, LockInv, Validated, SnapInv
  <1>3. /\ IsFiniteSet(A) /\ A \subseteq Requests /\ balance[w] \in Nat
        /\ TotalOf(holds, A) \in Int
        /\ \A h \in Requests : holds[h].amount \in Nat
    BY <1>2, HoldsSum DEF ActiveHolds
  <1>4. H \in SUBSET A
    OBVIOUS
  <1>5. a \in Int
    BY <1>2, Constants
  <1> DEFINE r == Room(w)
  <1>6. r = balance[w] - TotalOf(holds, A)
    BY DEF Room
  <1>7. balance[w] - TotalOf(holds, H) < a
    BY <1>1, <1>2
  <1> HIDE DEF w, a, H, A, r
  <1>8. \A h \in A : holds[h].amount \in Nat
    BY <1>3
  <1>9. TotalOf(holds, H) <= TotalOf(holds, A)
    BY <1>3, <1>4, <1>8, TotalGrows
  <1>10. IsFiniteSet(H) /\ \A h \in H : holds[h].amount \in Nat
    BY <1>3, <1>4, <1>8, FS_Subset
  <1>11. TotalOf(holds, H) \in Int
    BY <1>10, TotalInt
  <1>12. r < a
    <2>1. \A b, x, y, z \in Int : x <= y /\ b - x < z => b - y < z
      OBVIOUS
    <2> QED
      BY <1>3, <1>5, <1>6, <1>7, <1>9, <1>11, <2>1
  <1> QED
    BY <1>12 DEF r, w, a

\* A hold is refused, though there is enough, only when its snapshot counted a hold that
\* has been settled while it waited for the wallet (handler.go:73), for any number of requests.
THEOREM RefusalRaced == Spec => RefusedOnlyByRace
  <1> DEFINE Raced == \A p \in Requests :
                        /\ pc[p] = "hold_commit" /\ pc'[p] = "refused"
                        /\ Headroom(arg[p].wallet) >= arg[p].amount
                        => ~(seen[p].held \subseteq ActiveHolds(arg[p].wallet))
  <1>1. ASSUME IInv, SnapInv, [Next]_vars, RoomIsLeft, RoomsAreIntegers
        PROVE  Raced
    <2> SUFFICES ASSUME NEW p \in Requests, pc[p] = "hold_commit", pc'[p] = "refused",
                        Headroom(arg[p].wallet) >= arg[p].amount,
                        seen[p].held \subseteq ActiveHolds(arg[p].wallet)
                 PROVE  FALSE
      OBVIOUS
    <2>1. arg[p].wallet \in Wallets /\ arg[p].amount \in Amounts
      BY <1>1 DEF IInv, LockInv, Validated
    <2>2. Headroom(arg[p].wallet) = Room(arg[p].wallet) /\ Room(arg[p].wallet) \in Int
      BY <1>1, <2>1 DEF RoomIsLeft, RoomsAreIntegers
    <2>3. HoldRefuse(p)
      BY <1>1, RefusedByCompare
    <2>4. Room(arg[p].wallet) < arg[p].amount
      BY <1>1, <2>3, RefuseRoom
    <2>5. arg[p].amount \in Int
      BY <2>1, Constants
    <2> QED
      BY <2>2, <2>4, <2>5
  <1>2. Spec => []SnapInv
    BY SnapInit, SnapStep, Invariance, PTL DEF Spec
  <1>3. Raced => [Raced]_vars
    OBVIOUS
  <1> HIDE DEF Raced
  <1>4. Spec => [][Raced]_vars
    BY <1>1, <1>2, <1>3, RoomInt, HeadroomIsRoom, Invariance, PTL DEF Spec
  <1> QED
    BY <1>4 DEF Raced, RefusedOnlyByRace

-----------------------------------------------------------------------------
(* All the money. *)

\* What the wallets have together, taken out of the fold.
LEMMA FundsAreSum ==
  ASSUME NEW b
  PROVE  MapThenSumSet(LAMBDA w : b[w], Wallets) = Sum(b, Wallets)
  BY DEF MapThenSumSet, MapThenFoldSet, Sum, Sums, Pick

\* Two members of a sum, taken out of it.
LEMMA SumTwo ==
  ASSUME NEW S, IsFiniteSet(S), NEW x \in S, NEW y \in S, x # y, NEW v, \A z \in S : v[z] \in Int
  PROVE  /\ Sum(v, S) = v[x] + (v[y] + Sum(v, S \ {x, y}))
         /\ Sum(v, S \ {x, y}) \in Int
  <1> DEFINE R == S \ {x, y}
             T == S \ {x}
  <1>1. R \subseteq S /\ T \subseteq S /\ T = R \cup {y} /\ S = T \cup {x} /\ y \notin R /\ x \notin T
    OBVIOUS
  <1> HIDE DEF R, T
  <1>2. IsFiniteSet(R) /\ IsFiniteSet(T)
    BY <1>1, FS_Subset
  <1>3. Sum(v, T \cup {x}) = v[x] + Sum(v, T)
    BY <1>1, <1>2, SumAdd
  <1>4. Sum(v, R \cup {y}) = v[y] + Sum(v, R)
    BY <1>1, <1>2, SumAdd
  <1>5. Sum(v, R) \in Int
    BY <1>1, <1>2, SumInt
  <1> QED
    BY <1>1, <1>3, <1>4, <1>5 DEF R

Conserved == Sum(balance, Wallets) = Sum(OpeningBalance, Wallets)

\* A transfer takes from one wallet what it gives to another: both balances it writes are
\* current, and the two wallets differ.
LEMMA TransferConserves ==
  ASSUME IInv, Conserved, NEW p \in Requests, TransferCommit(p)
  PROVE  Conserved'
  <1> DEFINE a == holds[arg[p].hold].amount
             from == holds[arg[p].hold].wallet
             to == arg[p].wallet
             R == Wallets \ {from, to}
             old == balance
             new == balance'
  <1>1. from \in Wallets /\ a \in Amounts
    BY SettledRow DEF TransferCommit, Settling, InTransfer
  <1>2. to \in Wallets /\ to # from
    BY DEF TransferCommit, IInv, LockInv, Validated, HoldOwned, Settling, InTransfer
  <1>3. seen[p].balance = balance[from] /\ seen[p].recipient = balance[to]
    BY DEF TransferCommit, IInv, LockInv, TransferReadsCurrent
  <1>4. new = [old EXCEPT ![from] = old[from] - a, ![to] = old[to] + a]
    BY <1>3 DEF TransferCommit
  <1>5. old \in [Wallets -> Nat] /\ a \in Int
    BY <1>1, Constants DEF IInv, TypeOK
  <1>6. IsFiniteSet(Wallets)
    BY PaymentsAssumption
  <1>7. Sum(old, Wallets) = Sum(OpeningBalance, Wallets)
    BY DEF Conserved
  <1>8. Sum(new, Wallets) = Sum(old, Wallets)
    <2> HIDE DEF a, from, to, old, new
    <2>1. /\ new[from] = old[from] - a /\ new[to] = old[to] + a
          /\ \A w \in R : new[w] = old[w]
      BY <1>1, <1>2, <1>4, <1>5
    <2>2. old[from] \in Int /\ old[to] \in Int /\ \A w \in Wallets : old[w] \in Int
      BY <1>1, <1>2, <1>5
    <2>3. \A w \in Wallets : new[w] \in Int
      BY <1>5, <2>1, <2>2
    <2>4. IsFiniteSet(R)
      BY <1>6, FS_Subset
    <2>5. Sum(old, Wallets) = old[from] + (old[to] + Sum(old, R)) /\ Sum(old, R) \in Int
      BY <1>1, <1>2, <1>6, <2>2, SumTwo
    <2>6. Sum(new, Wallets) = new[from] + (new[to] + Sum(new, R))
      BY <1>1, <1>2, <1>6, <2>3, SumTwo
    <2> HIDE DEF R
    <2>7. Sum(new, R) = Sum(old, R)
      BY <2>1, <2>4, SumSame
    <2>8. \A f, t, r, d \in Int : (f - d) + ((t + d) + r) = f + (t + r)
      OBVIOUS
    <2> QED
      BY <1>5, <2>1, <2>2, <2>5, <2>6, <2>7, <2>8
  <1> QED
    BY <1>7, <1>8 DEF Conserved

\* Money is neither made nor lost, for any number of requests and any finite number of
\* wallets (handler.go:290-325).
THEOREM MoneyStays == Spec => []MoneyConserved
  <1>1. Init => Conserved
    BY DEF Init, Conserved
  <1>2. IInv /\ Conserved /\ [Next]_vars => Conserved'
    <2> SUFFICES ASSUME IInv, Conserved, [Next]_vars PROVE Conserved'
      OBVIOUS
    <2>1. CASE UNCHANGED balance
      BY <2>1 DEF Conserved
    <2>2. ASSUME NEW p \in Requests, TransferCommit(p) PROVE Conserved'
      BY <2>2, TransferConserves
    <2>3. ASSUME NEW p \in Requests, Acts(p), ~TransferCommit(p) PROVE UNCHANGED balance
      BY <2>3 DEF Acts, BeginHold, BeginRelease, BeginTransfer, HoldLockWallet, HoldRefuse, HoldPlace,
                  LockHold, ReleaseLedger, ReleaseCommit, TransferLockSource, TransferLockRecipient,
                  Rollback, tables
    <2>4. UNCHANGED vars => UNCHANGED balance
      BY DEF vars, tables
    <2> QED
      BY StepCases, <2>1, <2>2, <2>3, <2>4
  <1>3. Conserved => MoneyConserved
    BY FundsAreSum DEF Conserved, MoneyConserved
  <1> QED
    BY <1>1, <1>2, <1>3, Invariance, PTL DEF Spec
=============================================================================
