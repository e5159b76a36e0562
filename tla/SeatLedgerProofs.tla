-------------------------- MODULE SeatLedgerProofs --------------------------
(* The ledger of an event balances, however many tickets and seats it has. *)
EXTENDS SeatLedger, FiniteSetTheorems, TLAPS

\* Seats with the amounts as a parameter, and how many they are.
SeatsOf(T, a, k) == {s \in T \X (1..MaxQty) : s[2] <= a[s[1]][k]}
Count(T, a, k) == Cardinality(SeatsOf(T, a, k))

\* The seats of any tickets are finitely many.
LEMMA SeatsFinite ==
    ASSUME NEW T \in SUBSET Tickets, NEW a, NEW k
    PROVE  IsFiniteSet(SeatsOf(T, a, k)) /\ Count(T, a, k) \in Nat
<1>1. IsFiniteSet(T)
  BY FS_Subset, LedgerAssumption
<1>2. IsFiniteSet(1..MaxQty)
  BY FS_Interval, LedgerAssumption
<1>3. IsFiniteSet(T \X (1..MaxQty))
  BY <1>1, <1>2, FS_Product
<1>4. SeatsOf(T, a, k) \in SUBSET (T \X (1..MaxQty))
  BY DEF SeatsOf
<1> QED BY <1>3, <1>4, FS_Subset, FS_CardinalityType DEF Count

\* The seats of one ticket are as many as its amount says.
LEMMA SeatsOfOne ==
    ASSUME NEW t \in Tickets, NEW a \in [Tickets -> Amounts], NEW k \in Kinds
    PROVE  Count({t}, a, k) = a[t][k]
<1> DEFINE n == a[t][k]
<1>1. n \in 0..MaxQty /\ MaxQty \in Nat
  BY LedgerAssumption DEF Amounts
<1>2. SeatsOf({t}, a, k) = {t} \X (1..n)
  BY <1>1 DEF SeatsOf
<1>3. IsFiniteSet(1..n) /\ Cardinality(1..n) = n
  <2>1. n \in Int /\ 1 \in Int /\ n >= 0
    BY <1>1
  <2> HIDE DEF n
  <2>2. /\ IsFiniteSet(1..n)
        /\ Cardinality(1..n) = IF 1 > n THEN 0 ELSE n - 1 + 1
    BY <2>1, FS_Interval
  <2> QED BY <2>1, <2>2
<1>4. IsFiniteSet({t}) /\ Cardinality({t}) = 1
  BY FS_Singleton
<1>5. Cardinality({t} \X (1..n)) = 1 * n
  <2> HIDE DEF n
  <2> QED BY <1>3, <1>4, FS_Product
<1>6. 1 * n = n
  BY <1>1
<1> QED BY <1>2, <1>5, <1>6 DEF Count

\* With the amounts b, U is the tickets T with the amounts a and ticket t.
Joined(U, b, T, a, t) ==
    /\ T \in SUBSET Tickets /\ t \in Tickets
    /\ a \in [Tickets -> Amounts] /\ b \in [Tickets -> Amounts]
    /\ t \notin T /\ U = T \cup {t}
    /\ \A x \in T : b[x] = a[x]

\* A ticket that joins others brings its own seats and nothing else.
LEMMA SeatsJoin ==
    ASSUME NEW U, NEW b, NEW T, NEW a, NEW t, Joined(U, b, T, a, t), NEW k \in Kinds
    PROVE  Count(U, b, k) = Count(T, a, k) + b[t][k]
<1> DEFINE Old == SeatsOf(T, a, k)
           One == SeatsOf({t}, b, k)
<1>1. SeatsOf(U, b, k) = Old \cup One
  BY DEF SeatsOf, Joined
<1>2. Old \cap One = {}
  BY DEF SeatsOf, Joined
<1>3. IsFiniteSet(Old) /\ IsFiniteSet(One) /\ Cardinality(Old) \in Nat
      /\ Cardinality(One) \in Nat
  BY SeatsFinite DEF Count, Joined
<1>4. Cardinality(One) = b[t][k]
  BY SeatsOfOne DEF Count, Joined
<1>5. Cardinality(Old \cup One) = Cardinality(Old) + Cardinality(One)
  <2> HIDE DEF Old, One
  <2>1. Cardinality(Old \cup One)
          = Cardinality(Old) + Cardinality(One) - Cardinality(Old \cap One)
    BY <1>3, FS_Union
  <2>2. Cardinality(Old \cap One) = 0
    BY <1>2, FS_EmptySet
  <2> QED BY <1>3, <2>1, <2>2
<1> QED BY <1>1, <1>4, <1>5 DEF Count

\* Tickets that keep their amounts keep their seats.
LEMMA SeatsSame ==
    ASSUME NEW T \in SUBSET Tickets, NEW a, NEW b, \A x \in T : b[x] = a[x], NEW k
    PROVE  Count(T, b, k) = Count(T, a, k)
<1>1. SeatsOf(T, b, k) = SeatsOf(T, a, k)
  BY DEF SeatsOf
<1> QED BY <1>1 DEF Count
-----------------------------------------------------------------------------
\* One step keeps the types.
LEMMA LedgerTypedStep == TypeOK /\ [Next]_vars => TypeOK'
<1> USE LedgerAssumption DEF TypeOK, Places, Amounts, Nothing, More, Less
<1> SUFFICES ASSUME TypeOK, [Next]_vars PROVE TypeOK'
  OBVIOUS
<1>1. ASSUME NEW t \in Tickets, Sell(t) PROVE TypeOK'
  BY <1>1 DEF Sell
<1>2. ASSUME NEW t \in Tickets, Release(t) PROVE TypeOK'
  BY <1>2 DEF Release
<1>3. ASSUME NEW t \in Tickets, Return(t) PROVE TypeOK'
  BY <1>3 DEF Return
<1>4. ASSUME NEW t \in Tickets, NEW q \in Amounts, Hold(t, q) PROVE TypeOK'
  BY <1>4 DEF Hold
<1>5. ASSUME NEW t \in Tickets, NEW q \in Amounts, SellDirect(t, q) PROVE TypeOK'
  BY <1>5 DEF SellDirect
<1>6. ASSUME NEW t \in Tickets, NEW q \in Amounts, Resize(t, q) PROVE TypeOK'
  BY <1>6 DEF Resize
<1>7. ASSUME NEW t \in Tickets, NEW n \in Tickets, NEW q \in Amounts, Exchange(t, n, q)
      PROVE TypeOK'
  <2>1. place' \in [Tickets -> {"none", "held", "sold"}]
    BY <1>7 DEF Exchange
  <2>2. amount' \in [Tickets -> [Kinds -> 0..MaxQty]]
    BY <1>7 DEF Exchange
  <2>3. free' \in [Kinds -> Int] /\ nonconfirm' \in [Kinds -> Int] /\ off' \in BOOLEAN
    BY <1>7 DEF Exchange
  <2> QED BY <2>1, <2>2, <2>3
<1>8. CASE WriteOff
  BY <1>8 DEF WriteOff
<1>9. CASE UNCHANGED vars
  BY <1>9 DEF vars
<1> QED BY <1>1, <1>2, <1>3, <1>4, <1>5, <1>6, <1>7, <1>8, <1>9 DEF Next

\* Type correctness of the ledger.
THEOREM LedgerTyped == Spec => []TypeOK
<1>1. Init => TypeOK
  <2> SUFFICES ASSUME Init PROVE TypeOK
    OBVIOUS
  <2>1. Nothing \in Amounts /\ Nothing \in [Kinds -> Int]
    BY LedgerAssumption DEF Nothing, Amounts
  <2>2. Capacity \in [Kinds -> Int]
    BY LedgerAssumption
  <2>3. place \in [Tickets -> Places]
    BY DEF Init, Places
  <2> QED BY <2>1, <2>2, <2>3 DEF Init, TypeOK
<1> QED BY <1>1, LedgerTypedStep, PTL DEF Spec
-----------------------------------------------------------------------------
\* Balanced, with the counts of the lemmas.
BalancedAt(k) ==
    /\ free[k] + Count(Taken, amount, k) = Capacity[k]
    /\ nonconfirm[k] = Count(Held, amount, k)

(***************************************************************************)
(* Balanced is inductive together with the types.  Each action moves one   *)
(* ticket in or out of Taken and Held, and SeatsJoin says what that does   *)
(* to the counts.                                                          *)
(***************************************************************************)
LEMMA BalancedStep == TypeOK /\ Balanced /\ [Next]_vars => Balanced'
<1> SUFFICES ASSUME TypeOK, Balanced, [Next]_vars, ~off', NEW k \in Kinds
             PROVE  BalancedAt(k)'
  BY DEF Balanced, BalancedAt, Count, SeatsOf, Seats
<1>1. TypeOK'
  BY LedgerTypedStep
<1>2. ~off
  BY DEF Next, vars, Sell, Release, Return, Hold, SellDirect, Resize, Exchange, WriteOff
<1>3. BalancedAt(k)
  BY <1>2 DEF Balanced, BalancedAt, Count, SeatsOf, Seats
<1>4. /\ Taken \in SUBSET Tickets /\ Held \in SUBSET Tickets
      /\ Taken' \in SUBSET Tickets /\ Held' \in SUBSET Tickets
  BY DEF Taken, Held
<1>5. /\ amount \in [Tickets -> Amounts] /\ amount' \in [Tickets -> Amounts]
  BY <1>1 DEF TypeOK
<1>6. /\ free[k] \in Int /\ nonconfirm[k] \in Int /\ Capacity[k] \in Int
      /\ \A t \in Tickets : amount[t][k] \in Int /\ amount'[t][k] \in Int
  BY <1>1, LedgerAssumption DEF TypeOK, Amounts
<1>7. \A T \in SUBSET Tickets : Count(T, amount, k) \in Int /\ Count(T, amount', k) \in Int
  BY SeatsFinite
<1>a. ASSUME NEW t \in Tickets, NEW q \in Amounts, Hold(t, q) PROVE BalancedAt(k)'
  <2>1. /\ t \notin Taken /\ t \notin Held
        /\ Taken' = Taken \cup {t} /\ Held' = Held \cup {t}
    BY <1>a DEF Hold, TypeOK, Taken, Held
  <2>2. amount'[t] = q /\ \A x \in Tickets : x # t => amount'[x] = amount[x]
    BY <1>a DEF Hold, TypeOK
  <2>3. /\ Joined(Taken', amount', Taken, amount, t)
        /\ Joined(Held', amount', Held, amount, t)
    BY <1>4, <1>5, <2>1, <2>2 DEF Joined
  <2>5. /\ Count(Taken', amount', k) = Count(Taken, amount, k) + amount'[t][k]
        /\ Count(Held', amount', k) = Count(Held, amount, k) + amount'[t][k]
    BY <2>3, SeatsJoin
  <2>4. free'[k] = free[k] - q[k] /\ nonconfirm'[k] = nonconfirm[k] + q[k]
    BY <1>a DEF Hold, More, Less
  <2> QED BY <1>3, <1>4, <1>6, <1>7, <2>2, <2>4, <2>5 DEF BalancedAt
<1>b. ASSUME NEW t \in Tickets, Sell(t) PROVE BalancedAt(k)'
  <2>1. /\ Taken' = Taken /\ Held = Held' \cup {t} /\ t \notin Held'
    BY <1>b DEF Sell, TypeOK, Taken, Held
  <2>2. amount' = amount
    BY <1>b DEF Sell
  <2>3. Joined(Held, amount, Held', amount, t)
    BY <1>4, <1>5, <2>1 DEF Joined
  <2>5. Count(Held, amount, k) = Count(Held', amount, k) + amount[t][k]
    BY <2>3, SeatsJoin
  <2>4. free'[k] = free[k] /\ nonconfirm'[k] = nonconfirm[k] - amount[t][k]
    BY <1>b DEF Sell, Less
  <2>6. /\ Count(Taken', amount', k) = Count(Taken, amount, k)
        /\ Count(Held', amount', k) = Count(Held', amount, k)
    BY <2>1, <2>2
  <2>7. Count(Held', amount, k) \in Int
    BY <1>4, <1>7
  <2> QED BY <1>3, <1>6, <2>4, <2>5, <2>6, <2>7 DEF BalancedAt
<1>c. ASSUME NEW t \in Tickets, NEW q \in Amounts, SellDirect(t, q) PROVE BalancedAt(k)'
  <2>1. t \notin Taken /\ t \notin Held /\ Taken' = Taken \cup {t} /\ Held' = Held
    BY <1>c DEF SellDirect, TypeOK, Taken, Held
  <2>2. amount'[t] = q /\ \A x \in Tickets : x # t => amount'[x] = amount[x]
    BY <1>c DEF SellDirect, TypeOK
  <2>3. Joined(Taken', amount', Taken, amount, t)
    BY <1>4, <1>5, <2>1, <2>2 DEF Joined
  <2>6. Count(Taken', amount', k) = Count(Taken, amount, k) + amount'[t][k]
    BY <2>3, SeatsJoin
  <2>4. Count(Held', amount', k) = Count(Held, amount, k)
    BY <1>4, <2>1, <2>2, SeatsSame
  <2>5. free'[k] = free[k] - q[k] /\ nonconfirm'[k] = nonconfirm[k]
    BY <1>c DEF SellDirect, Less
  <2> QED BY <1>3, <1>4, <1>6, <1>7, <2>2, <2>4, <2>5, <2>6 DEF BalancedAt
<1>d. ASSUME NEW t \in Tickets, Release(t) PROVE BalancedAt(k)'
  <2>1. /\ t \notin Taken' /\ t \notin Held'
        /\ Taken = Taken' \cup {t} /\ Held = Held' \cup {t}
    BY <1>d DEF Release, TypeOK, Taken, Held
  <2>2. \A x \in Tickets : x # t => amount'[x] = amount[x]
    BY <1>d DEF Release, TypeOK
  <2>3. /\ Joined(Taken, amount, Taken', amount', t)
        /\ Joined(Held, amount, Held', amount', t)
    BY <1>4, <1>5, <2>1, <2>2 DEF Joined
  <2>5. /\ Count(Taken, amount, k) = Count(Taken', amount', k) + amount[t][k]
        /\ Count(Held, amount, k) = Count(Held', amount', k) + amount[t][k]
    BY <2>3, SeatsJoin
  <2>4. /\ free'[k] = free[k] + amount[t][k]
        /\ nonconfirm'[k] = nonconfirm[k] - amount[t][k]
    BY <1>d DEF Release, More, Less
  <2> QED BY <1>3, <1>4, <1>6, <1>7, <2>4, <2>5 DEF BalancedAt
<1>e. ASSUME NEW t \in Tickets, Return(t) PROVE BalancedAt(k)'
  <2>1. /\ t \notin Taken' /\ Taken = Taken' \cup {t} /\ Held' = Held /\ t \notin Held
    BY <1>e DEF Return, TypeOK, Taken, Held
  <2>2. \A x \in Tickets : x # t => amount'[x] = amount[x]
    BY <1>e DEF Return, TypeOK
  <2>3. Joined(Taken, amount, Taken', amount', t)
    BY <1>4, <1>5, <2>1, <2>2 DEF Joined
  <2>6. Count(Taken, amount, k) = Count(Taken', amount', k) + amount[t][k]
    BY <2>3, SeatsJoin
  <2>4. Count(Held', amount', k) = Count(Held, amount, k)
    BY <1>4, <2>1, <2>2, SeatsSame
  <2>5. free'[k] = free[k] + amount[t][k] /\ nonconfirm'[k] = nonconfirm[k]
    BY <1>e DEF Return, More
  <2> QED BY <1>3, <1>4, <1>6, <1>7, <2>4, <2>5, <2>6 DEF BalancedAt
<1>f. ASSUME NEW t \in Tickets, NEW q \in Amounts, Resize(t, q) PROVE BalancedAt(k)'
  <2> DEFINE Rest == Taken \ {t}
  <2>1. /\ Taken = Rest \cup {t} /\ Taken' = Taken /\ t \notin Rest
        /\ Held' = Held /\ t \notin Held /\ Rest \in SUBSET Tickets
    BY <1>f DEF Resize, TypeOK, Taken, Held
  <2>2. amount'[t] = q /\ \A x \in Tickets : x # t => amount'[x] = amount[x]
    BY <1>f DEF Resize, TypeOK
  <2>8. /\ Joined(Taken, amount, Rest, amount, t)
        /\ Joined(Taken', amount', Rest, amount, t)
    BY <1>5, <2>1, <2>2 DEF Joined
  <2>3. Count(Taken, amount, k) = Count(Rest, amount, k) + amount[t][k]
    BY <2>8, SeatsJoin
  <2>4. Count(Taken', amount', k) = Count(Rest, amount, k) + amount'[t][k]
    BY <2>8, SeatsJoin
  <2>5. Count(Held', amount', k) = Count(Held, amount, k)
    BY <1>4, <2>1, <2>2, SeatsSame
  <2>6. free'[k] = free[k] + amount[t][k] - q[k] /\ nonconfirm'[k] = nonconfirm[k]
    <3>1. free' = Less(More(free, amount[t]), q) /\ nonconfirm' = nonconfirm
      BY <1>f DEF Resize
    <3>2. Less(More(free, amount[t]), q)[k] = More(free, amount[t])[k] - q[k]
      BY DEF Less
    <3>3. More(free, amount[t])[k] = free[k] + amount[t][k]
      BY DEF More
    <3>4. q[k] \in Int
      BY DEF Amounts
    <3> QED BY <1>6, <3>1, <3>2, <3>3, <3>4
  <2>7. Count(Rest, amount, k) \in Int
    BY <1>7, <2>1
  <2> HIDE DEF Rest
  <2> QED BY <1>3, <1>6, <2>2, <2>3, <2>4, <2>5, <2>6, <2>7 DEF BalancedAt
<1>g. ASSUME NEW t \in Tickets, NEW n \in Tickets, NEW q \in Amounts, Exchange(t, n, q)
      PROVE  BalancedAt(k)'
  <2> DEFINE Rest == Taken \ {t}
  <2>1. /\ t # n /\ Taken = Rest \cup {t} /\ Taken' = Rest \cup {n}
        /\ t \notin Rest /\ n \notin Rest /\ Rest \in SUBSET Tickets
        /\ Held' = Held /\ t \notin Held /\ n \notin Held
    BY <1>g DEF Exchange, TypeOK, Taken, Held
  <2>2. /\ amount'[n] = q
        /\ \A x \in Tickets : x # t /\ x # n => amount'[x] = amount[x]
    BY <1>g DEF Exchange, TypeOK
  <2>8. /\ Joined(Taken, amount, Rest, amount, t)
        /\ Joined(Taken', amount', Rest, amount, n)
    BY <1>5, <2>1, <2>2 DEF Joined
  <2>3. Count(Taken, amount, k) = Count(Rest, amount, k) + amount[t][k]
    BY <2>8, SeatsJoin
  <2>4. Count(Taken', amount', k) = Count(Rest, amount, k) + amount'[n][k]
    BY <2>8, SeatsJoin
  <2>5. Count(Held', amount', k) = Count(Held, amount, k)
    BY <1>4, <2>1, <2>2, SeatsSame
  <2>6. free'[k] = free[k] + amount[t][k] - q[k] /\ nonconfirm'[k] = nonconfirm[k]
    <3>1. free' = Less(More(free, amount[t]), q) /\ nonconfirm' = nonconfirm
      BY <1>g DEF Exchange
    <3>2. Less(More(free, amount[t]), q)[k] = More(free, amount[t])[k] - q[k]
      BY DEF Less
    <3>3. More(free, amount[t])[k] = free[k] + amount[t][k]
      BY DEF More
    <3>4. q[k] \in Int
      BY DEF Amounts
    <3> QED BY <1>6, <3>1, <3>2, <3>3, <3>4
  <2>7. Count(Rest, amount, k) \in Int
    BY <1>7, <2>1
  <2> HIDE DEF Rest
  <2> QED BY <1>3, <1>6, <2>2, <2>3, <2>4, <2>5, <2>6, <2>7 DEF BalancedAt
<1>h. CASE UNCHANGED vars
  <2>1. Taken' = Taken /\ Held' = Held /\ amount' = amount /\ free' = free
        /\ nonconfirm' = nonconfirm
    BY <1>h DEF vars, Taken, Held
  <2> QED BY <1>3, <2>1 DEF BalancedAt
<1>i. ~WriteOff
  BY DEF WriteOff
<1> QED BY <1>a, <1>b, <1>c, <1>d, <1>e, <1>f, <1>g, <1>h, <1>i DEF Next

\* The counters of the event agree with its tickets, in every reachable
\* state and whatever the capacity, the tickets and the kinds of seat.
THEOREM LedgerBalanced == Spec => []Balanced
<1>1. Init => Balanced
  <2> SUFFICES ASSUME Init, NEW k \in Kinds PROVE BalancedAt(k)
    BY DEF Balanced, BalancedAt, Count, SeatsOf, Seats
  <2>1. Taken = {} /\ Held = {}
    BY DEF Init, Taken, Held
  <2>2. Count({}, amount, k) = 0
    BY FS_EmptySet DEF Count, SeatsOf
  <2>3. free[k] = Capacity[k] /\ nonconfirm[k] = 0 /\ Capacity[k] \in Int
    BY LedgerAssumption DEF Init, Nothing
  <2> QED BY <2>1, <2>2, <2>3 DEF BalancedAt
<1>2. TypeOK /\ Balanced /\ [Next]_vars => Balanced'
  BY BalancedStep
<1> QED BY <1>1, <1>2, LedgerTyped, PTL DEF Spec
=============================================================================
