---------------------------- MODULE LedgerProofs ----------------------------
(***************************************************************************)
(* The ceilings of the model-call budget hold for any number of calls,     *)
(* sessions, limits, claims and prices.                                    *)
(*                                                                         *)
(* What makes it so: what a row counts for within its claim never grows    *)
(* once it is written (it is the claim, then the smaller of claim and      *)
(* cost, then nothing), and while a call holds the lock nobody writes a    *)
(* row.  So the room that its check found is still there when it claims,   *)
(* and the row that it then writes is the one row a ceiling is overshot    *)
(* by.                                                                     *)
(*                                                                         *)
(* A sum over the rows of a scope is the number of its units, for facts    *)
(* about finite sets to apply to it.                                       *)
(***************************************************************************)
EXTENDS Ledger, FiniteSetTheorems, WellFoundedInduction, TLAPS

---------------------------------------------------------------------------
\* Sums

\* The units that the elements of a set add up to, each with the element it belongs to.
Units(f, S) == {u \in S \X Nat : 1 <= u[2] /\ u[2] <= f[u[1]]}

Total(f, S) ==
    LET sum[T \in SUBSET S] ==
            IF T = {} THEN 0
            ELSE f[CHOOSE c \in T : TRUE] + sum[T \ {CHOOSE c \in T : TRUE}]
    IN  sum[S]

\* Every non-empty set of numbers has a least one.
LEMMA LeastNumber ==
  ASSUME NEW S \in SUBSET Nat, S # {}
  PROVE  \E n \in S : \A m \in S : n <= m
  <1> DEFINE R == OpToRel(<, Nat)
  <1>1. IsWellFoundedOn(R, Nat)
    BY NatLessThanWellFounded
  <1>2. \A n, m \in Nat : m < n => <<m, n>> \in R
    BY DEF OpToRel
  <1> HIDE DEF R
  <1>3. PICK n \in S : \A m \in S : ~(<<m, n>> \in R)
    BY <1>1, WFMin
  <1>4. \A m \in S : n <= m
    <2>1. SUFFICES ASSUME NEW m \in S PROVE n <= m
      OBVIOUS
    <2>2. n \in Nat /\ m \in Nat
      OBVIOUS
    <2>3. ~(m < n)
      BY <1>2, <1>3, <2>2, Zenon
    <2>4. QED
      BY <2>2, <2>3
  <1>5. QED
    BY <1>4

\* The units of a finite set are finitely many when there is a bound on each element's.
LEMMA UnitsFinite ==
  ASSUME NEW S, IsFiniteSet(S), NEW B \in Nat, NEW f, \A c \in S : f[c] \in 0 .. B
  PROVE  IsFiniteSet(Units(f, S)) /\ Cardinality(Units(f, S)) \in Nat
  <1>1. IsFiniteSet(1 .. B)
    BY FS_Interval
  <1>2. IsFiniteSet(S \X (1 .. B))
    BY <1>1, FS_Product
  <1>3. Units(f, S) \subseteq S \X (1 .. B)
    BY DEF Units
  <1>4. QED
    BY <1>2, <1>3, FS_Subset, FS_CardinalityType

\* One element's units, and the rest.
LEMMA UnitsSplit ==
  ASSUME NEW S, IsFiniteSet(S), NEW B \in Nat, NEW f, \A c \in S : f[c] \in 0 .. B, NEW x \in S
  PROVE  Cardinality(Units(f, S)) = f[x] + Cardinality(Units(f, S \ {x}))
  <1> DEFINE own == {x} \X (1 .. f[x])
             rest == Units(f, S \ {x})
  <1>1. f[x] \in Nat
    OBVIOUS
  <1>2. IsFiniteSet(own) /\ Cardinality(own) = f[x]
    <2>1. IsFiniteSet(1 .. f[x]) /\ Cardinality(1 .. f[x]) = f[x]
      <3>1. PICK n \in Nat : n = f[x]
        BY <1>1
      <3>2. IsFiniteSet(1 .. n) /\ Cardinality(1 .. n) = IF 1 > n THEN 0 ELSE n - 1 + 1
        BY FS_Interval
      <3>3. Cardinality(1 .. n) = n
        BY <3>2
      <3>4. QED
        BY <3>1, <3>2, <3>3
    <2>2. IsFiniteSet({x}) /\ Cardinality({x}) = 1
      BY FS_Singleton
    <2>3. IsFiniteSet(own) /\ Cardinality(own) = Cardinality({x}) * Cardinality(1 .. f[x])
      BY <2>1, <2>2, FS_Product
    <2>4. QED
      BY <1>1, <2>1, <2>2, <2>3
  <1>3. IsFiniteSet(rest) /\ Cardinality(rest) \in Nat
    <2>1. IsFiniteSet(S \ {x})
      BY FS_RemoveElement
    <2>2. QED
      BY <2>1, UnitsFinite
  <1>4. Units(f, S) = own \cup rest
    BY <1>1 DEF Units
  <1>5. own \cap rest = {}
    BY DEF Units
  <1> HIDE DEF own, rest
  <1>6. Cardinality(own \cup rest) = Cardinality(own) + Cardinality(rest) - Cardinality(own \cap rest)
    BY <1>2, <1>3, FS_Union
  <1>7. Cardinality(own \cap rest) = 0
    BY <1>5, FS_EmptySet
  <1>8. Cardinality(own \cup rest) = f[x] + Cardinality(rest)
    BY <1>1, <1>2, <1>3, <1>6, <1>7
  <1>9. QED
    BY <1>4, <1>8 DEF rest

LEMMA NoUnits == ASSUME NEW f PROVE Cardinality(Units(f, {})) = 0
  <1>1. Units(f, {}) = {}
    BY DEF Units
  <1>2. QED
    BY <1>1, FS_EmptySet

\* A sum is the number of its units: the numbers of units solve the sum's recursion, and
\* what else solved it would differ first at some least set.
LEMMA TotalIsUnits ==
  ASSUME NEW S, IsFiniteSet(S), NEW B \in Nat, NEW f, \A c \in S : f[c] \in 0 .. B
  PROVE  Total(f, S) = Cardinality(Units(f, S))
  <1> DEFINE one(T) == CHOOSE c \in T : TRUE
             next(g, T) == IF T = {} THEN 0 ELSE f[one(T)] + g[T \ {one(T)}]
             Solves(g) == g = [T \in SUBSET S |-> next(g, T)]
             count == [T \in SUBSET S |-> Cardinality(Units(f, T))]
  <1>1. ASSUME NEW T \in SUBSET S, T # {}
        PROVE  one(T) \in T /\ T \ {one(T)} \in SUBSET S
    BY <1>1
  <1>2. \A T \in SUBSET S : IsFiniteSet(T) /\ Cardinality(T) \in Nat
    BY FS_Subset, FS_CardinalityType
  <1> HIDE DEF one
  <1>3. \A T \in SUBSET S : count[T] = next(count, T)
    <2>1. SUFFICES ASSUME NEW T \in SUBSET S PROVE count[T] = next(count, T)
      OBVIOUS
    <2>2. CASE T = {}
      BY <2>2, NoUnits
    <2>3. CASE T # {}
      <3>1. one(T) \in T /\ T \ {one(T)} \in SUBSET S
        BY <1>1, <2>3
      <3>2. Cardinality(Units(f, T)) = f[one(T)] + Cardinality(Units(f, T \ {one(T)}))
        BY <1>2, <3>1, UnitsSplit
      <3>3. QED
        BY <2>3, <3>1, <3>2
    <2>4. QED
      BY <2>2, <2>3
  <1>4. Solves(count)
    <2>1. count = [T \in SUBSET S |-> next(count, T)]
      <3>1. count = [T \in SUBSET S |-> count[T]]
        OBVIOUS
      <3> HIDE DEF count, next
      <3>2. QED
        BY <1>3, <3>1
    <2>2. QED
      BY <2>1
  <1> HIDE DEF count
  <1> DEFINE sum == CHOOSE g : Solves(g)
  <1>5. Solves(sum)
    BY <1>4
  <1>6. Total(f, S) = sum[S]
    BY DEF Total, one
  <1> HIDE DEF sum
  <1>7. \A T \in SUBSET S : sum[T] = next(sum, T)
    <2> HIDE DEF next
    <2>1. QED
      BY <1>5
  <1> DEFINE wrong == {n \in Nat : \E T \in SUBSET S : Cardinality(T) = n /\ sum[T] # count[T]}
  <1>8. wrong = {}
    <2>1. SUFFICES ASSUME wrong # {} PROVE FALSE
      OBVIOUS
    <2>2. PICK n \in wrong : \A m \in wrong : n <= m
      <3>1. wrong \in SUBSET Nat
        OBVIOUS
      <3> HIDE DEF wrong
      <3>2. QED
        BY <2>1, <3>1, LeastNumber
    <2>3. PICK T \in SUBSET S : Cardinality(T) = n /\ sum[T] # count[T]
      OBVIOUS
    <2>4. T # {}
      BY <1>3, <1>7, <2>3
    <2> DEFINE less == T \ {one(T)}
    <2>5. one(T) \in T /\ less \in SUBSET S
      BY <1>1, <2>4
    <2>6. Cardinality(less) = n - 1 /\ Cardinality(less) \in Nat
      BY <1>2, <2>3, <2>5, FS_RemoveElement
    <2>7. sum[less] = count[less]
      <3>1. n \in Nat
        OBVIOUS
      <3>2. ~(n <= n - 1)
        BY <3>1
      <3>3. Cardinality(less) \notin wrong
        <4> HIDE DEF wrong, less
        <4>1. QED
          BY <2>2, <2>6, <3>2
      <3>4. QED
        BY <2>5, <2>6, <3>3
    <2>8. sum[T] = count[T]
      BY <1>3, <1>7, <2>4, <2>7
    <2>9. QED
      BY <2>3, <2>8
  <1>9. sum[S] = count[S]
    BY <1>2, <1>8
  <1>10. QED
    BY <1>6, <1>9 DEF count

\* What sums of elements within bounds are like: natural, no greater for smaller elements or
\* for fewer of them, and nothing for none.
LEMMA TotalNat ==
  ASSUME NEW S, IsFiniteSet(S), NEW B \in Nat, NEW f, \A c \in S : f[c] \in 0 .. B
  PROVE  Total(f, S) \in Nat
  BY TotalIsUnits, UnitsFinite

LEMMA TotalSmaller ==
  ASSUME NEW S, IsFiniteSet(S), NEW R \in SUBSET S, NEW B \in Nat, NEW f, NEW g,
         \A c \in S : f[c] \in 0 .. B, \A c \in R : g[c] \in 0 .. B /\ g[c] <= f[c]
  PROVE  Total(g, R) <= Total(f, S)
  <1>1. IsFiniteSet(R)
    BY FS_Subset
  <1>2. Units(g, R) \subseteq Units(f, S)
    <2>1. SUFFICES ASSUME NEW u \in Units(g, R) PROVE u \in Units(f, S)
      OBVIOUS
    <2>2. u \in R \X Nat /\ u[1] \in R /\ u[2] \in Nat /\ 1 <= u[2] /\ u[2] <= g[u[1]]
      BY DEF Units
    <2>3. g[u[1]] \in Nat /\ f[u[1]] \in Nat /\ g[u[1]] <= f[u[1]]
      BY <2>2
    <2>4. u[2] <= f[u[1]]
      BY <2>2, <2>3
    <2>5. QED
      BY <2>2, <2>4 DEF Units
  <1>3. IsFiniteSet(Units(f, S))
    BY UnitsFinite
  <1>4. Cardinality(Units(g, R)) <= Cardinality(Units(f, S))
    BY <1>2, <1>3, FS_Subset
  <1>5. Total(g, R) = Cardinality(Units(g, R))
    BY <1>1, TotalIsUnits
  <1>6. Total(f, S) = Cardinality(Units(f, S))
    BY TotalIsUnits
  <1>7. QED
    BY <1>4, <1>5, <1>6

LEMMA TotalOfNone == ASSUME NEW f PROVE Total(f, {}) = 0
  <1>1. IsFiniteSet({})
    BY FS_EmptySet
  <1>2. \A c \in {} : f[c] \in 0 .. 0
    OBVIOUS
  <1>3. QED
    BY <1>1, <1>2, TotalIsUnits, NoUnits

---------------------------------------------------------------------------
\* What the rows add up to

Top == MaxClaim + MaxCost  \* no row counts for more
Spends == [c \in Calls |-> Contribution(rows[c])]
Keeps == [c \in Calls |-> Accounted(c)]

LEMMA SpentIs ==
  ASSUME NEW scope
  PROVE  Spent(scope) = Total(Spends, RowsIn(scope))
  <1> DEFINE S == RowsIn(scope)
             one(T) == CHOOSE c \in T : TRUE
             body(g) == [T \in SUBSET S |->
                            IF T = {} THEN 0 ELSE Contribution(rows[one(T)]) + g[T \ {one(T)}]]
             Body(g) == [T \in SUBSET S |->
                            IF T = {} THEN 0 ELSE Spends[one(T)] + g[T \ {one(T)}]]
  <1>1. S \subseteq Calls
    BY DEF RowsIn
  <1> HIDE DEF S
  <1>2. \A T \in SUBSET S : T # {} => Contribution(rows[one(T)]) = Spends[one(T)]
    <2>1. SUFFICES ASSUME NEW T \in SUBSET S, T # {} PROVE Contribution(rows[one(T)]) = Spends[one(T)]
      OBVIOUS
    <2>2. one(T) \in T
      BY <2>1
    <2>3. one(T) \in Calls
      BY <1>1, <2>2
    <2> HIDE DEF one
    <2>4. QED
      BY <2>3 DEF Spends
  <1> HIDE DEF one
  <1>3. ASSUME NEW g PROVE body(g) = Body(g)
    BY <1>2
  <1> HIDE DEF body, Body
  <1>4. (CHOOSE g : g = body(g)) = (CHOOSE g : g = Body(g))
    BY <1>3, Zenon
  <1>5. Spent(scope) = (CHOOSE g : g = body(g))[S]
    BY DEF Spent, MapThenSumSet, MapThenFoldSet, S, body, one
  <1>6. Total(Spends, S) = (CHOOSE g : g = Body(g))[S]
    BY DEF Total, Body, one
  <1>7. QED
    BY <1>4, <1>5, <1>6 DEF S

LEMMA KeptIs ==
  ASSUME NEW S, S \subseteq Calls
  PROVE  MapThenSumSet(Accounted, S) = Total(Keeps, S)
  <1> DEFINE one(T) == CHOOSE c \in T : TRUE
             body(g) == [T \in SUBSET S |->
                            IF T = {} THEN 0 ELSE Accounted(one(T)) + g[T \ {one(T)}]]
             Body(g) == [T \in SUBSET S |->
                            IF T = {} THEN 0 ELSE Keeps[one(T)] + g[T \ {one(T)}]]
  <1>1. \A T \in SUBSET S : T # {} => Accounted(one(T)) = Keeps[one(T)]
    <2>1. SUFFICES ASSUME NEW T \in SUBSET S, T # {} PROVE Accounted(one(T)) = Keeps[one(T)]
      OBVIOUS
    <2>2. one(T) \in T
      BY <2>1
    <2>3. one(T) \in Calls
      BY <2>2
    <2> HIDE DEF one
    <2>4. QED
      BY <2>3 DEF Keeps
  <1> HIDE DEF one
  <1>2. ASSUME NEW g PROVE body(g) = Body(g)
    BY <1>1
  <1> HIDE DEF body, Body
  <1>3. (CHOOSE g : g = body(g)) = (CHOOSE g : g = Body(g))
    BY <1>2, Zenon
  <1>4. MapThenSumSet(Accounted, S) = (CHOOSE g : g = body(g))[S]
    BY DEF MapThenSumSet, MapThenFoldSet, body, one
  <1>5. Total(Keeps, S) = (CHOOSE g : g = Body(g))[S]
    BY DEF Total, Body, one
  <1>6. QED
    BY <1>3, <1>4, <1>5

---------------------------------------------------------------------------
\* The invariant

\* Where a call stands decides what row it has and who holds the lock.
Placed ==
    \A c \in Calls :
        /\ pc[c] \in {"idle", "claiming", "refused"} => rows[c] = NoRow
        /\ pc[c] = "asking" => rows[c].status = "reserved"
        /\ pc[c] = "claiming" <=> lock = c
        /\ rows[c].day <= today
        /\ rows[c].status = "reserved" => rows[c].held = claimed[c]

\* The room that was found is there as long as the lock is held.
Room == lock # Nobody => \A scope \in ScopesOf(lock) : Total(Keeps, RowsIn(scope)) < Limit(scope)

\* CeilingsHold
Ceilings ==
    \A scope \in Scopes : RowsIn(scope) # {} =>
        \E last \in RowsIn(scope) : Total(Keeps, RowsIn(scope) \ {last}) < Limit(scope)

IInv == TypeOK /\ Placed /\ Room /\ Ceilings

\* A month that begins later does not come before.
LEMMA MonthsRise ==
  ASSUME NEW a \in Nat \ {0}, NEW b \in Nat \ {0}, a <= b
  PROVE  Month(a) \in Nat /\ Month(a) <= Month(b)
  <1>1. DaysPerMonth \in Nat \ {0}
    BY LedgerAssumption
  <1>2. QED
    BY <1>1 DEF Month

\* What rows count for, and how much of it is within the claim.
LEMMA Counted ==
  ASSUME TypeOK, Placed, NEW c \in Calls
  PROVE  /\ Spends[c] \in 0 .. Top /\ Keeps[c] \in 0 .. Top /\ Keeps[c] <= Spends[c]
         /\ Keeps[c] <= claimed[c] /\ claimed[c] \in 0 .. MaxClaim /\ Top \in Nat
  <1>1. /\ MaxClaim \in Nat /\ MaxCost \in Nat
        /\ rows[c] \in Reservation \cup Record \cup {NoRow} /\ claimed[c] \in 0 .. MaxClaim
    BY LedgerAssumption DEF TypeOK
  <1>2. Contribution(rows[c]) \in 0 .. Top
    BY <1>1 DEF Contribution, Reservation, Record, NoRow, Top
  <1>3. Accounted(c) \in 0 .. Top /\ Accounted(c) <= Contribution(rows[c]) /\ Accounted(c) <= claimed[c]
    BY <1>1, <1>2 DEF Accounted, Top
  <1>4. QED
    BY <1>1, <1>2, <1>3 DEF Spends, Keeps, Top

\* A scope's rows are finitely many.
LEMMA ScopeFinite == ASSUME NEW scope PROVE RowsIn(scope) \in SUBSET Calls /\ IsFiniteSet(RowsIn(scope))
  BY LedgerAssumption, FS_Subset DEF RowsIn

LEMMA LimitNat == ASSUME NEW scope \in Scopes PROVE Limit(scope) \in Nat \ {0}
  BY LedgerAssumption DEF Limit

\* A step that adds no row to a scope and lets none count for more within its claim.
LEMMA LessIsKept ==
  ASSUME IInv, UNCHANGED session, lock' \in {lock, Nobody},
         \A scope \in Scopes : RowsIn(scope)' \subseteq RowsIn(scope),
         \A c \in Calls : Keeps'[c] \in Nat /\ Keeps'[c] <= Keeps[c]
  PROVE  Room' /\ Ceilings'
  <1> DEFINE old == Keeps
             new == Keeps'
  <1>1. Top \in Nat /\ \A c \in Calls : old[c] \in 0 .. Top /\ new[c] \in 0 .. Top /\ new[c] <= old[c]
    <2>1. \A c \in Calls : old[c] \in 0 .. Top
      BY Counted DEF IInv
    <2>2. Top \in Nat
      BY LedgerAssumption DEF Top
    <2> HIDE DEF old, new
    <2>3. \A c \in Calls : new[c] \in Nat /\ new[c] <= old[c]
      BY DEF old, new
    <2>4. QED
      BY <2>1, <2>2, <2>3
  <1> HIDE DEF old, new
  <1>2. ASSUME NEW R, NEW S \in SUBSET Calls, R \subseteq S
        PROVE  Total(new, R) <= Total(old, S) /\ Total(new, R) \in Nat /\ Total(old, S) \in Nat
    <2>1. IsFiniteSet(S) /\ IsFiniteSet(R)
      BY <1>2, LedgerAssumption, FS_Subset
    <2>2. /\ \A c \in S : old[c] \in 0 .. Top
          /\ \A c \in R : new[c] \in 0 .. Top /\ new[c] <= old[c]
      BY <1>1, <1>2
    <2>3. Total(new, R) <= Total(old, S)
      BY <1>1, <1>2, <2>1, <2>2, TotalSmaller
    <2>4. QED
      BY <1>1, <2>1, <2>2, <2>3, TotalNat
  <1>3. Room'
    <2>1. SUFFICES ASSUME lock' # Nobody, NEW scope \in ScopesOf(lock)'
                   PROVE  Total(new, RowsIn(scope)') < Limit(scope)
      BY DEF Room, new, Limit
    <2>2. lock' = lock /\ lock \in Calls /\ scope \in ScopesOf(lock)
      BY <2>1 DEF ScopesOf, IInv, TypeOK
    <2>3. scope \in Scopes
      BY <2>2 DEF ScopesOf, Scopes, IInv, TypeOK
    <2>4. Total(old, RowsIn(scope)) < Limit(scope)
      BY <2>1, <2>2 DEF IInv, Room, old
    <2>5. Total(new, RowsIn(scope)') <= Total(old, RowsIn(scope)) /\ Total(new, RowsIn(scope)') \in Nat
          /\ Total(old, RowsIn(scope)) \in Nat
      BY <1>2, <2>3, ScopeFinite
    <2>6. Limit(scope) \in Nat
      BY <2>3, LimitNat
    <2>7. QED
      BY ONLY <2>4, <2>5, <2>6
  <1>4. Ceilings'
    <2>1. SUFFICES ASSUME NEW scope \in Scopes, RowsIn(scope)' # {}
                   PROVE  \E last \in RowsIn(scope)' : Total(new, RowsIn(scope)' \ {last}) < Limit(scope)
      BY DEF Ceilings, Scopes, Limit, new
    <2>2. RowsIn(scope)' \subseteq RowsIn(scope) /\ RowsIn(scope) # {} /\ RowsIn(scope) \in SUBSET Calls
      BY <2>1, ScopeFinite
    <2>3. PICK last \in RowsIn(scope) : Total(old, RowsIn(scope) \ {last}) < Limit(scope)
      BY <2>2 DEF IInv, Ceilings, old
    <2>4. PICK one \in RowsIn(scope)' : last \in RowsIn(scope)' => one = last
      BY <2>1
    <2>5. RowsIn(scope)' \ {one} \subseteq RowsIn(scope) \ {last} /\ RowsIn(scope) \ {last} \in SUBSET Calls
      BY <2>2, <2>4
    <2>6. /\ Total(new, RowsIn(scope)' \ {one}) <= Total(old, RowsIn(scope) \ {last})
          /\ Total(new, RowsIn(scope)' \ {one}) \in Nat /\ Total(old, RowsIn(scope) \ {last}) \in Nat
      BY <1>2, <2>5
    <2>7. Limit(scope) \in Nat
      BY LimitNat
    <2>8. Total(new, RowsIn(scope)' \ {one}) < Limit(scope)
      BY ONLY <2>3, <2>6, <2>7
    <2>9. QED
      BY <2>8
  <1>5. QED
    BY <1>3, <1>4

\* A step that leaves the rows and the day alone.
LEMMA RowsStay ==
  ASSUME IInv, UNCHANGED <<today, rows, session, claimed>>, lock' \in {lock, Nobody}
  PROVE  Room' /\ Ceilings'
  <1>1. \A scope \in Scopes : RowsIn(scope)' = RowsIn(scope)
    BY DEF RowsIn, InScope
  <1>2. Keeps' = Keeps
    BY DEF Keeps, Accounted
  <1>3. \A c \in Calls : Keeps[c] \in Nat
    BY Counted DEF IInv
  <1>4. \A c \in Calls : Keeps'[c] \in Nat /\ Keeps'[c] <= Keeps[c]
    BY <1>2, <1>3
  <1>5. QED
    BY <1>1, <1>4, LessIsKept

\* One row changes and stands where it stood.
LEMMA RowStep ==
  ASSUME IInv, NEW c \in Calls, NEW row \in Reservation \cup Record, rows' = [rows EXCEPT ![c] = row],
         rows[c] # NoRow, row.day = rows[c].day, UNCHANGED <<today, session, claimed, lock>>,
         row.old \/ (~rows[c].old /\ rows[c].status = "reserved")
  PROVE  Room' /\ Ceilings'
  <1>1. TypeOK /\ Placed
    BY DEF IInv
  <1>2. rows'[c] = row /\ \A d \in Calls : d # c => rows'[d] = rows[d]
    BY <1>1 DEF TypeOK
  <1>3. row # NoRow
    BY DEF NoRow, Reservation, Record
  <1>4. \A scope \in Scopes : RowsIn(scope)' \subseteq RowsIn(scope)
    <2>1. SUFFICES ASSUME NEW scope \in Scopes, NEW d \in Calls, InScope(d, scope)'
                   PROVE  InScope(d, scope)
      BY DEF RowsIn
    <2>2. CASE d = c
      BY <1>2, <1>3, <2>1, <2>2 DEF InScope
    <2>3. CASE d # c
      BY <1>2, <2>1, <2>3 DEF InScope
    <2>4. QED
      BY <2>2, <2>3
  <1>5. \A d \in Calls : Keeps'[d] \in Nat /\ Keeps'[d] <= Keeps[d]
    <2>1. SUFFICES ASSUME NEW d \in Calls PROVE Keeps'[d] \in Nat /\ Keeps'[d] <= Keeps[d]
      OBVIOUS
    <2>2. Keeps[d] \in Nat /\ Keeps[d] <= claimed[d] /\ claimed[d] \in Nat
      BY <1>1, Counted
    <2>3. Keeps[d] = Accounted(d) /\ Keeps'[d] = Accounted(d)'
      BY DEF Keeps
    <2>4. CASE d # c
      <3>1. Accounted(d)' = Accounted(d)
        BY <1>2, <2>4 DEF Accounted
      <3>2. QED
        BY <2>2, <2>3, <3>1
    <2>5. CASE d = c /\ row.old
      <3>1. Accounted(d)' = 0
        BY <1>2, <2>5 DEF Accounted
      <3>2. QED
        BY <2>2, <2>3, <3>1
    <2>6. CASE d = c /\ ~row.old
      <3>1. rows[c].status = "reserved" /\ ~rows[c].old /\ rows[c].held = claimed[c]
        BY <1>1, <2>6 DEF Placed
      <3>2. Accounted(d) = claimed[d]
        BY <2>2, <2>6, <3>1 DEF Accounted, Contribution
      <3>3. Contribution(row) \in Nat
        BY LedgerAssumption DEF Contribution, Reservation, Record
      <3>4. Accounted(d)' \in Nat /\ Accounted(d)' <= claimed[d]
        BY <1>2, <2>2, <2>6, <3>3 DEF Accounted
      <3>5. QED
        BY <2>3, <3>2, <3>4
    <2>7. QED
      BY <2>4, <2>5, <2>6
  <1>6. QED
    BY <1>4, <1>5, LessIsKept

---------------------------------------------------------------------------
\* Steps

\* A call moves to a label without a row being written.
LEMMA Moved ==
  ASSUME TypeOK, NEW c \in Calls, NEW label, Goto(c, label)
  PROVE  pc'[c] = label /\ \A d \in Calls : d # c => pc'[d] = pc[d]
  BY DEF Goto, TypeOK

LEMMA InitInvariant == Init => IInv
  <1> SUFFICES ASSUME Init PROVE IInv
    OBVIOUS
  <1>1. TypeOK
    BY LedgerAssumption DEF Init, TypeOK
  <1>2. Placed
    BY LedgerAssumption DEF Init, Placed, NoRow
  <1>3. Room
    BY DEF Init, Room
  <1>4. Ceilings
    BY DEF Init, Ceilings, RowsIn, InScope
  <1>5. QED
    BY <1>1, <1>2, <1>3, <1>4 DEF IInv

\* A check that takes the lock has seen room in every scope of its call.
LEMMA CheckStep ==
  ASSUME IInv, NEW c \in Calls, Check(c)
  PROVE  IInv'
  <1>1. TypeOK /\ Placed
    BY DEF IInv
  <1>2. UNCHANGED <<today, rows, session, claimed>> /\ pc[c] = "idle" /\ lock = Nobody
    BY DEF Check
  <1>3. PICK label \in {"claiming", "refused"} :
             /\ Goto(c, label)
             /\ label = "claiming" => lock' = c /\ \A scope \in ScopesOf(c) : Spent(scope) < Limit(scope)
             /\ label = "refused" => lock' = lock
    BY DEF Check
  <1>4. TypeOK'
    BY <1>1, <1>2, <1>3 DEF TypeOK, Goto
  <1>5. Placed'
    <2>1. SUFFICES ASSUME NEW d \in Calls
                   PROVE  /\ pc'[d] \in {"idle", "claiming", "refused"} => rows[d] = NoRow
                          /\ pc'[d] = "asking" => rows[d].status = "reserved"
                          /\ pc'[d] = "claiming" <=> lock' = d
                          /\ rows[d].day <= today
                          /\ rows[d].status = "reserved" => rows[d].held = claimed[d]
      BY <1>2 DEF Placed
    <2>2. pc'[c] = label /\ (d # c => pc'[d] = pc[d])
      BY <1>1, <1>3, Moved
    <2>3. c # Nobody /\ d # Nobody
      BY LedgerAssumption
    <2>4. QED
      BY <1>1, <1>2, <1>3, <2>2, <2>3 DEF Placed
  <1>6. Ceilings' /\ (label = "refused" => Room')
    <2>1. \A scope \in Scopes : RowsIn(scope)' = RowsIn(scope)
      BY <1>2 DEF RowsIn, InScope
    <2>2. Keeps' = Keeps
      BY <1>2 DEF Keeps, Accounted
    <2>3. Ceilings'
      BY <2>1, <2>2 DEF IInv, Ceilings, Scopes, Limit
    <2>4. label = "refused" => Room'
      BY <1>2, <1>3 DEF Room
    <2>5. QED
      BY <2>3, <2>4
  <1>7. label = "claiming" => Room'
    <2>1. SUFFICES ASSUME label = "claiming", NEW scope \in ScopesOf(c)
                   PROVE  Total(Keeps, RowsIn(scope)) < Limit(scope)
      <3>1. \A scope \in ScopesOf(c) : RowsIn(scope)' = RowsIn(scope)
        BY <1>2 DEF RowsIn, InScope
      <3>2. Keeps' = Keeps
        BY <1>2 DEF Keeps, Accounted
      <3>3. label = "claiming" => lock' = c /\ ScopesOf(lock)' = ScopesOf(c)
        BY <1>2, <1>3 DEF ScopesOf
      <3>4. QED
        BY <3>1, <3>2, <3>3 DEF Room, Limit
    <2>2. Spent(scope) < Limit(scope)
      BY <1>3, <2>1
    <2>3. Spent(scope) = Total(Spends, RowsIn(scope))
      BY SpentIs
    <2>4. /\ Top \in Nat
          /\ \A d \in RowsIn(scope) : Spends[d] \in 0 .. Top /\ Keeps[d] \in 0 .. Top /\ Keeps[d] <= Spends[d]
      BY <1>1, Counted, ScopeFinite, LedgerAssumption DEF Top
    <2>5. RowsIn(scope) \in SUBSET RowsIn(scope) /\ IsFiniteSet(RowsIn(scope))
      BY ScopeFinite
    <2>6. Total(Keeps, RowsIn(scope)) <= Total(Spends, RowsIn(scope))
      BY <2>4, <2>5, TotalSmaller
    <2>7. Total(Keeps, RowsIn(scope)) \in Nat /\ Total(Spends, RowsIn(scope)) \in Nat
      BY <2>4, <2>5, TotalNat
    <2>8. scope \in Scopes
      BY <1>1 DEF ScopesOf, Scopes, TypeOK
    <2>9. Limit(scope) \in Nat
      BY <2>8, LimitNat
    <2>10. QED
      BY ONLY <2>2, <2>3, <2>6, <2>7, <2>9
  <1>8. QED
    BY <1>3, <1>4, <1>5, <1>6, <1>7 DEF IInv

\* The row that is claimed is the one its scopes may be overshot by.
LEMMA ClaimStep ==
  ASSUME IInv, NEW c \in Calls, NEW amount \in 1 .. MaxClaim, Claim(c, amount)
  PROVE  IInv'
  <1> DEFINE row == [status |-> "reserved", day |-> today, held |-> amount, cost |-> 0, old |-> FALSE]
  <1>1. TypeOK /\ Placed
    BY DEF IInv
  <1>2. /\ rows' = [rows EXCEPT ![c] = row] /\ claimed' = [claimed EXCEPT ![c] = amount]
        /\ lock' = Nobody /\ Goto(c, "asking") /\ UNCHANGED <<today, session>> /\ pc[c] = "claiming"
    BY DEF Claim
  <1>3. row \in Reservation /\ row.status = "reserved" /\ row.day = today /\ row.held = amount
    BY <1>1 DEF Reservation, TypeOK
  <1> HIDE DEF row
  <1>4. rows[c] = NoRow /\ lock = c /\ c # Nobody
    BY <1>1, <1>2, LedgerAssumption DEF Placed
  <1>5. /\ rows'[c] = row /\ claimed'[c] = amount /\ pc'[c] = "asking"
        /\ \A d \in Calls : d # c => rows'[d] = rows[d] /\ claimed'[d] = claimed[d] /\ pc'[d] = pc[d]
    BY <1>1, <1>2, Moved DEF TypeOK
  <1>6. TypeOK'
    <2>1. rows' \in [Calls -> Reservation \cup Record \cup {NoRow}]
      BY <1>1, <1>2, <1>3 DEF TypeOK
    <2>2. claimed' \in [Calls -> 0 .. MaxClaim]
      BY <1>1, <1>2 DEF TypeOK
    <2>3. pc' \in [Calls -> {"idle", "claiming", "asking", "done", "refused", "dead"}]
      BY <1>1, <1>2 DEF TypeOK, Goto
    <2>4. QED
      BY <1>1, <1>2, <2>1, <2>2, <2>3 DEF TypeOK
  <1>7. Placed'
    <2>1. SUFFICES ASSUME NEW d \in Calls
                   PROVE  /\ pc'[d] \in {"idle", "claiming", "refused"} => rows'[d] = NoRow
                          /\ pc'[d] = "asking" => rows'[d].status = "reserved"
                          /\ pc'[d] = "claiming" <=> lock' = d
                          /\ rows'[d].day <= today
                          /\ rows'[d].status = "reserved" => rows'[d].held = claimed'[d]
      BY <1>2 DEF Placed
    <2>2. CASE d = c
      <3>1. today <= today /\ lock' # d
        BY <1>1, <1>2, <1>4, <2>2 DEF TypeOK
      <3>2. QED
        BY <1>3, <1>5, <2>2, <3>1
    <2>3. CASE d # c
      <3>1. d # Nobody
        BY LedgerAssumption
      <3>2. QED
        BY <1>1, <1>2, <1>4, <1>5, <2>3, <3>1 DEF Placed
    <2>4. QED
      BY <2>2, <2>3
  <1>8. Room'
    BY <1>2 DEF Room
  <1>9. Ceilings'
    <2>1. SUFFICES ASSUME NEW scope \in Scopes, RowsIn(scope)' # {}
                   PROVE  \E last \in RowsIn(scope)' : Total(Keeps', RowsIn(scope)' \ {last}) < Limit(scope)
      BY DEF Ceilings, Scopes, Limit
    <2>2. \A d \in Calls : d # c => (InScope(d, scope)' <=> InScope(d, scope))
      BY <1>2, <1>5 DEF InScope
    <2>3. ~InScope(c, scope)
      BY <1>4 DEF InScope
    <2>4. RowsIn(scope)' \ {c} = RowsIn(scope)
      BY <2>2, <2>3 DEF RowsIn
    <2>5. \A d \in Calls : d # c => Keeps'[d] = Keeps[d]
      BY <1>5 DEF Keeps, Accounted
    <2>6. ASSUME NEW S \in SUBSET (Calls \ {c})
          PROVE  Total(Keeps', S) <= Total(Keeps, S) /\ Total(Keeps', S) \in Nat /\ Total(Keeps, S) \in Nat
      <3> DEFINE old == Keeps
                 new == Keeps'
      <3>1. Top \in Nat /\ IsFiniteSet(S) /\ S \in SUBSET S
        BY LedgerAssumption, FS_Subset DEF Top
      <3>2. \A d \in S : old[d] \in 0 .. Top
        BY <1>1, Counted
      <3>3. \A d \in S : new[d] = old[d]
        BY <2>5
      <3> HIDE DEF old, new
      <3>4. \A d \in S : new[d] \in 0 .. Top /\ new[d] <= old[d]
        BY <3>1, <3>2, <3>3
      <3>5. Total(new, S) <= Total(old, S)
        BY <3>1, <3>2, <3>4, TotalSmaller
      <3>6. Total(new, S) \in Nat /\ Total(old, S) \in Nat
        BY <3>1, <3>2, <3>4, TotalNat
      <3>7. QED
        BY <3>5, <3>6 DEF old, new
    <2>7. Limit(scope) \in Nat
      BY LimitNat
    <2>8. CASE c \in RowsIn(scope)'
      <3>1. InScope(c, scope)'
        BY <2>8 DEF RowsIn
      <3>2. scope \in ScopesOf(c)
        BY <1>2, <2>1, <3>1, LedgerAssumption DEF InScope, ScopesOf, Scopes
      <3>3. Total(Keeps, RowsIn(scope)) < Limit(scope)
        BY <1>4, <3>2 DEF IInv, Room
      <3>4. RowsIn(scope) \in SUBSET (Calls \ {c})
        BY <2>3 DEF RowsIn
      <3>5. /\ Total(Keeps', RowsIn(scope)) <= Total(Keeps, RowsIn(scope))
            /\ Total(Keeps', RowsIn(scope)) \in Nat /\ Total(Keeps, RowsIn(scope)) \in Nat
        BY <2>6, <3>4
      <3>6. Total(Keeps', RowsIn(scope)) < Limit(scope)
        BY ONLY <2>7, <3>3, <3>5
      <3>7. QED
        BY <2>4, <2>8, <3>6
    <2>9. CASE c \notin RowsIn(scope)'
      <3>1. RowsIn(scope)' = RowsIn(scope)
        BY <2>4, <2>9
      <3>2. PICK last \in RowsIn(scope) : Total(Keeps, RowsIn(scope) \ {last}) < Limit(scope)
        BY <2>1, <3>1 DEF IInv, Ceilings
      <3>3. RowsIn(scope) \ {last} \in SUBSET (Calls \ {c})
        BY <2>3 DEF RowsIn
      <3>4. /\ Total(Keeps', RowsIn(scope) \ {last}) <= Total(Keeps, RowsIn(scope) \ {last})
            /\ Total(Keeps', RowsIn(scope) \ {last}) \in Nat /\ Total(Keeps, RowsIn(scope) \ {last}) \in Nat
        BY <2>6, <3>3
      <3>5. Total(Keeps', RowsIn(scope) \ {last}) < Limit(scope)
        BY ONLY <2>7, <3>2, <3>4
      <3>6. QED
        BY <3>1, <3>5
    <2>10. QED
      BY <2>8, <2>9
  <1>10. QED
    BY <1>6, <1>7, <1>8, <1>9 DEF IInv

\* An answer's price counts for no more, within the claim, than the reservation did.
LEMMA SettleStep ==
  ASSUME IInv, NEW c \in Calls, NEW how \in {"settled", "failed"}, NEW cost \in 0 .. MaxCost,
         Settle(c, how, cost)
  PROVE  IInv'
  <1> DEFINE row == [rows[c] EXCEPT !.status = how, !.held = 0, !.cost = cost]
  <1>1. TypeOK /\ Placed
    BY DEF IInv
  <1>2. UNCHANGED <<today, lock, session, claimed>> /\ pc[c] = "asking" /\ Goto(c, "done")
    BY DEF Settle
  <1>3. rows[c] \in Reservation /\ rows[c].status = "reserved" /\ rows[c] # NoRow
    BY <1>1, <1>2 DEF Placed, TypeOK, Reservation, Record, NoRow
  <1>4. rows' = [rows EXCEPT ![c] = row]
    BY DEF Settle
  <1>5. row \in Record /\ row.day = rows[c].day /\ row.old = rows[c].old /\ row.status # "reserved"
    BY <1>3 DEF Reservation, Record
  <1> HIDE DEF row
  <1>6. rows'[c] = row /\ pc'[c] = "done" /\ \A d \in Calls : d # c => rows'[d] = rows[d] /\ pc'[d] = pc[d]
    BY <1>1, <1>2, <1>4, Moved DEF TypeOK
  <1>7. TypeOK'
    <2>1. rows' \in [Calls -> Reservation \cup Record \cup {NoRow}]
      BY <1>1, <1>4, <1>5 DEF TypeOK
    <2>2. pc' \in [Calls -> {"idle", "claiming", "asking", "done", "refused", "dead"}]
      BY <1>1, <1>2 DEF TypeOK, Goto
    <2>3. QED
      BY <1>1, <1>2, <2>1, <2>2 DEF TypeOK
  <1>8. Placed'
    <2>1. SUFFICES ASSUME NEW d \in Calls
                   PROVE  /\ pc'[d] \in {"idle", "claiming", "refused"} => rows'[d] = NoRow
                          /\ pc'[d] = "asking" => rows'[d].status = "reserved"
                          /\ pc'[d] = "claiming" <=> lock = d
                          /\ rows'[d].day <= today
                          /\ rows'[d].status = "reserved" => rows'[d].held = claimed[d]
      BY <1>2 DEF Placed
    <2>2. CASE d = c
      BY <1>1, <1>2, <1>5, <1>6, <2>2 DEF Placed
    <2>3. CASE d # c
      BY <1>1, <1>6, <2>3 DEF Placed
    <2>4. QED
      BY <2>2, <2>3
  <1>9. Room' /\ Ceilings'
    <2>1. row.old \/ (~rows[c].old /\ rows[c].status = "reserved")
      BY <1>3, <1>5 DEF Reservation
    <2>2. QED
      BY <1>2, <1>3, <1>4, <1>5, <2>1, RowStep
  <1>10. QED
    BY <1>7, <1>8, <1>9 DEF IInv

\* A row that grows old no longer counts.
LEMMA AgeStep ==
  ASSUME IInv, NEW c \in Calls, Age(c)
  PROVE  IInv'
  <1> DEFINE row == [rows[c] EXCEPT !.old = TRUE]
  <1>1. TypeOK /\ Placed
    BY DEF IInv
  <1>2. UNCHANGED <<today, lock, pc, session, claimed>> /\ rows' = [rows EXCEPT ![c] = row]
        /\ rows[c].status = "reserved"
    BY DEF Age
  <1>3. rows[c] \in Reservation /\ rows[c] # NoRow
    BY <1>1, <1>2 DEF TypeOK, Reservation, Record, NoRow
  <1>4. row \in Reservation /\ row.day = rows[c].day /\ row.old /\ row.status = "reserved" /\ row.held = rows[c].held
    BY <1>3 DEF Reservation
  <1> HIDE DEF row
  <1>5. rows'[c] = row /\ \A d \in Calls : d # c => rows'[d] = rows[d]
    BY <1>1, <1>2 DEF TypeOK
  <1>6. TypeOK'
    <2>1. rows' \in [Calls -> Reservation \cup Record \cup {NoRow}]
      BY <1>1, <1>2, <1>4 DEF TypeOK
    <2>2. QED
      BY <1>1, <1>2, <2>1 DEF TypeOK
  <1>7. Placed'
    <2>1. pc[c] \notin {"idle", "claiming", "refused"}
      BY <1>1, <1>3 DEF Placed
    <2>2. SUFFICES ASSUME NEW d \in Calls
                   PROVE  /\ pc[d] \in {"idle", "claiming", "refused"} => rows'[d] = NoRow
                          /\ pc[d] = "asking" => rows'[d].status = "reserved"
                          /\ pc[d] = "claiming" <=> lock = d
                          /\ rows'[d].day <= today
                          /\ rows'[d].status = "reserved" => rows'[d].held = claimed[d]
      BY <1>2 DEF Placed
    <2>3. CASE d = c
      BY <1>1, <1>2, <1>4, <1>5, <2>1, <2>3 DEF Placed
    <2>4. CASE d # c
      BY <1>1, <1>5, <2>4 DEF Placed
    <2>5. QED
      BY <2>3, <2>4
  <1>8. Room' /\ Ceilings'
    BY <1>2, <1>3, <1>4, RowStep
  <1>9. QED
    BY <1>6, <1>7, <1>8 DEF IInv

\* A death writes nothing and frees the lock.
LEMMA DieStep ==
  ASSUME IInv, NEW c \in Calls, Die(c)
  PROVE  IInv'
  <1>1. TypeOK /\ Placed
    BY DEF IInv
  <1>2. /\ UNCHANGED <<today, rows, session, claimed>> /\ pc[c] \in {"claiming", "asking"} /\ Goto(c, "dead")
        /\ lock' = IF lock = c THEN Nobody ELSE lock
    BY DEF Die
  <1>3. pc'[c] = "dead" /\ \A d \in Calls : d # c => pc'[d] = pc[d]
    BY <1>1, <1>2, Moved
  <1>4. TypeOK'
    BY <1>1, <1>2 DEF TypeOK, Goto
  <1>5. Placed'
    <2>1. SUFFICES ASSUME NEW d \in Calls
                   PROVE  /\ pc'[d] \in {"idle", "claiming", "refused"} => rows[d] = NoRow
                          /\ pc'[d] = "asking" => rows[d].status = "reserved"
                          /\ pc'[d] = "claiming" <=> lock' = d
                          /\ rows[d].day <= today
                          /\ rows[d].status = "reserved" => rows[d].held = claimed[d]
      BY <1>2 DEF Placed
    <2>2. d # Nobody
      BY LedgerAssumption
    <2>3. QED
      BY <1>1, <1>2, <1>3, <2>2 DEF Placed
  <1>6. lock' \in {lock, Nobody}
    BY <1>2
  <1>7. Room' /\ Ceilings'
    BY <1>2, <1>6, RowsStay
  <1>8. QED
    BY <1>4, <1>5, <1>7 DEF IInv

\* At midnight rows leave the day's scope, and perhaps the month's; none enters one.
LEMMA NextDayStep ==
  ASSUME IInv, NextDay
  PROVE  IInv'
  <1>1. TypeOK /\ Placed
    BY DEF IInv
  <1>2. today' = today + 1 /\ today < LastDay /\ UNCHANGED <<lock, rows, pc, session, claimed>>
    BY DEF NextDay
  <1>3. today \in Nat \ {0} /\ LastDay \in Nat
    BY <1>1, LedgerAssumption DEF TypeOK
  <1>4. TypeOK'
    BY <1>1, <1>2, <1>3 DEF TypeOK
  <1>5. \A c \in Calls : rows[c] # NoRow => rows[c].day \in Nat \ {0} /\ rows[c].day <= today
    <2>1. SUFFICES ASSUME NEW c \in Calls, rows[c] # NoRow PROVE rows[c].day \in Nat \ {0} /\ rows[c].day <= today
      OBVIOUS
    <2>2. rows[c] \in Reservation \cup Record
      BY <1>1, <2>1 DEF TypeOK
    <2>3. rows[c].day \in 1 .. LastDay
      BY <2>2 DEF Reservation, Record
    <2>4. QED
      BY <1>1, <1>3, <2>3 DEF Placed
  <1>6. Placed'
    <2>1. \A c \in Calls : rows[c].day <= today'
      <3>1. SUFFICES ASSUME NEW c \in Calls PROVE rows[c].day <= today'
        OBVIOUS
      <3>2. rows[c].day \in Nat /\ rows[c].day <= today
        BY <1>1, <1>5 DEF Placed, NoRow
      <3>3. QED
        BY <1>2, <1>3, <3>2
    <2>2. QED
      BY <1>1, <1>2, <2>1 DEF Placed
  <1>7. \A scope \in Scopes : RowsIn(scope)' \subseteq RowsIn(scope)
    <2>1. SUFFICES ASSUME NEW scope \in Scopes, NEW c \in Calls, InScope(c, scope)'
                   PROVE  InScope(c, scope)
      BY DEF RowsIn
    <2>2. rows[c] # NoRow
      BY <1>2, <2>1 DEF InScope
    <2>3. PICK d \in Nat \ {0} : d = rows[c].day /\ d <= today
      BY <1>5, <2>2
    <2>4. CASE scope = "day"
      <3>1. d = today + 1
        BY <1>2, <2>1, <2>3, <2>4 DEF InScope
      <3>2. QED
        BY <1>3, <2>3, <3>1
    <2>5. CASE scope = "month"
      <3>1. Month(d) = Month(today + 1)
        BY <1>2, <2>1, <2>3, <2>5 DEF InScope, Month
      <3>2. /\ Month(d) \in Nat /\ Month(today) \in Nat /\ Month(today + 1) \in Nat
            /\ Month(d) <= Month(today) /\ Month(today) <= Month(today + 1)
        <4>1. today + 1 \in Nat \ {0} /\ today <= today + 1 /\ today + 1 <= today + 1
          BY <1>3
        <4>2. QED
          BY <1>3, <2>3, <4>1, MonthsRise
      <3>3. Month(d) = Month(today)
        BY ONLY <3>1, <3>2
      <3>4. QED
        BY <2>2, <2>3, <2>5, <3>3 DEF InScope
    <2>6. CASE scope \notin {"day", "month"}
      BY <1>2, <2>1, <2>6 DEF InScope
    <2>7. QED
      BY <2>4, <2>5, <2>6
  <1>8. Room' /\ Ceilings'
    <2>1. Keeps' = Keeps
      BY <1>2 DEF Keeps, Accounted
    <2>2. \A c \in Calls : Keeps[c] \in Nat
      BY <1>1, Counted
    <2>3. \A c \in Calls : Keeps'[c] \in Nat /\ Keeps'[c] <= Keeps[c]
      BY <2>1, <2>2
    <2>4. UNCHANGED session /\ lock' \in {lock, Nobody}
      BY <1>2
    <2>5. QED
      BY <1>7, <2>3, <2>4, LessIsKept
  <1>9. QED
    BY <1>4, <1>6, <1>8 DEF IInv

LEMMA StepInvariant == IInv /\ [Next]_vars => IInv'
  <1> SUFFICES ASSUME IInv, [Next]_vars PROVE IInv'
    OBVIOUS
  <1>1. ASSUME NEW c \in Calls, Reserve(c) PROVE IInv'
    BY <1>1, CheckStep, ClaimStep DEF Reserve
  <1>2. ASSUME NEW c \in Calls, Answer(c) PROVE IInv'
    BY <1>2, SettleStep DEF Answer
  <1>3. ASSUME NEW c \in Calls, Die(c) PROVE IInv'
    BY <1>3, DieStep
  <1>4. ASSUME NEW c \in Calls, Age(c) PROVE IInv'
    BY <1>4, AgeStep
  <1>5. CASE NextDay
    BY <1>5, NextDayStep
  <1>6. CASE UNCHANGED vars
    <2>1. UNCHANGED <<today, lock, rows, pc, session, claimed>>
      BY <1>6 DEF vars
    <2>2. Room' /\ Ceilings'
      BY <2>1, RowsStay
    <2>3. TypeOK' /\ Placed'
      BY <2>1 DEF IInv, TypeOK, Placed
    <2>4. QED
      BY <2>2, <2>3 DEF IInv
  <1>7. QED
    BY <1>1, <1>2, <1>3, <1>4, <1>5, <1>6 DEF Next

LEMMA Invariance == Spec => []IInv
  BY InitInvariant, StepInvariant, PTL DEF Spec

\* The rows of llm_calls and the lock keep their types: a row is a reservation that costs
\* nothing yet or a record that holds nothing any more (reserve, _settle in llm.py).
THEOREM LedgerTypes == Spec => []TypeOK
  <1>1. IInv => TypeOK
    BY DEF IInv
  <1>2. QED
    BY <1>1, Invariance, PTL

\* However many calls overlap, fail, die or outlive their reservations, and wherever midnight
\* falls, every ceiling holds but for one call: without some one row of its scope, what the
\* others count for within their claims is below the limit (reserve and enforce_budget).
THEOREM CeilingsAreHeld == Spec => []CeilingsHold
  <1>1. IInv => CeilingsHold
    <2>1. SUFFICES ASSUME IInv, NEW scope \in Scopes, RowsIn(scope) # {}
                   PROVE  \E last \in RowsIn(scope) :
                              MapThenSumSet(Accounted, RowsIn(scope) \ {last}) < Limit(scope)
      BY DEF CeilingsHold
    <2>2. PICK last \in RowsIn(scope) : Total(Keeps, RowsIn(scope) \ {last}) < Limit(scope)
      BY <2>1 DEF IInv, Ceilings
    <2>3. RowsIn(scope) \ {last} \subseteq Calls
      BY DEF RowsIn
    <2>4. MapThenSumSet(Accounted, RowsIn(scope) \ {last}) = Total(Keeps, RowsIn(scope) \ {last})
      BY <2>3, KeptIs
    <2>5. QED
      BY <2>2, <2>4
  <1>2. QED
    BY <1>1, Invariance, PTL

=============================================================================
