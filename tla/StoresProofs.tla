---------------------------- MODULE StoresProofs ----------------------------
(***************************************************************************)
(* What is spent is accounted for and what is kept is honest, for any      *)
(* number of runs, results, jobs and requests.                             *)
(***************************************************************************)
EXTENDS MCStores, FiniteSetTheorems, WellFoundedInduction, TLAPS

(***************************************************************************)
(* Sums.  TotalOf counts a function unit by unit, so that the laws of      *)
(* cardinality are laws of the sum.                                        *)
(***************************************************************************)

\* The units of one element are as many as its value.
LEMMA OneUnits ==
  ASSUME NEW x, NEW n \in Nat
  PROVE  IsFiniteSet({x} \X (1..n)) /\ Cardinality({x} \X (1..n)) = n
<1>1. IsFiniteSet({x}) /\ Cardinality({x}) = 1
  BY FS_Singleton
<1>2. IsFiniteSet(1..n) /\ Cardinality(1..n) = n
  BY FS_Interval
<1>3. IsFiniteSet({x} \X (1..n)) /\ Cardinality({x} \X (1..n)) = Cardinality({x}) * Cardinality(1..n)
  BY <1>1, <1>2, FS_Product
<1> QED BY <1>1, <1>2, <1>3

\* The units of a function over a finite set are finitely many.
LEMMA UnitsFinite ==
  ASSUME NEW D, IsFiniteSet(D), NEW f \in [D -> Nat]
  PROVE  IsFiniteSet(Units(f)) /\ TotalOf(f) \in Nat
<1> DEFINE Of(x) == {x} \X (1..f[x])
           Parts == {Of(x) : x \in D}
<1>1. IsFiniteSet(Parts)
  <2> DEFINE of == [x \in D |-> Of(x)]
  <2>1. of \in Surjection(D, Parts)
    BY DEF Surjection
  <2> HIDE DEF of, Parts
  <2> QED BY <2>1, FS_Surjection
<1>2. ASSUME NEW P \in Parts PROVE IsFiniteSet(P)
  <2>1. PICK x \in D : P = Of(x)
    OBVIOUS
  <2> QED BY <2>1, OneUnits
<1>3. IsFiniteSet(UNION Parts)
  <2> HIDE DEF Parts
  <2> QED BY <1>1, <1>2, FS_UNION
<1>4. Units(f) = UNION Parts
  BY DEF Units
<1> QED BY <1>3, <1>4, FS_CardinalityType DEF TotalOf

\* Two functions that differ at one element differ in their sum by as much.
LEMMA TotalChanges ==
  ASSUME NEW D, IsFiniteSet(D), NEW f \in [D -> Nat], NEW g \in [D -> Nat], NEW x \in D,
         \A y \in D \ {x} : g[y] = f[y]
  PROVE  TotalOf(g) + f[x] = TotalOf(f) + g[x]
<1> DEFINE A(h) == {x} \X (1..h[x])
           B(h) == UNION {{y} \X (1..h[y]) : y \in D \ {x}}
<1>1. B(f) = B(g)
  OBVIOUS
<1>2. ASSUME NEW h \in [D -> Nat] PROVE TotalOf(h) = h[x] + Cardinality(B(h)) /\ Cardinality(B(h)) \in Nat
  <2>1. Units(h) = A(h) \cup B(h) /\ A(h) \cap B(h) = {}
    BY DEF Units
  <2>2. IsFiniteSet(Units(h))
    BY UnitsFinite
  <2>3. IsFiniteSet(B(h))
    BY <2>1, <2>2, FS_Subset
  <2>4. IsFiniteSet(A(h)) /\ Cardinality(A(h)) = h[x]
    BY OneUnits
  <2>5. Cardinality(A(h) \cup B(h)) = Cardinality(A(h)) + Cardinality(B(h)) - Cardinality({})
    <3> HIDE DEF A, B
    <3> QED BY <2>1, <2>3, <2>4, FS_Union
  <2>6. Cardinality(B(h)) \in Nat
    <3> HIDE DEF B
    <3> QED BY <2>3, FS_CardinalityType
  <2> HIDE DEF A, B
  <2> QED BY <2>1, <2>4, <2>5, <2>6, FS_EmptySet DEF TotalOf
<1>3. TotalOf(f) = f[x] + Cardinality(B(f)) /\ TotalOf(g) = g[x] + Cardinality(B(f)) /\ Cardinality(B(f)) \in Nat
  <2> HIDE DEF B
  <2> QED BY <1>1, <1>2
<1> HIDE DEF B
<1> QED BY <1>3

\* A function that is nothing has no sum.
LEMMA NothingTotals ==
  ASSUME NEW D, NEW f \in [D -> Nat], \A x \in D : f[x] = 0
  PROVE  TotalOf(f) = 0
<1>1. Units(f) = {}
  BY DEF Units
<1> QED BY <1>1, FS_EmptySet DEF TotalOf

\* What is bounded on a few elements, and nothing elsewhere, is bounded in sum.
LEMMA TotalBounded ==
  ASSUME NEW D, NEW f \in [D -> Nat], NEW S, IsFiniteSet(S), NEW n \in Nat,
         \A x \in D : f[x] <= n, \A x \in D \ S : f[x] = 0
  PROVE  TotalOf(f) <= Cardinality(S) * n
<1>1. Units(f) \subseteq S \X (1..n)
  BY DEF Units
<1>2. IsFiniteSet(1..n) /\ Cardinality(1..n) = n
  BY FS_Interval
<1>3. IsFiniteSet(S \X (1..n)) /\ Cardinality(S \X (1..n)) = Cardinality(S) * n
  BY <1>2, FS_Product
<1>4. Cardinality(Units(f)) <= Cardinality(S \X (1..n))
  BY <1>1, <1>3, FS_Subset
<1> QED BY <1>3, <1>4 DEF TotalOf

(***************************************************************************)
(* Synthesis                                                               *)
(***************************************************************************)

RunCost == MaxAttempts * MaxCost
Bound == Headroom + (Workers + outage.passed) * RunCost
RunState == [pc : RunPc, attempt : 1..MaxAttempts, usage : 0..MaxCost, total : Nat]
Held == [r \in Runs |-> run[r].usage]

\* What a run that was let through may yet charge.
Ahead(q) == (MaxAttempts - q.attempt) * MaxCost
DueOf(q) ==
  IF q.pc = "call" THEN Ahead(q) + MaxCost
  ELSE IF q.pc \in {"charge", "judge", "store"} THEN Ahead(q) + q.usage ELSE 0
Due == [r \in Runs |-> DueOf(run[r])]

\* A call is held from its answer to its record, and is then on the span.
HeldInv ==
  \A r \in Runs :
    /\ run[r].pc # "charge" => run[r].usage = 0
    /\ run[r].pc # "completed" => traced[r] + run[r].usage = Answered[r]

\* The day's counter and all that is due to it stay below the bound.
DueInv ==
  /\ spent[day] + TotalOf(Due) <= Bound
  /\ \A d \in 1..Days : spent[d] <= Bound /\ (d > day => spent[d] = 0)

\* What a run has been charged, answered or not, leaves room for what it may
\* still be.
Yet(q) ==
  IF q.pc \in {"idle", "cache", "check"} THEN RunCost
  ELSE IF q.pc = "call" THEN Ahead(q) + MaxCost
  ELSE IF q.pc \in {"charge", "judge", "store"} THEN Ahead(q) ELSE 0
BillInv == \A r \in Runs : billed[r] + Yet(run[r]) <= RunCost

SynthesisInv == TypeOK /\ EveryCallIsCharged /\ HeldInv /\ DueInv

\* No more was charged in vain than was charged.
Ledger ==
  /\ billed \in [Runs -> Nat] /\ unheard \in [Runs -> Nat]
  /\ \A w \in Runs : unheard[w] <= billed[w]

LEMMA AnsweredType == TypeOK => Answered \in [Runs -> Nat]
<1> SUFFICES ASSUME TypeOK, NEW r \in Runs PROVE billed[r] - unheard[r] \in Nat
  BY DEF Answered
<1>1. billed[r] \in Nat /\ unheard[r] \in Nat /\ unheard[r] <= billed[r]
  BY DEF TypeOK
<1> QED BY <1>1

LEMMA Times ==
  ASSUME NEW k \in Nat, NEW n \in Nat, NEW c \in Nat, k <= n
  PROVE  k * c \in Nat /\ k * c <= n * c /\ (k + 1) * c = k * c + c
  OBVIOUS

LEMMA CostType == RunCost \in Nat /\ Workers * RunCost \in Nat
<1>1. RunCost \in Nat
  BY SynthesisAssumption DEF RunCost
<1> QED BY <1>1, Times, SynthesisAssumption

\* What is due for a run is at most what one run costs.
LEMMA DueType ==
  ASSUME NEW q \in RunState
  PROVE  /\ Ahead(q) \in Nat /\ Ahead(q) + MaxCost <= RunCost
         /\ DueOf(q) \in Nat /\ DueOf(q) <= RunCost
<1> USE SynthesisAssumption DEF RunState
<1>1. PICK k \in Nat : k = MaxAttempts - q.attempt /\ k + 1 <= MaxAttempts
  OBVIOUS
<1>2. k * MaxCost \in Nat /\ (k + 1) * MaxCost = k * MaxCost + MaxCost
  BY Times
<1>3. (k + 1) * MaxCost <= MaxAttempts * MaxCost
  BY <1>1, Times
<1>4. PICK p \in Nat : p = k * MaxCost
  BY <1>2
<1>5. Ahead(q) = p /\ p + MaxCost <= RunCost
  <2>1. MaxAttempts - q.attempt = k
    BY <1>1
  <2>2. Ahead(q) = k * MaxCost
    BY <2>1, Zenon DEF Ahead
  <2>3. PICK z : z = MaxAttempts * MaxCost
    OBVIOUS
  <2>4. (k + 1) * MaxCost = p + MaxCost
    BY <1>2, <1>4
  <2>5. p + MaxCost <= z
    BY <1>3, <2>3, <2>4
  <2>6. RunCost = z
    BY <2>3 DEF RunCost
  <2>7. p + MaxCost <= RunCost
    BY <2>5, <2>6, Zenon
  <2>8. Ahead(q) = p
    BY <1>4, <2>2
  <2> QED BY <2>7, <2>8
<1>6. q.usage \in Nat /\ q.usage <= MaxCost
  OBVIOUS
<1> QED BY <1>5, <1>6, CostType DEF DueOf

\* All that is due is at most what the runs under way cost.
LEMMA DueBounded ==
  ASSUME NEW f \in [Runs -> RunState],
         Cardinality({r \in Runs : f[r].pc \notin {"idle", "completed", "failed"}}) <= Workers
  PROVE  LET e == [r \in Runs |-> DueOf(f[r])]
         IN  e \in [Runs -> Nat] /\ TotalOf(e) \in Nat /\ TotalOf(e) <= Workers * RunCost
<1> USE SynthesisAssumption
<1>1. PICK e : e = [r \in Runs |-> DueOf(f[r])]
  OBVIOUS
<1>2. e \in [Runs -> Nat] /\ \A r \in Runs : e[r] <= RunCost
  BY <1>1, DueType
<1>3. RunCost \in Nat
  BY CostType
<1>4. PICK A : A = {r \in Runs : f[r].pc \notin {"idle", "completed", "failed"}}
  OBVIOUS
<1>5. IsFiniteSet(A) /\ Cardinality(A) \in Nat /\ Cardinality(A) <= Workers
  BY <1>4, FS_Subset, FS_CardinalityType
<1>6. \A r \in Runs \ A : e[r] = 0
  BY <1>1, <1>4 DEF DueOf
<1>7. TotalOf(e) <= Cardinality(A) * RunCost
  BY <1>2, <1>3, <1>5, <1>6, TotalBounded
<1>8. Cardinality(A) * RunCost <= Workers * RunCost /\ Workers * RunCost \in Nat /\ Cardinality(A) * RunCost \in Nat
  BY <1>3, <1>5, Times
<1>9. TotalOf(e) \in Nat
  BY <1>2, UnitsFinite
<1>10. TotalOf(e) <= Workers * RunCost
  BY <1>7, <1>8, <1>9
<1> QED BY <1>1, <1>2, <1>9, <1>10

LEMMA DueNow ==
  ASSUME TypeOK
  PROVE  Due \in [Runs -> Nat] /\ TotalOf(Due) \in Nat /\ TotalOf(Due) <= Workers * RunCost
<1>1. run \in [Runs -> RunState]
  BY DEF TypeOK, RunState
<1>2. Cardinality({r \in Runs : run[r].pc \notin {"idle", "completed", "failed"}}) <= Workers
  BY DEF TypeOK, Active
<1> QED BY <1>1, <1>2, DueBounded DEF Due

\* A step of one run changes what is held and due by its own alone.
LEMMA RunMoves ==
  ASSUME TypeOK, NEW r \in Runs, NEW q \in RunState, run' = [run EXCEPT ![r] = q],
         \/ q.pc \in {"idle", "completed", "failed"}
         \/ Active(r)
         \/ Cardinality({w \in Runs : Active(w)}) < Workers
  PROVE  /\ run' \in [Runs -> RunState]
         /\ Cardinality({w \in Runs : Active(w)})' <= Workers
         /\ TotalOf(Held)' + run[r].usage = TotalOf(Held) + q.usage
         /\ TotalOf(Due)' + DueOf(run[r]) = TotalOf(Due) + DueOf(q)
         /\ TotalOf(Held)' \in Nat /\ TotalOf(Due)' \in Nat /\ TotalOf(Due)' <= Workers * RunCost
<1> USE SynthesisAssumption
<1>1. run \in [Runs -> RunState] /\ run' \in [Runs -> RunState]
  BY DEF TypeOK, RunState
<1>2. PICK A, B : A = {w \in Runs : Active(w)} /\ B = {w \in Runs : Active(w)'}
  OBVIOUS
<1>3. IsFiniteSet(A) /\ IsFiniteSet(B) /\ Cardinality(A) \in Nat /\ Cardinality(A) <= Workers
  BY <1>2, FS_Subset, FS_CardinalityType DEF TypeOK
<1>4. Cardinality(B) <= Workers
  <2>1. CASE q.pc \in {"idle", "completed", "failed"} \/ Active(r)
    <3>1. B \subseteq A
      BY <1>1, <1>2, <2>1 DEF Active
    <3>2. Cardinality(B) <= Cardinality(A) /\ Cardinality(B) \in Nat
      BY <1>3, <3>1, FS_Subset, FS_CardinalityType
    <3> QED BY <1>3, <3>2
  <2>2. CASE Cardinality(A) < Workers
    <3>1. B \subseteq A \cup {r}
      BY <1>1, <1>2 DEF Active
    <3>2. IsFiniteSet(A \cup {r}) /\ Cardinality(A \cup {r}) <= Cardinality(A) + 1
      <4>1. CASE r \in A
        <5>1. A \cup {r} = A
          BY <4>1
        <5> QED BY <1>3, <5>1
      <4>2. CASE r \notin A
        <5>1. Cardinality(A \cup {r}) = Cardinality(A) + 1 /\ IsFiniteSet(A \cup {r})
          BY <1>3, <4>2, FS_AddElement, Zenon
        <5> QED BY <1>3, <5>1
      <4> QED BY <4>1, <4>2
    <3>3. Cardinality(B) <= Cardinality(A \cup {r}) /\ Cardinality(A \cup {r}) \in Nat /\ Cardinality(B) \in Nat
      BY <1>3, <3>1, <3>2, FS_Subset, FS_CardinalityType
    <3> QED BY <1>3, <2>2, <3>2, <3>3
  <2> QED BY <1>2, <2>1, <2>2
<1>5. PICK e, e2, h, h2 : e = Due /\ e2 = Due' /\ h = Held /\ h2 = Held'
  OBVIOUS
<1>6. e \in [Runs -> Nat] /\ e2 \in [Runs -> Nat] /\ h \in [Runs -> Nat] /\ h2 \in [Runs -> Nat]
  BY <1>1, <1>5, DueType DEF Due, Held, RunState
<1>7. \A w \in Runs \ {r} : e2[w] = e[w] /\ h2[w] = h[w]
  BY <1>1, <1>5 DEF Due, Held
<1>8. e[r] = DueOf(run[r]) /\ e2[r] = DueOf(q) /\ h[r] = run[r].usage /\ h2[r] = q.usage
  BY <1>1, <1>5 DEF Due, Held
<1>9. TotalOf(e2) + e[r] = TotalOf(e) + e2[r]
  BY <1>6, <1>7, TotalChanges
<1>10. TotalOf(h2) + h[r] = TotalOf(h) + h2[r]
  BY <1>6, <1>7, TotalChanges
<1>11. TotalOf(e2) \in Nat /\ TotalOf(h2) \in Nat
  BY <1>6, UnitsFinite
<1>12. TotalOf(Due)' = TotalOf(e2) /\ TotalOf(Held)' = TotalOf(h2)
  BY <1>5 DEF TotalOf, Units
<1>13. Cardinality({w \in Runs : Active(w)})' = Cardinality(B)
  BY <1>2
<1>14. Cardinality({w \in Runs : run'[w].pc \notin {"idle", "completed", "failed"}}) <= Workers
  BY <1>2, <1>4 DEF Active
<1>15. e2 = [w \in Runs |-> DueOf(run'[w])]
  BY <1>5 DEF Due
<1>16. TotalOf(e2) <= Workers * RunCost
  BY <1>1, <1>14, <1>15, DueBounded
<1> QED BY <1>1, <1>4, <1>5, <1>8, <1>9, <1>10, <1>11, <1>12, <1>13, <1>16

\* What one move does to the counters keeps the sums in step.
LEMMA BudgetKept ==
  ASSUME TypeOK, DueInv, day' = day, NEW k \in Nat,
         spent' = [spent EXCEPT ![day] = @ + k],
         outage'.passed = outage.passed,
         TotalOf(Due)' \in Nat, TotalOf(Due)' + k <= TotalOf(Due)
  PROVE  DueInv'
<1>1. Bound' = Bound /\ Bound \in Nat
  <2>1. (Workers + outage.passed) * RunCost \in Nat
    BY SynthesisAssumption, CostType, Times DEF TypeOK
  <2>2. Headroom \in Nat
    BY SynthesisAssumption DEF Headroom
  <2>3. Bound' = Bound
    BY DEF Bound, Headroom, RunCost
  <2> QED BY <2>1, <2>2, <2>3 DEF Bound
<1>2. spent[day] \in Nat /\ day \in 1..Days /\ TotalOf(Due) \in Nat
  BY DueNow DEF TypeOK
<1>3. spent'[day] = spent[day] + k /\ \A d \in (1..Days) \ {day} : spent'[d] = spent[d]
  BY <1>2 DEF TypeOK
<1>4. spent'[day] + TotalOf(Due)' <= Bound
  BY <1>1, <1>2, <1>3 DEF DueInv
<1>5. ASSUME NEW d \in 1..Days PROVE spent'[d] <= Bound /\ (d > day => spent'[d] = 0)
  BY <1>1, <1>2, <1>3, <1>4, <1>5 DEF DueInv
<1> QED BY <1>1, <1>4, <1>5 DEF DueInv

\* Below the headroom, or with a check that Redis did not answer, a run is let
\* through within the bound.
LEMMA CheckKept ==
  ASSUME TypeOK, DueInv, NEW p \in {0, 1},
         UNCHANGED <<day, spent>>, outage'.passed = outage.passed + p,
         TotalOf(Due)' \in Nat, TotalOf(Due)' <= Workers * RunCost,
         \/ p = 0 /\ spent[day] + Estimate <= Limit
         \/ p = 1 /\ TotalOf(Due)' <= TotalOf(Due) + RunCost
  PROVE  DueInv'
<1> USE SynthesisAssumption
<1>1. PICK c, c2, w, z : c = TotalOf(Due) /\ c2 = TotalOf(Due)' /\ w = Workers * RunCost /\ z = outage.passed
  OBVIOUS
<1>2. /\ c \in Nat /\ c2 \in Nat /\ c2 <= w /\ w \in Nat /\ z \in Nat /\ RunCost \in Nat
  BY <1>1, DueNow, CostType DEF TypeOK
<1>3. Bound' = Bound + p * RunCost /\ Bound >= Headroom + w /\ Bound \in Nat /\ Headroom \in Nat
  <2>1. (Workers + z) * RunCost \in Nat /\ (Workers + z + 1) * RunCost = (Workers + z) * RunCost + RunCost
        /\ w <= (Workers + z) * RunCost
    BY <1>1, <1>2, Times
  <2>2. Headroom \in Nat
    BY DEF Headroom
  <2>3. CASE p = 0
    BY <1>1, <1>2, <2>1, <2>2, <2>3 DEF Bound
  <2>4. CASE p = 1
    <3>1. outage'.passed = z + 1 /\ Workers + (z + 1) = Workers + z + 1
      BY <1>1, <1>2, <2>4
    <3>2. Bound' = Headroom + (Workers + z + 1) * RunCost
      BY <3>1, Zenon DEF Bound, Headroom, RunCost
    <3> QED BY <1>1, <1>2, <2>1, <2>2, <2>4, <3>2 DEF Bound
  <2> QED BY <2>3, <2>4
<1>4. spent[day] \in Nat /\ day \in 1..Days
  BY DEF TypeOK
<1>5. spent[day] + c2 <= Bound'
  <2>1. CASE p = 0
    BY <1>2, <1>3, <1>4, <2>1 DEF Headroom
  <2>2. CASE p = 1
    BY <1>1, <1>2, <1>3, <1>4, <2>2 DEF DueInv
  <2> QED BY <2>1, <2>2
<1>6. ASSUME NEW d \in 1..Days PROVE spent[d] <= Bound' /\ (d > day => spent[d] = 0)
  <2>1. spent[d] \in Nat
    BY DEF TypeOK
  <2>2. Bound <= Bound' /\ Bound' \in Nat
    BY <1>2, <1>3
  <2> QED BY <1>3, <2>1, <2>2 DEF DueInv
<1> QED BY <1>1, <1>5, <1>6 DEF DueInv

LEMMA SumArith ==
  ASSUME NEW a1 \in Nat, NEW a2 \in Nat, NEW c1 \in Nat, NEW c2 \in Nat, NEW h1 \in Nat, NEW h2 \in Nat,
         NEW b \in Nat, NEW k \in Nat, NEW n \in Nat, NEW x1 \in Nat, NEW x2 \in Nat, NEW y \in Nat, NEW z \in Nat,
         NEW o \in Nat,
         a2 + y = a1 + (y + b), c2 + z = c1 + (z + k), h2 + x1 = h1 + x2, k + n + x2 = b + x1, c1 + h1 + o = a1
  PROVE  c2 + h2 + (o + n) = a2
  OBVIOUS

\* A call that is answered is Answered, and held until it is recorded; the two
\* ends of the sum move together.
LEMMA SumsKept ==
  ASSUME TypeOK, EveryCallIsCharged, NEW r \in Runs, NEW b \in Nat, NEW k \in Nat, NEW n \in Nat, NEW q \in RunState,
         Answered' = [Answered EXCEPT ![r] = @ + b], spent' = [spent EXCEPT ![day] = @ + k],
         outage'.lost = outage.lost + n,
         TotalOf(Held)' \in Nat, TotalOf(Held)' + run[r].usage = TotalOf(Held) + q.usage,
         k + n + q.usage = b + run[r].usage
  PROVE  EveryCallIsCharged'
<1> USE SynthesisAssumption
<1>1. PICK u, u2, v, v2 : u = Answered /\ u2 = Answered' /\ v = spent /\ v2 = spent'
  OBVIOUS
<1>2. u \in [Runs -> Nat] /\ v \in [1..Days -> Nat] /\ day \in 1..Days /\ run \in [Runs -> RunState] /\ outage.lost \in Nat
  BY <1>1, AnsweredType DEF TypeOK, RunState
<1>3. u2 \in [Runs -> Nat]
  BY <1>1, <1>2
<1>31. v2 \in [1..Days -> Nat]
  BY <1>1, <1>2
<1>4. \A w \in Runs \ {r} : u2[w] = u[w]
  BY <1>1, <1>2
<1>41. u2[r] = u[r] + b
  BY <1>1, <1>2
<1>5. \A d \in (1..Days) \ {day} : v2[d] = v[d]
  BY <1>1, <1>2
<1>51. v2[day] = v[day] + k
  BY <1>1, <1>2
<1>6. TotalOf(u2) + u[r] = TotalOf(u) + u2[r]
  <2>1. IsFiniteSet(Runs)
    OBVIOUS
  <2>2. u \in [Runs -> Nat]
    BY <1>2
  <2> QED BY ONLY <2>1, <2>2, <1>3, <1>4, TotalChanges
<1>7. IsFiniteSet(1..Days)
  BY FS_Interval
<1>8. TotalOf(v2) + v[day] = TotalOf(v) + v2[day]
  <2>1. v \in [1..Days -> Nat] /\ day \in 1..Days
    BY <1>2
  <2> QED BY ONLY <2>1, <1>7, <1>31, <1>5, TotalChanges
<1>9. TotalOf(u) \in Nat /\ TotalOf(u2) \in Nat /\ TotalOf(v) \in Nat /\ TotalOf(v2) \in Nat
  BY <1>2, <1>3, <1>31, <1>7, UnitsFinite
<1>10. Held \in [Runs -> Nat]
  BY <1>2 DEF Held, RunState
<1>11. TotalOf(Held) \in Nat
  BY <1>10, UnitsFinite
<1>12. TotalOf(v) + TotalOf(Held) + outage.lost = TotalOf(u)
  BY <1>1 DEF EveryCallIsCharged, Held
<1>13. run[r].usage \in Nat /\ q.usage \in Nat /\ u[r] \in Nat /\ v[day] \in Nat
  <2>1. run[r] \in RunState
    BY <1>2
  <2>2. run[r].usage \in Nat /\ q.usage \in Nat
    BY <2>1 DEF RunState
  <2>3. u[r] \in Nat
    BY <1>2
  <2>4. v[day] \in Nat
    BY <1>2
  <2> QED BY <2>2, <2>3, <2>4
<1>14. TotalOf(v2) + TotalOf(Held)' + outage'.lost = TotalOf(u2)
  <2>1. PICK a1, a2, c1, c2, h1, h2 : /\ a1 = TotalOf(u) /\ a2 = TotalOf(u2) /\ c1 = TotalOf(v)
                                       /\ c2 = TotalOf(v2) /\ h1 = TotalOf(Held) /\ h2 = TotalOf(Held)'
    OBVIOUS
  <2>2. PICK x1, x2, y, z, o : x1 = run[r].usage /\ x2 = q.usage /\ y = u[r] /\ z = v[day] /\ o = outage.lost
    OBVIOUS
  <2>3. /\ a1 \in Nat /\ a2 \in Nat /\ c1 \in Nat /\ c2 \in Nat /\ h1 \in Nat /\ h2 \in Nat
        /\ x1 \in Nat /\ x2 \in Nat /\ y \in Nat /\ z \in Nat /\ o \in Nat
    BY <1>2, <1>9, <1>11, <1>13, <2>1, <2>2
  <2>4. a2 + y = a1 + (y + b)
    BY <1>41, <1>6, <2>1, <2>2, Zenon
  <2>5. c2 + z = c1 + (z + k)
    BY <1>51, <1>8, <2>1, <2>2, Zenon
  <2>6. h2 + x1 = h1 + x2
    BY <2>1, <2>2, Zenon
  <2>7. k + n + x2 = b + x1
    BY <2>2, Zenon
  <2>8. c1 + h1 + o = a1
    BY <1>12, <2>1, <2>2, Zenon
  <2>9. c2 + h2 + (o + n) = a2
    BY ONLY <2>3, <2>4, <2>5, <2>6, <2>7, <2>8, SumArith, b \in Nat, k \in Nat, n \in Nat
  <2> QED BY <2>1, <2>2, <2>9, Zenon
<1>15. Held' = [w \in Runs |-> run'[w].usage]
  BY DEF Held
<1>16. TotalOf(Held)' = TotalOf([w \in Runs |-> run'[w].usage])
  BY <1>15 DEF TotalOf, Units
<1>17. TotalOf(spent)' = TotalOf(v2) /\ TotalOf(Answered)' = TotalOf(u2)
  BY <1>1 DEF TotalOf, Units
<1> QED BY <1>14, <1>16, <1>17 DEF EveryCallIsCharged, TotalOf, Units

\* A step of a run in terms of what it moves: b units billed and answered, k of them counted,
\* n lost, p a check that passed unanswered.
Moved(r, q, b, k, n, p) ==
  /\ run' = [run EXCEPT ![r] = q]
  /\ \/ q.pc \in {"idle", "completed", "failed"}
     \/ Active(r)
     \/ Cardinality({w \in Runs : Active(w)}) < Workers
  /\ Answered' = [Answered EXCEPT ![r] = @ + b] /\ Ledger'
  /\ spent' = [spent EXCEPT ![day] = @ + k]
  /\ outage' = [passed |-> outage.passed + p, lost |-> outage.lost + n]
  /\ day' = day /\ cache' \subseteq {Key[w] : w \in Runs}
  /\ traced' \in [Runs -> Nat] /\ \A w \in Runs \ {r} : traced'[w] = traced[w]
  /\ k + n + q.usage = b + run[r].usage
  /\ q.pc # "charge" => q.usage = 0
  /\ q.pc # "completed" => traced'[r] + q.usage = Answered[r] + b
  /\ \/ p = 0 /\ k + DueOf(q) <= DueOf(run[r])
     \/ p = 0 /\ k = 0 /\ spent[day] + Estimate <= Limit
     \/ p = 1 /\ k = 0 /\ DueOf(q) <= RunCost

LEMMA MoveKept ==
  ASSUME SynthesisInv, NEW r \in Runs, NEW q \in RunState,
         NEW b \in Nat, NEW k \in Nat, NEW n \in Nat, NEW p \in {0, 1}, Moved(r, q, b, k, n, p)
  PROVE  SynthesisInv'
<1> USE DEF Moved
<1> USE SynthesisAssumption
<1>1. /\ run' \in [Runs -> RunState]
      /\ Cardinality({w \in Runs : Active(w)})' <= Workers
      /\ TotalOf(Held)' + run[r].usage = TotalOf(Held) + q.usage
      /\ TotalOf(Due)' + DueOf(run[r]) = TotalOf(Due) + DueOf(q)
      /\ TotalOf(Held)' \in Nat /\ TotalOf(Due)' \in Nat /\ TotalOf(Due)' <= Workers * RunCost
  BY RunMoves DEF SynthesisInv
<1>2. TypeOK'
  <2>0. /\ spent \in [1..Days -> Nat] /\ day \in 1..Days
        /\ outage.passed \in Nat /\ outage.lost \in Nat
    BY DEF SynthesisInv, TypeOK
  <2>1. /\ billed' \in [Runs -> Nat] /\ unheard' \in [Runs -> Nat]
        /\ \A w \in Runs : unheard'[w] <= billed'[w]
    BY DEF Ledger
  <2>2. spent' \in [1..Days -> Nat]
    <3>1. spent[day] + k \in Nat
      BY <2>0
    <3> QED BY <2>0, <3>1
  <2>3. outage' \in [passed : Nat, lost : Nat]
    <3>1. p \in Nat
      OBVIOUS
    <3>2. PICK x, y : x = outage.passed /\ y = outage.lost
      OBVIOUS
    <3>3. x \in Nat /\ y \in Nat
      BY <2>0, <3>2
    <3>4. x + p \in Nat /\ y + n \in Nat
      BY <3>1, <3>3
    <3>5. outage.passed + p \in Nat /\ outage.lost + n \in Nat
      BY <3>2, <3>4, Zenon
    <3> QED BY <3>5
  <2> QED BY <1>1, <2>0, <2>1, <2>2, <2>3 DEF TypeOK, RunState
<1>3. EveryCallIsCharged'
  <2>1. outage'.lost = outage.lost + n
    OBVIOUS
  <2> QED BY <1>1, <2>1, SumsKept DEF SynthesisInv
<1>4. HeldInv'
  <2>0. Answered \in [Runs -> Nat]
    BY AnsweredType DEF SynthesisInv
  <2>1. run'[r] = q /\ Answered'[r] = Answered[r] + b
    BY <2>0 DEF SynthesisInv, TypeOK
  <2>2. \A w \in Runs \ {r} : run'[w] = run[w] /\ Answered'[w] = Answered[w]
    BY <2>0 DEF SynthesisInv, TypeOK
  <2> QED BY <2>1, <2>2 DEF SynthesisInv, HeldInv
<1>5. DueInv'
  <2>1. outage'.passed = outage.passed + p /\ outage.passed \in Nat
    BY DEF SynthesisInv, TypeOK
  <2>2. PICK c, c2, e, e2 : c = TotalOf(Due) /\ c2 = TotalOf(Due)' /\ e = DueOf(run[r]) /\ e2 = DueOf(q)
    OBVIOUS
  <2>3. run[r] \in RunState
    BY DEF SynthesisInv, TypeOK, RunState
  <2>4. c \in Nat /\ c2 \in Nat /\ e \in Nat /\ e2 \in Nat /\ RunCost \in Nat
    BY <1>1, <2>2, <2>3, DueNow, DueType, CostType DEF SynthesisInv
  <2>5. c2 + e = c + e2
    BY <1>1, <2>2
  <2>9. spent \in [1..Days -> Nat] /\ day \in 1..Days
    BY DEF SynthesisInv, TypeOK
  <2>6. CASE p = 0 /\ k + DueOf(q) <= DueOf(run[r])
    <3>1. k + e2 <= e
      BY <2>2, <2>6, Zenon
    <3>2. c2 + k <= c
      <4>1. k \in Nat
        OBVIOUS
      <4> QED BY ONLY <4>1, <2>4, <2>5, <3>1
    <3>3. TotalOf(Due)' + k <= TotalOf(Due)
      BY <2>2, <3>2, Zenon
    <3>4. outage'.passed = outage.passed
      BY <2>1, <2>6
    <3>5. TypeOK /\ DueInv /\ day' = day /\ spent' = [spent EXCEPT ![day] = @ + k] /\ TotalOf(Due)' \in Nat
      BY <1>1 DEF SynthesisInv
    <3>6. k \in Nat
      OBVIOUS
    <3> QED BY ONLY <3>3, <3>4, <3>5, <3>6, BudgetKept
  <2>7. CASE p = 0 /\ k = 0 /\ spent[day] + Estimate <= Limit
    <3>1. UNCHANGED <<day, spent>>
      BY <2>7, <2>9
    <3> QED BY <1>1, <2>1, <2>7, <3>1, CheckKept DEF SynthesisInv
  <2>8. CASE p = 1 /\ k = 0 /\ DueOf(q) <= RunCost
    <3>1. UNCHANGED <<day, spent>>
      BY <2>8, <2>9
    <3>2. c2 <= c + RunCost
      BY <2>2, <2>4, <2>5, <2>8
    <3> QED BY <1>1, <2>1, <2>2, <2>8, <3>1, <3>2, CheckKept DEF SynthesisInv
  <2> QED BY <2>6, <2>7, <2>8
<1> QED BY <1>2, <1>3, <1>4, <1>5 DEF SynthesisInv

\* The next attempt is no dearer than what was due before, and none costs nothing.
LEMMA RetryDue ==
  ASSUME TypeOK, NEW r \in Runs
  PROVE  /\ Retried(r) \in RunState /\ Retried(r).usage = 0 /\ Retried(r).pc \in {"call", "failed"}
         /\ DueOf(Retried(r)) <= Ahead(run[r]) /\ DueOf(Retried(r)) \in Nat
<1> USE SynthesisAssumption
<1>1. run[r] \in RunState
  BY DEF TypeOK, RunState
<1>2. Ahead(run[r]) \in Nat
  BY <1>1, DueType
<1>3. CASE run[r].attempt < MaxAttempts
  <2>1. PICK q : q = Retried(r)
    OBVIOUS
  <2>2. q = [pc |-> "call", attempt |-> run[r].attempt + 1, usage |-> 0, total |-> run[r].total]
    BY <1>1, <1>3, <2>1 DEF Retried, RunState
  <2>3. q \in RunState
    BY <1>1, <1>3, <2>2 DEF RunState, RunPc
  <2>4. PICK k \in Nat : k = MaxAttempts - q.attempt /\ k + 1 = MaxAttempts - run[r].attempt
    BY <1>1, <1>3, <2>2 DEF RunState
  <2>5. (k + 1) * MaxCost = k * MaxCost + MaxCost
    BY Times
  <2>6. Ahead(q) = k * MaxCost
    BY <2>4, Zenon DEF Ahead
  <2>7. Ahead(run[r]) = (k + 1) * MaxCost
    BY <2>4, Zenon DEF Ahead
  <2>8. DueOf(q) = Ahead(q) + MaxCost
    BY <2>2 DEF DueOf
  <2>9. DueOf(q) = Ahead(run[r])
    BY <2>5, <2>6, <2>7, <2>8, Zenon
  <2> QED BY <1>2, <2>1, <2>2, <2>3, <2>9
<1>4. CASE ~(run[r].attempt < MaxAttempts)
  <2>1. PICK q : q = Retried(r)
    OBVIOUS
  <2>2. q = [pc |-> "failed", attempt |-> run[r].attempt, usage |-> 0, total |-> run[r].total]
    BY <1>1, <1>4, <2>1 DEF Retried, RunState
  <2>3. q \in RunState /\ DueOf(q) = 0
    BY <1>1, <2>2 DEF RunState, RunPc, DueOf
  <2> QED BY <1>2, <2>1, <2>2, <2>3
<1> QED BY <1>3, <1>4

\* What the provider charges a run leaves room for what it may still charge.
LEMMA BillStart == Init => BillInv
<1> SUFFICES ASSUME Init, NEW r \in Runs PROVE billed[r] + Yet(run[r]) <= RunCost
  BY DEF BillInv
<1>1. billed[r] = 0 /\ Yet(run[r]) = RunCost
  BY DEF Init, Yet
<1> QED BY <1>1, CostType

LEMMA BillStep == TypeOK /\ BillInv /\ [Next]_vars => BillInv'
<1> SUFFICES ASSUME TypeOK, BillInv, [Next]_vars PROVE BillInv'
  OBVIOUS
<1> USE SynthesisAssumption
<1>1. run \in [Runs -> RunState] /\ billed \in [Runs -> Nat]
  BY DEF TypeOK, RunState
<1>2. ASSUME NEW r \in Runs
      PROVE  /\ Ahead(run[r]) \in Nat /\ Ahead(run[r]) + MaxCost <= RunCost
             /\ billed[r] \in Nat /\ billed[r] + Yet(run[r]) <= RunCost /\ Yet(run[r]) \in Nat
  <2>1. run[r] \in RunState
    BY <1>1
  <2>2. Ahead(run[r]) \in Nat /\ Ahead(run[r]) + MaxCost <= RunCost
    BY <2>1, DueType
  <2> QED BY <1>1, <2>2, CostType DEF BillInv, Yet
\* Where a run goes without being charged, and where a call leads.
<1>3. ASSUME NEW r \in Runs, NEW q, run' = [run EXCEPT ![r] = q], NEW c \in Nat,
             billed'[r] = billed[r] + c, \A w \in Runs \ {r} : billed'[w] = billed[w],
             Yet(q) \in Nat, c + Yet(q) <= Yet(run[r])
      PROVE  BillInv'
  <2>1. run'[r] = q /\ \A w \in Runs \ {r} : run'[w] = run[w]
    BY <1>1, <1>3
  <2>2. (billed[r] + c) + Yet(q) <= RunCost
    BY <1>2, <1>3, CostType
  <2> QED BY <1>3, <2>1, <2>2 DEF BillInv
<1>4. ASSUME NEW r \in Runs PROVE /\ Yet(Retried(r)) \in Nat /\ Yet(Retried(r)) <= Ahead(run[r])
  <2>1. /\ Retried(r).usage = 0 /\ Retried(r).pc \in {"call", "failed"}
        /\ DueOf(Retried(r)) <= Ahead(run[r]) /\ DueOf(Retried(r)) \in Nat
    BY RetryDue
  <2> QED BY <2>1 DEF DueOf, Yet
<1>5. ASSUME NEW r \in Runs, Synthesize(r) PROVE BillInv'
  <2>1. run[r] \in RunState
    BY <1>1
  <2>2. ASSUME NEW pc \in {"cache", "completed", "check", "call", "failed", "store"}, Goto(r, pc), billed' = billed,
               \/ run[r].pc \in {"idle", "cache", "check"}
               \/ run[r].pc \in {"judge", "store"} /\ pc \in {"completed", "store"}
        PROVE  BillInv'
    <3>1. PICK q : q = [run[r] EXCEPT !.pc = pc]
      OBVIOUS
    <3>2. q.pc = pc /\ Ahead(q) = Ahead(run[r]) /\ run' = [run EXCEPT ![r] = q]
      BY <1>1, <2>1, <2>2, <3>1 DEF RunState, Ahead, Goto
    <3>3. Yet(q) \in Nat /\ 0 + Yet(q) <= Yet(run[r])
      BY <1>2, <2>2, <3>2, CostType DEF Yet
    <3>4. billed'[r] = billed[r] + 0
      BY <1>2, <2>2
    <3> QED BY <1>3, <2>2, <3>2, <3>3, <3>4
  <2>3. ASSUME run[r].pc \in {"judge", "store"}, run' = [run EXCEPT ![r] = Retried(r)], billed' = billed
        PROVE  BillInv'
    <3>1. 0 + Yet(Retried(r)) <= Yet(run[r]) /\ billed'[r] = billed[r] + 0
      BY <1>2, <1>4, <2>3 DEF Yet
    <3> QED BY <1>3, <1>4, <2>3, <3>1
  <2>4. CASE Begin(r) \/ ReadCache(r) \/ Check(r)
    BY <2>2, <2>4 DEF Begin, ReadCache, Check
  <2>5. CASE Call(r)
    <3>1. PICK c, q :
            /\ c \in 0..MaxCost
            /\ run' = [run EXCEPT ![r] = q] /\ billed' = [billed EXCEPT ![r] = @ + c]
            /\ Yet(q) \in Nat /\ Yet(q) <= Ahead(run[r])
      <4>1. CASE \E c \in 0..MaxCost : /\ billed' = [billed EXCEPT ![r] = @ + c]
                                        /\ run' = [run EXCEPT ![r] = Retried(r)]
        <5>1. PICK q : q = Retried(r)
          OBVIOUS
        <5> QED BY <1>4, <4>1, <5>1
      <4>2. CASE \E c \in 1..MaxCost :
                   /\ billed' = [billed EXCEPT ![r] = @ + c]
                   /\ run' = [run EXCEPT ![r].pc = "charge", ![r].usage = c, ![r].total = @ + c]
        <5>1. PICK c \in 1..MaxCost :
                /\ billed' = [billed EXCEPT ![r] = @ + c]
                /\ run' = [run EXCEPT ![r].pc = "charge", ![r].usage = c, ![r].total = @ + c]
          BY <4>2
        <5>2. PICK q : q = [run[r] EXCEPT !.pc = "charge", !.usage = c, !.total = run[r].total + c]
          OBVIOUS
        <5>3. run' = [run EXCEPT ![r] = q] /\ q.pc = "charge" /\ q.attempt = run[r].attempt
          BY <1>1, <2>1, <5>1, <5>2 DEF RunState
        <5>4. Yet(q) = Ahead(run[r])
          BY <5>3 DEF Yet, Ahead
        <5>5. c \in 0..MaxCost /\ Yet(q) \in Nat /\ Yet(q) <= Ahead(run[r])
          BY <1>2, <5>4
        <5> QED BY <5>1, <5>3, <5>5
      <4> QED BY <2>5, <4>1, <4>2 DEF Call
    <3>2. c \in Nat /\ c <= MaxCost
      BY <3>1
    <3>4. run[r].pc = "call"
      BY <2>5 DEF Call
    <3>3. c + Yet(q) <= Yet(run[r])
      BY <1>2, <3>1, <3>2, <3>4 DEF Yet
    <3>5. billed'[r] = billed[r] + c /\ \A w \in Runs \ {r} : billed'[w] = billed[w]
      BY <1>1, <3>1
    <3> QED BY <1>3, <3>1, <3>2, <3>3, <3>5
  <2>6. CASE Charge(r)
    <3>1. PICK q : q = [run[r] EXCEPT !.pc = "judge", !.usage = 0]
      OBVIOUS
    <3>2. run' = [run EXCEPT ![r] = q] /\ q.pc = "judge" /\ q.attempt = run[r].attempt
      BY <1>1, <2>1, <2>6, <3>1 DEF RunState, Charge
    <3>3. Yet(q) = Ahead(run[r]) /\ Yet(run[r]) = Ahead(run[r])
      BY <2>6, <3>2 DEF Yet, Ahead, Charge
    <3>4. billed' = billed /\ billed'[r] = billed[r] + 0 /\ Yet(q) \in Nat /\ 0 + Yet(q) <= Yet(run[r])
      BY <1>2, <2>6, <3>3 DEF Charge
    <3> QED BY <1>3, <3>2, <3>4
  <2>7. CASE Judge(r) \/ Store(r)
    BY <2>2, <2>3, <2>7 DEF Judge, Store
  <2> QED BY <1>5, <2>4, <2>5, <2>6, <2>7 DEF Synthesize
<1>6. CASE UNCHANGED <<run, billed>>
  BY <1>6 DEF BillInv, Yet, Ahead
<1> QED BY <1>5, <1>6 DEF Next, Midnight, vars

LEMMA ChargesEnough == TypeOK /\ BillInv => RunsAreBounded
<1> SUFFICES ASSUME TypeOK, BillInv, NEW r \in Runs PROVE billed[r] <= RunCost
  BY DEF RunsAreBounded, RunCost
<1>1. run[r] \in RunState /\ billed[r] \in Nat
  BY DEF TypeOK, RunState
<1>2. Yet(run[r]) \in Nat
  BY <1>1, DueType, CostType, SynthesisAssumption DEF Yet
<1> QED BY <1>1, <1>2, CostType DEF BillInv

\* A step of a run that moves no money.
LEMMA QuietMove ==
  ASSUME SynthesisInv, NEW r \in Runs, NEW q \in RunState, run' = [run EXCEPT ![r] = q],
         \/ q.pc \in {"idle", "completed", "failed"}
         \/ Active(r)
         \/ Cardinality({w \in Runs : Active(w)}) < Workers,
         UNCHANGED <<day, spent, Answered, outage, cache>>, Ledger',
         traced' \in [Runs -> Nat], \A w \in Runs \ {r} : traced'[w] = traced[w],
         q.pc # "charge", q.usage = 0, run[r].usage = 0,
         q.pc # "completed" => traced'[r] = traced[r],
         run[r].pc # "completed",
         DueOf(q) <= DueOf(run[r])
  PROVE  SynthesisInv'
<1>1. /\ day \in 1..Days /\ spent \in [1..Days -> Nat] /\ Answered \in [Runs -> Nat] /\ traced \in [Runs -> Nat]
      /\ outage = [passed |-> outage.passed, lost |-> outage.lost] /\ outage.passed \in Nat /\ outage.lost \in Nat
      /\ cache \subseteq {Key[w] : w \in Runs} /\ run[r] \in RunState
  BY AnsweredType DEF SynthesisInv, TypeOK, RunState
<1>2. /\ Answered' = [Answered EXCEPT ![r] = @ + 0] /\ spent' = [spent EXCEPT ![day] = @ + 0]
      /\ outage' = [passed |-> outage.passed + 0, lost |-> outage.lost + 0]
  BY <1>1
<1>3. traced[r] + run[r].usage = Answered[r]
  BY DEF SynthesisInv, HeldInv
<1>4. q.pc # "completed" => traced'[r] + q.usage = Answered[r] + 0
  BY <1>1, <1>3
<1>5. 0 + DueOf(q) <= DueOf(run[r])
  <2>1. PICK x, y : x = DueOf(q) /\ y = DueOf(run[r])
    OBVIOUS
  <2>2. x \in Nat /\ x <= y
    BY <2>1, DueType
  <2>3. 0 + x <= y
    BY <2>2
  <2> QED BY <2>1, <2>3, Zenon
<1>6. 0 + 0 + q.usage = 0 + run[r].usage
  <2>1. q.usage = 0 /\ run[r].usage = 0
    OBVIOUS
  <2> QED BY ONLY <2>1
<1>7. Moved(r, q, 0, 0, 0, 0)
  BY <1>1, <1>2, <1>4, <1>5, <1>6 DEF Moved
<1> QED BY <1>7, MoveKept

\* What one call adds to the bill, answered or in vain.
LEMMA OneRunsBill ==
  ASSUME TypeOK, NEW r \in Runs, NEW c \in 0..MaxCost, billed' = [billed EXCEPT ![r] = @ + c]
  PROVE  /\ unheard' = unheard => Answered' = [Answered EXCEPT ![r] = @ + c] /\ Ledger'
         /\ unheard' = [unheard EXCEPT ![r] = @ + c] => Answered' = Answered /\ Ledger'
<1>1. c \in Nat /\ billed \in [Runs -> Nat] /\ unheard \in [Runs -> Nat]
  BY SynthesisAssumption DEF TypeOK
<1>2. \A w \in Runs : billed[w] \in Nat /\ unheard[w] \in Nat /\ unheard[w] <= billed[w]
  BY <1>1 DEF TypeOK
<1>3. \A w \in Runs : billed'[w] = IF w = r THEN billed[w] + c ELSE billed[w]
  BY <1>1
<1>4. billed' \in [Runs -> Nat]
  BY <1>1
<1>5. ASSUME unheard' = unheard PROVE Answered' = [Answered EXCEPT ![r] = @ + c] /\ Ledger'
  <2>1. Ledger'
    BY <1>1, <1>2, <1>3, <1>4, <1>5 DEF Ledger
  <2>2. Answered' = [w \in Runs |-> billed'[w] - unheard[w]]
    BY <1>5 DEF Answered
  <2>3. \A w \in Runs : billed'[w] - unheard[w] = IF w = r THEN (billed[w] - unheard[w]) + c ELSE billed[w] - unheard[w]
    BY <1>1, <1>2, <1>3
  <2>4. Answered' = [Answered EXCEPT ![r] = @ + c]
    BY <2>2, <2>3 DEF Answered
  <2> QED BY <2>1, <2>4
<1>6. ASSUME unheard' = [unheard EXCEPT ![r] = @ + c] PROVE Answered' = Answered /\ Ledger'
  <2>1. \A w \in Runs : unheard'[w] = IF w = r THEN unheard[w] + c ELSE unheard[w]
    BY <1>1, <1>6
  <2>2. unheard' \in [Runs -> Nat]
    BY <1>1, <1>6
  <2>3. \A w \in Runs : unheard'[w] <= billed'[w] /\ billed'[w] - unheard'[w] = billed[w] - unheard[w]
    BY <1>1, <1>2, <1>3, <2>1
  <2> QED BY <1>4, <2>2, <2>3, <2>1, <1>2, <1>6 DEF Ledger, Answered
<1> QED BY <1>5, <1>6

LEMMA StateMoves ==
  ASSUME NEW w \in RunState, NEW c, NEW z
  PROVE  /\ [w EXCEPT !.pc = "charge", !.usage = c, !.total = z] = [pc |-> "charge", attempt |-> w.attempt, usage |-> c, total |-> z]
         /\ [w EXCEPT !.pc = "judge", !.usage = c] = [pc |-> "judge", attempt |-> w.attempt, usage |-> c, total |-> w.total]
<1>1. PICK e : e = [w EXCEPT !.pc = "charge", !.usage = c, !.total = z]
  OBVIOUS
<1>2. e = [pc |-> e.pc, attempt |-> e.attempt, usage |-> e.usage, total |-> e.total]
  BY <1>1 DEF RunState
<1>3. e.pc = "charge" /\ e.attempt = w.attempt /\ e.usage = c /\ e.total = z
  BY <1>1 DEF RunState
<1>4. PICK e2 : e2 = [w EXCEPT !.pc = "judge", !.usage = c]
  OBVIOUS
<1>5. e2 = [pc |-> e2.pc, attempt |-> e2.attempt, usage |-> e2.usage, total |-> e2.total]
  BY <1>4 DEF RunState
<1>6. e2.pc = "judge" /\ e2.attempt = w.attempt /\ e2.usage = c /\ e2.total = w.total
  BY <1>4 DEF RunState
<1> QED BY <1>1, <1>2, <1>3, <1>4, <1>5, <1>6

LEMMA SynthesisStep == SynthesisInv /\ [Next]_vars => SynthesisInv'
<1> SUFFICES ASSUME SynthesisInv, [Next]_vars PROVE SynthesisInv'
  OBVIOUS
<1> USE SynthesisAssumption
<1>1. /\ run \in [Runs -> RunState] /\ day \in 1..Days /\ spent \in [1..Days -> Nat]
      /\ Answered \in [Runs -> Nat] /\ traced \in [Runs -> Nat]
      /\ outage = [passed |-> outage.passed, lost |-> outage.lost] /\ outage.passed \in Nat /\ outage.lost \in Nat
      /\ cache \subseteq {Key[w] : w \in Runs}
  BY AnsweredType DEF SynthesisInv, TypeOK, RunState
<1>0. UNCHANGED <<billed, unheard>> => Answered' = Answered /\ Ledger'
  BY DEF Answered, Ledger, SynthesisInv, TypeOK
<1>2. ASSUME NEW r \in Runs, Synthesize(r) PROVE SynthesisInv'
  <2> DEFINE To(pc) == [run[r] EXCEPT !.pc = pc]
  <2>1. /\ run[r] \in RunState /\ run[r].usage \in Nat /\ run[r].total \in Nat
        /\ run[r] = [pc |-> run[r].pc, attempt |-> run[r].attempt, usage |-> run[r].usage, total |-> run[r].total]
    BY <1>1 DEF RunState
  <2>2. ASSUME NEW pc, Goto(r, pc) PROVE run' = [run EXCEPT ![r] = To(pc)]
    BY <2>2, <1>1 DEF Goto
  <2>3. /\ Answered = [Answered EXCEPT ![r] = @ + 0] /\ spent = [spent EXCEPT ![day] = @ + 0]
        /\ outage = [passed |-> outage.passed + 0, lost |-> outage.lost + 0]
    BY <1>1
  <2>4. ASSUME NEW pc \in RunPc PROVE To(pc) \in RunState /\ To(pc).pc = pc /\ To(pc).usage = run[r].usage
                                      /\ Ahead(To(pc)) = Ahead(run[r])
    BY <2>1 DEF RunState, Ahead
  <2>5. DueOf(run[r]) \in Nat /\ Ahead(run[r]) \in Nat /\ Ahead(run[r]) + MaxCost <= RunCost
    BY <2>1, DueType
  <2>6. /\ run[r].pc # "charge" => run[r].usage = 0
        /\ run[r].pc # "completed" => traced[r] + run[r].usage = Answered[r]
    BY DEF SynthesisInv, HeldInv
  <2>7. ASSUME Begin(r) PROVE SynthesisInv'
    <3>1. PICK q : q = To("cache")
      OBVIOUS
    <3>2. q \in RunState /\ run' = [run EXCEPT ![r] = q] /\ q.pc = "cache" /\ q.usage = 0 /\ DueOf(q) <= DueOf(run[r])
      BY <2>1, <2>2, <2>4, <2>6, <2>7, <3>1 DEF Begin, DueOf, RunPc
    <3> QED BY <1>1, <2>6, <1>0, <2>7, <3>2, QuietMove DEF Begin
  <2>8. ASSUME ReadCache(r) PROVE SynthesisInv'
    <3>1. PICK pc \in {"completed", "check"} : Goto(r, pc)
      BY <2>8 DEF ReadCache
    <3>2. PICK q : q = To(pc)
      OBVIOUS
    <3>3. q \in RunState /\ run' = [run EXCEPT ![r] = q] /\ q.pc = pc /\ q.usage = 0 /\ DueOf(q) <= DueOf(run[r])
      BY <2>1, <2>2, <2>4, <2>6, <2>8, <3>1, <3>2 DEF ReadCache, DueOf, RunPc
    <3>4. Active(r)
      BY <2>8 DEF ReadCache, Active
    <3> QED BY <1>1, <2>6, <1>0, <2>8, <3>1, <3>3, <3>4, QuietMove DEF ReadCache
  <2>9. ASSUME Check(r) PROVE SynthesisInv'
    <3>0. Active(r) /\ run[r].pc = "check" /\ run[r].usage = 0
      BY <2>6, <2>9 DEF Check, Active
    <3>1. CASE Goto(r, "failed") /\ UNCHANGED outage
      <4>1. PICK q : q = To("failed")
        OBVIOUS
      <4>2. q \in RunState /\ run' = [run EXCEPT ![r] = q] /\ q.pc = "failed" /\ q.usage = 0 /\ DueOf(q) <= DueOf(run[r])
        BY <2>1, <2>2, <2>4, <3>0, <3>1, <4>1 DEF DueOf, RunPc
      <4> QED BY <1>1, <1>0, <2>9, <3>0, <3>1, <4>2, QuietMove DEF Check
    <3>2. ASSUME Goto(r, "call") PROVE \E q \in RunState : /\ run' = [run EXCEPT ![r] = q] /\ q.pc = "call"
                                                           /\ q.usage = 0 /\ DueOf(q) <= RunCost
      <4>1. PICK q : q = To("call")
        OBVIOUS
      <4>2. q \in RunState /\ run' = [run EXCEPT ![r] = q] /\ q.pc = "call" /\ q.usage = 0
        BY <2>1, <2>2, <2>4, <3>0, <3>2, <4>1 DEF RunPc
      <4> QED BY <4>2, DueType
    <3>3. traced' \in [Runs -> Nat] /\ \A w \in Runs \ {r} : traced'[w] = traced[w]
      BY <1>1, <2>9 DEF Check
    <3>4. CASE Goto(r, "call") /\ UNCHANGED outage /\ spent[day] + Estimate <= Limit
      <4>1. PICK q \in RunState : run' = [run EXCEPT ![r] = q] /\ q.pc = "call" /\ q.usage = 0
        BY <3>2, <3>4
      <4>2. traced'[r] + q.usage = Answered[r] + 0
        BY <1>1, <2>6, <2>9, <3>0, <4>1 DEF Check
      <4>3. /\ Answered' = [Answered EXCEPT ![r] = @ + 0] /\ Ledger' /\ spent' = [spent EXCEPT ![day] = @ + 0]
            /\ outage' = [passed |-> outage.passed + 0, lost |-> outage.lost + 0]
        BY <1>0, <2>3, <2>9, <3>4 DEF Check
      <4>4. 0 + 0 + q.usage = 0 + run[r].usage
        <5>1. q.usage = 0 /\ run[r].usage = 0
          BY <3>0, <4>1
        <5> QED BY ONLY <5>1
      <4>5. Moved(r, q, 0, 0, 0, 0)
        BY <1>1, <2>9, <3>0, <3>3, <3>4, <4>1, <4>2, <4>3, <4>4 DEF Check, Moved
      <4> QED BY <4>5, MoveKept
    <3>5. CASE Goto(r, "call") /\ outage' = [outage EXCEPT !.passed = @ + 1]
      <4>1. PICK q \in RunState : run' = [run EXCEPT ![r] = q] /\ q.pc = "call" /\ q.usage = 0 /\ DueOf(q) <= RunCost
        BY <3>2, <3>5
      <4>2. traced'[r] + q.usage = Answered[r] + 0
        BY <1>1, <2>6, <2>9, <3>0, <4>1 DEF Check
      <4>3. /\ Answered' = [Answered EXCEPT ![r] = @ + 0] /\ Ledger' /\ spent' = [spent EXCEPT ![day] = @ + 0]
            /\ outage' = [passed |-> outage.passed + 1, lost |-> outage.lost + 0]
        <5>1. outage.lost + 0 = outage.lost
          BY <1>1
        <5>2. outage' = [passed |-> outage.passed + 1, lost |-> outage.lost]
          BY <1>1, <3>5
        <5> QED BY <1>0, <2>3, <2>9, <5>1, <5>2 DEF Check
      <4>4. 0 + 0 + q.usage = 0 + run[r].usage
        <5>1. q.usage = 0 /\ run[r].usage = 0
          BY <3>0, <4>1
        <5> QED BY ONLY <5>1
      <4>5. Moved(r, q, 0, 0, 0, 1)
        BY <1>1, <2>9, <3>0, <3>3, <4>1, <4>2, <4>3, <4>4 DEF Check, Moved
      <4> QED BY <4>5, MoveKept
    <3> QED BY <2>9, <3>1, <3>4, <3>5 DEF Check
  <2>10. ASSUME run[r].pc \in {"call", "judge", "store"}, run' = [run EXCEPT ![r] = Retried(r)],
                UNCHANGED <<day, spent, cache, Answered, traced, outage>>, Ledger'
         PROVE  SynthesisInv'
    <3>1. PICK q : q = Retried(r)
      OBVIOUS
    <3>2. q \in RunState /\ q.usage = 0 /\ q.pc \in {"call", "failed"} /\ DueOf(q) <= Ahead(run[r]) /\ DueOf(q) \in Nat
      BY <3>1, RetryDue DEF SynthesisInv
    <3>3. run[r].usage = 0 /\ Active(r)
      BY <2>6, <2>10 DEF Active
    <3>4. Ahead(run[r]) <= DueOf(run[r])
      BY <2>5, <2>10, <3>3, SynthesisAssumption DEF DueOf
    <3>5. DueOf(q) <= DueOf(run[r])
      BY <2>5, <3>2, <3>4
    <3> QED BY <1>1, <2>10, <3>1, <3>2, <3>3, <3>5, QuietMove
  <2>11. ASSUME Call(r) PROVE SynthesisInv'
    <3>1. ASSUME NEW c \in 0..MaxCost, billed' = [billed EXCEPT ![r] = @ + c],
                 unheard' = [unheard EXCEPT ![r] = @ + c], run' = [run EXCEPT ![r] = Retried(r)]
          PROVE  SynthesisInv'
      <4>1. Answered' = Answered /\ Ledger'
        BY <3>1, OneRunsBill DEF SynthesisInv
      <4>2. run[r].pc = "call" /\ UNCHANGED <<day, spent, cache, traced, outage>>
        BY <2>11 DEF Call
      <4> QED BY <2>10, <3>1, <4>1, <4>2
    <3>2. ASSUME NEW c \in 1..MaxCost, billed' = [billed EXCEPT ![r] = @ + c], UNCHANGED unheard,
                 run' = [run EXCEPT ![r].pc = "charge", ![r].usage = c, ![r].total = @ + c]
          PROVE  SynthesisInv'
      <4>1. PICK q : q = [pc |-> "charge", attempt |-> run[r].attempt, usage |-> c, total |-> run[r].total + c]
        OBVIOUS
      <4>2. q \in RunState /\ run' = [run EXCEPT ![r] = q] /\ c \in Nat
        <5>1. c \in Nat /\ c \in 0..MaxCost /\ run[r].attempt \in 1..MaxAttempts
          BY <2>1 DEF RunState
        <5>2. run[r].total + c \in Nat
          BY <2>1, <5>1
        <5>3. q \in RunState
          BY <4>1, <5>1, <5>2 DEF RunState, RunPc
        <5>4. [run[r] EXCEPT !.pc = "charge", !.usage = c, !.total = run[r].total + c] = q
          <6>1. PICK w \in RunState : w = run[r]
            BY <2>1
          <6>2. PICK z : z = w.total + c
            OBVIOUS
          <6>3. [w EXCEPT !.pc = "charge", !.usage = c, !.total = z] = [pc |-> "charge", attempt |-> w.attempt, usage |-> c, total |-> z]
            BY StateMoves
          <6> QED BY ONLY <6>1, <6>2, <6>3, <4>1
        <5>5. run' = [run EXCEPT ![r] = [run[r] EXCEPT !.pc = "charge", !.usage = c, !.total = run[r].total + c]]
          BY <1>1, <3>2
        <5> QED BY <5>1, <5>3, <5>4, <5>5
      <4>3. Active(r) /\ run[r].pc = "call" /\ run[r].usage = 0
        BY <2>6, <2>11 DEF Call, Active
      <4>4. Ahead(q) = Ahead(run[r])
        BY <4>1 DEF Ahead
      <4>5. DueOf(q) = Ahead(run[r]) + c /\ DueOf(run[r]) = Ahead(run[r]) + MaxCost
        BY <4>1, <4>3, <4>4 DEF DueOf
      <4>6. 0 + DueOf(q) <= DueOf(run[r])
        BY <2>5, <4>5
      <4>7. spent' = [spent EXCEPT ![day] = @ + 0] /\ outage' = [passed |-> outage.passed + 0, lost |-> outage.lost + 0]
        BY <2>3, <2>11 DEF Call
      <4>8. traced' \in [Runs -> Nat] /\ (\A w \in Runs \ {r} : traced'[w] = traced[w]) /\ traced'[r] = traced[r]
        BY <1>1, <2>11 DEF Call
      <4>9. 0 + 0 + q.usage = c + run[r].usage /\ traced'[r] + q.usage = Answered[r] + c
        <5>1. q.usage = c /\ run[r].usage = 0 /\ c \in Nat
          BY <4>1, <4>2, <4>3
        <5>2. traced'[r] = Answered[r] /\ Answered[r] \in Nat
          BY <1>1, <2>6, <4>3, <4>8
        <5> QED BY ONLY <5>1, <5>2
      <4>11. Answered' = [Answered EXCEPT ![r] = @ + c] /\ Ledger'
        <5>1. c \in 0..MaxCost
          BY <4>2, <3>2
        <5> QED BY <3>2, <5>1, OneRunsBill DEF SynthesisInv
      <4>10. Moved(r, q, c, 0, 0, 0)
        BY <1>1, <2>11, <3>2, <4>11, <4>1, <4>2, <4>3, <4>6, <4>7, <4>8, <4>9 DEF Call, Moved
      <4> QED BY <4>2, <4>10, MoveKept
    <3> QED BY <2>11, <3>1, <3>2 DEF Call
  <2>12. ASSUME Charge(r) PROVE SynthesisInv'
    <3>1. PICK q : q = [pc |-> "judge", attempt |-> run[r].attempt, usage |-> 0, total |-> run[r].total]
      OBVIOUS
    <3>2. q \in RunState /\ run' = [run EXCEPT ![r] = q]
      <4>1. q \in RunState
        BY <2>1, <3>1, SynthesisAssumption DEF RunState, RunPc
      <4>2. [run[r] EXCEPT !.pc = "judge", !.usage = 0] = q
        BY <2>1, <3>1, StateMoves
      <4>3. run' = [run EXCEPT ![r] = [run[r] EXCEPT !.pc = "judge", !.usage = 0]]
        BY <1>1, <2>12 DEF Charge
      <4> QED BY <4>1, <4>2, <4>3
    <3>3. Active(r) /\ run[r].pc = "charge"
      BY <2>12 DEF Charge, Active
    <3>4. Ahead(q) = Ahead(run[r])
      BY <3>1 DEF Ahead
    <3>5. DueOf(q) = Ahead(run[r]) /\ DueOf(run[r]) = Ahead(run[r]) + run[r].usage
      BY <2>5, <3>1, <3>3, <3>4 DEF DueOf
    <3>6. run[r].usage + DueOf(q) <= DueOf(run[r]) /\ 0 + DueOf(q) <= DueOf(run[r])
      BY <2>1, <2>5, <3>5
    <3>7. traced' \in [Runs -> Nat] /\ (\A w \in Runs \ {r} : traced'[w] = traced[w])
          /\ traced'[r] = traced[r] + run[r].usage
      <4>1. PICK n : n = traced[r] + run[r].usage
        OBVIOUS
      <4>2. n \in Nat /\ traced \in [Runs -> Nat]
        BY <1>1, <2>1, <4>1
      <4>3. traced' = [traced EXCEPT ![r] = n]
        BY <2>12, <4>1 DEF Charge
      <4> QED BY <4>1, <4>2, <4>3
    <3>8. traced'[r] + q.usage = Answered[r] + 0
      BY <1>1, <2>1, <2>6, <3>1, <3>3, <3>7
    <3>9. /\ Answered' = [Answered EXCEPT ![r] = @ + 0] /\ Ledger' /\ day' = day /\ cache' = cache
      BY <1>0, <2>3, <2>12 DEF Charge
    <3>10. PICK u \in Nat : u = run[r].usage
      BY <2>1
    <3>11. CASE spent' = [spent EXCEPT ![day] = @ + u] /\ UNCHANGED outage
      <4>1. outage' = [passed |-> outage.passed + 0, lost |-> outage.lost + 0]
        BY <2>3, <3>11
      <4>2. u + 0 + q.usage = 0 + run[r].usage
        BY <3>1, <3>10
      <4>3. Moved(r, q, 0, u, 0, 0)
        BY <1>1, <3>1, <3>2, <3>3, <3>6, <3>7, <3>8, <3>9, <3>10, <3>11, <4>1, <4>2 DEF Moved
      <4> QED BY <3>2, <4>3, MoveKept
    <3>12. CASE outage' = [outage EXCEPT !.lost = @ + u] /\ UNCHANGED spent
      <4>1. outage' = [passed |-> outage.passed + 0, lost |-> outage.lost + u] /\ spent' = [spent EXCEPT ![day] = @ + 0]
        BY <1>1, <2>3, <3>12
      <4>2. 0 + u + q.usage = 0 + run[r].usage
        <5>1. q.usage = 0 /\ run[r].usage = u /\ u \in Nat
          BY <3>1, <3>10
        <5> QED BY ONLY <5>1
      <4>3. Moved(r, q, 0, 0, u, 0)
        BY <1>1, <3>1, <3>2, <3>3, <3>6, <3>7, <3>8, <3>9, <4>1, <4>2 DEF Moved
      <4> QED BY <3>2, <4>3, MoveKept
    <3> QED BY <2>12, <3>10, <3>11, <3>12 DEF Charge
  <2>13. ASSUME Judge(r) PROVE SynthesisInv'
    <3>1. CASE run' = [run EXCEPT ![r] = Retried(r)]
      BY <1>0, <2>10, <2>13, <3>1 DEF Judge
    <3>2. CASE Goto(r, "store")
      <4>1. PICK q : q = To("store")
        OBVIOUS
      <4>2. Active(r) /\ run[r].pc = "judge" /\ run[r].usage = 0
        BY <2>6, <2>13 DEF Judge, Active
      <4>3. q \in RunState /\ run' = [run EXCEPT ![r] = q] /\ q.pc = "store" /\ q.usage = 0 /\ Ahead(q) = Ahead(run[r])
        BY <2>1, <2>2, <2>4, <3>2, <4>1, <4>2 DEF RunPc
      <4>4. DueOf(q) <= DueOf(run[r])
        BY <2>5, <4>2, <4>3 DEF DueOf
      <4> QED BY <1>1, <1>0, <2>13, <4>2, <4>3, <4>4, QuietMove DEF Judge
    <3> QED BY <2>13, <3>1, <3>2 DEF Judge
  <2>14. ASSUME Store(r) PROVE SynthesisInv'
    <3>1. CASE run' = [run EXCEPT ![r] = Retried(r)] /\ UNCHANGED <<cache, traced>>
      BY <1>0, <2>10, <2>14, <3>1 DEF Store
    <3>2. CASE cache' = cache \cup {Key[r]} /\ traced' = [traced EXCEPT ![r] = @ + run[r].total] /\ Goto(r, "completed")
      <4>1. PICK q : q = To("completed")
        OBVIOUS
      <4>2. Active(r) /\ run[r].pc = "store" /\ run[r].usage = 0
        BY <2>6, <2>14 DEF Store, Active
      <4>3. q \in RunState /\ run' = [run EXCEPT ![r] = q] /\ q.pc = "completed" /\ q.usage = 0 /\ DueOf(q) = 0
        BY <2>1, <2>2, <2>4, <3>2, <4>1, <4>2 DEF RunPc, DueOf
      <4>4. 0 + DueOf(q) <= DueOf(run[r])
        BY <2>5, <4>3
      <4>5. traced' \in [Runs -> Nat] /\ \A w \in Runs \ {r} : traced'[w] = traced[w]
        BY <1>1, <2>1, <3>2
      <4>6. /\ Answered' = [Answered EXCEPT ![r] = @ + 0] /\ Ledger' /\ spent' = [spent EXCEPT ![day] = @ + 0] /\ day' = day
            /\ outage' = [passed |-> outage.passed + 0, lost |-> outage.lost + 0]
        BY <1>0, <2>3, <2>14 DEF Store
      <4>7. cache' \subseteq {Key[w] : w \in Runs}
        BY <1>1, <3>2
      <4>8. 0 + 0 + q.usage = 0 + run[r].usage
        BY <4>2, <4>3
      <4>9. Moved(r, q, 0, 0, 0, 0)
        BY <4>2, <4>3, <4>4, <4>5, <4>6, <4>7, <4>8 DEF Moved
      <4> QED BY <4>3, <4>9, MoveKept
    <3> QED BY <2>14, <3>1, <3>2 DEF Store
  <2> QED BY <1>2, <2>7, <2>8, <2>9, <2>11, <2>12, <2>13, <2>14 DEF Synthesize
<1>3. CASE day' \in day..Days /\ UNCHANGED <<spent, cache, run, billed, unheard, traced, outage>>
  <2>1. TypeOK' /\ EveryCallIsCharged' /\ HeldInv'
    BY <1>0, <1>1, <1>3 DEF SynthesisInv, TypeOK, EveryCallIsCharged, HeldInv, TotalOf, Units, Active
  <2>2. Bound' = Bound /\ Due' = Due
    BY <1>3 DEF Bound, Headroom, RunCost, Due, DueOf, Ahead
  <2>3. TotalOf(Due)' = TotalOf(Due)
    BY <2>2 DEF TotalOf, Units
  <2>4. PICK c, w, h : c = TotalOf(Due) /\ w = Workers * RunCost /\ h = (Workers + outage.passed) * RunCost
    OBVIOUS
  <2>5. c \in Nat /\ c <= w /\ w \in Nat /\ h \in Nat /\ w <= h
    BY <1>1, <2>4, DueNow, CostType, Times DEF SynthesisInv
  <2>6. Headroom \in Nat /\ Bound = Headroom + h
    BY <2>4 DEF Bound, Headroom
  <2>7. c <= Bound /\ Bound \in Nat
    BY <2>5, <2>6
  <2>8. spent[day'] + c <= Bound
    <3>1. CASE day' = day
      BY <2>4, <3>1 DEF SynthesisInv, DueInv
    <3>2. CASE day' # day
      <4>1. day' \in 1..Days /\ day' > day
        BY <1>1, <1>3, <3>2
      <4>2. spent[day'] = 0
        BY <4>1 DEF SynthesisInv, DueInv
      <4> QED BY <2>5, <2>7, <4>2
    <3> QED BY <3>1, <3>2
  <2>9. ASSUME NEW d \in 1..Days PROVE spent[d] <= Bound /\ (d > day' => spent[d] = 0)
    BY <1>1, <1>3 DEF SynthesisInv, DueInv
  <2>10. DueInv'
    BY <1>3, <2>2, <2>3, <2>4, <2>8, <2>9 DEF DueInv
  <2> QED BY <2>1, <2>10 DEF SynthesisInv
<1>4. CASE Midnight
  BY <1>1, <1>3, <1>4 DEF Midnight
<1>5. CASE UNCHANGED vars
  BY <1>1, <1>3, <1>5 DEF vars
<1> QED BY <1>2, <1>4, <1>5 DEF Next

LEMMA SynthesisStart == Init => SynthesisInv
<1> SUFFICES ASSUME Init PROVE SynthesisInv
  OBVIOUS
<1> USE SynthesisAssumption DEF Init
<1>1. \A r \in Runs : ~Active(r)
  BY DEF Active
<1>2. {r \in Runs : Active(r)} = {}
  BY <1>1
<1>3. TypeOK
  <2>1. Cardinality({r \in Runs : Active(r)}) <= Workers
    <3>1. Cardinality({}) = 0 /\ Workers >= 0
      BY FS_EmptySet
    <3> QED BY <1>2, <3>1
  <2>2. run \in [Runs -> [pc : RunPc, attempt : 1..MaxAttempts, usage : 0..MaxCost, total : Nat]]
    BY DEF RunPc
  <2> QED BY <2>1, <2>2 DEF TypeOK
<1>4. Due \in [Runs -> Nat] /\ \A r \in Runs : Due[r] = 0
  BY DEF Due, DueOf
<1>5. TotalOf(Due) = 0
  BY <1>4, NothingTotals
<1>6. TotalOf([r \in Runs |-> run[r].usage]) = 0
  <2>1. PICK h : h = [r \in Runs |-> run[r].usage]
    OBVIOUS
  <2>2. h \in [Runs -> Nat] /\ \A r \in Runs : h[r] = 0
    BY <2>1
  <2>3. TotalOf(h) = 0
    BY <2>2, NothingTotals
  <2> QED BY <2>1, <2>3
<1>7. TotalOf(spent) = 0 /\ TotalOf(Answered) = 0
  <2>1. spent \in [1..Days -> Nat] /\ \A d \in 1..Days : spent[d] = 0
    OBVIOUS
  <2>2. Answered \in [Runs -> Nat] /\ \A r \in Runs : Answered[r] = 0
    BY DEF Answered
  <2> QED BY <2>1, <2>2, NothingTotals
<1>8. EveryCallIsCharged
  BY <1>6, <1>7 DEF EveryCallIsCharged
<1>9. HeldInv
  BY DEF HeldInv, Answered
<1>10. Bound \in Nat
  <2>1. (Workers + outage.passed) * RunCost \in Nat
    BY CostType, Times
  <2> QED BY <2>1 DEF Bound, Headroom
<1>11. DueInv
  BY <1>5, <1>10 DEF DueInv
<1> QED BY <1>3, <1>8, <1>9, <1>11 DEF SynthesisInv

LEMMA SynthesisEnough == SynthesisInv /\ BillInv => SpendIsAccounted
<1> SUFFICES ASSUME SynthesisInv, BillInv PROVE SpendIsAccounted
  OBVIOUS
<1>1. CeilingHolds
  BY DEF SynthesisInv, DueInv, CeilingHolds, Bound, RunCost
<1>2. FailedSpendIsTraced
  <2>1. ASSUME NEW r \in Runs, run[r].pc = "failed" PROVE traced[r] = Answered[r]
    <3>1. traced[r] + 0 = Answered[r] /\ traced[r] \in Nat
      BY <2>1 DEF SynthesisInv, HeldInv, TypeOK
    <3> QED BY <3>1
  <2> QED BY <2>1 DEF FailedSpendIsTraced
<1> QED BY <1>1, <1>2, ChargesEnough DEF SynthesisInv, SpendIsAccounted

\* The money is accounted for (SpendIsAccounted), for any number of runs,
\* workers, attempts and days: every call that was charged for and returned is on
\* a day's counter, is being recorded or was lost to Redis; no run is charged for
\* more than its attempts, calls that throw included; no day's counter passes the
\* ceiling by more than the runs under way may cost; and what a failed run paid
\* for calls that returned is on its trace (budgetHandle.ts, synthesize.ts).
THEOREM SpendAccounted == StoresSpec => []SpendIsAccounted
<1>1. StoresInit => SynthesisInv /\ BillInv
  BY SynthesisStart, BillStart DEF StoresInit
<1>2. SynthesisInv /\ BillInv /\ [StoresNext]_<<part, vars, s, m, t, j>> => SynthesisInv' /\ BillInv'
  <2>1. [StoresNext]_<<part, vars, s, m, t, j>> => [Next]_vars
    BY DEF StoresNext
  <2> QED BY <2>1, SynthesisStep, BillStep DEF SynthesisInv
<1> QED BY <1>1, <1>2, SynthesisEnough, PTL DEF StoresSpec

(***************************************************************************)
(* Job records                                                             *)
(***************************************************************************)

JobRecord == [status : {"none", "queued", "cloning", "completed", "failed"}, error : BOOLEAN, analysis : BOOLEAN]
PostState == {"new", "hit", "created", "served", "queued", "refused", "lost", "cut"}
RunsState == [taken : Nat, open : SUBSET Nat, erred : BOOLEAN]
RequestState ==
  [at : {"idle", "notice", "progress", "analysis", "answered"},
   kind : {"none", "missing", "progress", "result", "failed", "pending", "inconsistent", "cut"},
   job : Jobs, record : JobRecord, notice : BOOLEAN]

RecordsType ==
  /\ linked \in BOOLEAN /\ links \in Nat
  /\ docs \in [Jobs -> JobRecord] /\ held \in [Jobs -> JobRecord]
  /\ post \in [Jobs -> PostState] /\ runs \in [Jobs -> RunsState]
  /\ request \in [Requests -> RequestState] /\ began \in [Requests -> JobRecord]

\* A record that exists has a status, one that completed its analysis, and one
\* that failed its error.
Sane(record) ==
  /\ record.status = "none" => record = J!NoRecord
  /\ record.status = "completed" => record.analysis
  /\ record.status = "failed" => record.error

RecordInv ==
  \A w \in Jobs :
    /\ Sane(docs[w]) /\ Sane(held[w])
    /\ docs[w].error => runs[w].erred \/ post[w] = "refused"
    /\ held[w].error => post[w] = "refused"

\* Without an outage every job that was created is in the database.
KeptInv ==
  links = 0 => /\ linked
               /\ \A w \in Jobs : post[w] \notin {"new", "hit"} => docs[w] # J!NoRecord

\* What a request has in hand is what it read first.
RequestInv ==
  \A q \in Requests :
    LET now == request[q]
    IN /\ Sane(began[q])
       /\ now.at = "notice" => now.kind = "progress" /\ docs[now.job] # J!NoRecord
       /\ now.at \in {"progress", "analysis"} =>
            post[now.job] \notin {"new", "hit"} /\ now.record = began[q] /\ now.kind = "result"
       /\ now.at = "analysis" => now.record.analysis

RecordsInv == RecordsType /\ RecordInv /\ KeptInv /\ RequestInv /\ J!UnkeptIsTold /\ J!TornReadsOnly

LEMMA RecordsConstants == Jobs # {} /\ Links \in Nat /\ Deliveries \in Nat
  BY StoresAssumption

LEMMA RecordsStart == J!Init => RecordsInv
<1> SUFFICES ASSUME J!Init PROVE RecordsInv
  OBVIOUS
<1> USE RecordsConstants DEF J!Init, J!NoRecord
<1>1. RecordsType
  <2>1. J!NoRecord \in JobRecord
    BY DEF JobRecord
  <2>2. PICK w \in Jobs : w = CHOOSE x \in Jobs : TRUE
    OBVIOUS
  <2>3. [at |-> "idle", kind |-> "none", job |-> w, record |-> J!NoRecord, notice |-> FALSE] \in RequestState
    BY <2>1 DEF RequestState
  <2>4. request \in [Requests -> RequestState]
    BY <2>2, <2>3
  <2> QED BY <2>1, <2>4 DEF RecordsType, PostState, RunsState
<1>2. RecordInv /\ KeptInv
  BY DEF RecordInv, KeptInv, Sane
<1>3. RequestInv /\ J!UnkeptIsTold /\ J!TornReadsOnly
  BY DEF RequestInv, Sane, J!UnkeptIsTold, J!TornReadsOnly, J!Told
<1> QED BY <1>1, <1>2, <1>3 DEF RecordsInv

\* What is written where the process looks is in that place, and nothing else is.
LEMMA PutRecord ==
  ASSUME RecordsType, NEW w \in Jobs, NEW record \in JobRecord, J!Put(w, record)
  PROVE  /\ docs' \in [Jobs -> JobRecord] /\ held' \in [Jobs -> JobRecord]
         /\ \A x \in Jobs \ {w} : docs'[x] = docs[x] /\ held'[x] = held[x]
         /\ linked => docs'[w] = record /\ held' = held
         /\ ~linked => held'[w] = record /\ docs' = docs
  BY DEF RecordsType, J!Put

\* A step that no request takes leaves what requests were told, as long as no
\* record goes away and no call is taken back.
LEMMA RequestsUntouched ==
  ASSUME RecordsInv, RecordsType', UNCHANGED <<request, began>>,
         \A w \in Jobs : docs[w] # J!NoRecord => docs'[w] # J!NoRecord,
         \A w \in Jobs : post[w] \notin {"new", "hit"} => post'[w] \notin {"new", "hit"},
         links' >= links
  PROVE  RequestInv' /\ J!UnkeptIsTold' /\ J!TornReadsOnly'
<1> USE DEF J!NoRecord
<1>1. \A q \in Requests : request[q].job \in Jobs
  BY DEF RecordsInv, RecordsType, RequestState
<1>2. RequestInv'
  BY <1>1 DEF RecordsInv, RequestInv, Sane
<1>3. J!UnkeptIsTold'
  <2>1. links \in Nat /\ links' \in Nat
    BY DEF RecordsInv, RecordsType
  <2> QED BY <1>1, <2>1 DEF RecordsInv, J!UnkeptIsTold, J!Told
<1>4. J!TornReadsOnly'
  BY DEF RecordsInv, J!TornReadsOnly, J!Told
<1> QED BY <1>2, <1>3, <1>4

\* A step on one record keeps the records.
LEMMA RecordStep ==
  ASSUME RecordsInv, NEW w \in Jobs,
         \/ J!CacheHit(w) \/ J!createAnalysisJob(w) \/ J!Enqueued(w) \/ J!Refused(w) \/ J!WorkerTakes(w)
         \/ \E n \in 1..Deliveries, ending \in J!Endings : J!WorkerEnds(w, n, ending)
  PROVE  RecordsInv'
<1> USE DEF J!NoRecord
<1>1. /\ docs[w] \in JobRecord /\ held[w] \in JobRecord /\ post[w] \in PostState /\ runs[w] \in RunsState
      /\ RecordsType /\ RecordInv /\ KeptInv /\ linked \in BOOLEAN /\ links \in Nat
  BY DEF RecordsInv, RecordsType
<1>2. ASSUME J!CacheHit(w) PROVE RecordsInv'
  <2>1. RecordsType'
    BY <1>1, <1>2 DEF J!CacheHit, RecordsType, PostState
  <2>2. RecordInv' /\ KeptInv'
    BY <1>1, <1>2 DEF J!CacheHit, RecordInv, KeptInv, RecordsType, Sane
  <2>3. \A x \in Jobs : post[x] \notin {"new", "hit"} => post'[x] \notin {"new", "hit"}
    BY <1>1, <1>2 DEF J!CacheHit, RecordsType
  <2>4. UNCHANGED <<request, began, docs, links>>
    BY <1>2 DEF J!CacheHit
  <2>5. RequestInv' /\ J!UnkeptIsTold' /\ J!TornReadsOnly'
    BY <1>1, <2>1, <2>3, <2>4, RequestsUntouched
  <2> QED BY <2>1, <2>2, <2>5 DEF RecordsInv
<1>3. ASSUME J!createAnalysisJob(w) PROVE RecordsInv'
  <2>1. PICK record \in {J!Fresh, J!FromCache}, to \in {"created", "served"} :
           /\ J!Put(w, record) /\ post' = [post EXCEPT ![w] = to] /\ post[w] \in {"new", "hit"}
    BY <1>3 DEF J!createAnalysisJob
  <2>2. record \in JobRecord /\ record # J!NoRecord /\ ~record.error /\ Sane(record)
    <3>1. CASE record = J!Fresh
      BY <3>1 DEF J!Fresh, JobRecord, Sane
    <3>2. CASE record = J!FromCache
      BY <3>2 DEF J!FromCache, JobRecord, Sane
    <3> QED BY <3>1, <3>2
  <2>3. UNCHANGED <<linked, links, runs, request, began>>
    BY <1>3 DEF J!createAnalysisJob
  <2>4. /\ docs' \in [Jobs -> JobRecord] /\ held' \in [Jobs -> JobRecord]
        /\ \A x \in Jobs \ {w} : docs'[x] = docs[x] /\ held'[x] = held[x]
        /\ linked => docs'[w] = record /\ held' = held
        /\ ~linked => held'[w] = record /\ docs' = docs
    BY <1>1, <2>1, <2>2, PutRecord
  <2>5. RecordsType'
    BY <1>1, <2>1, <2>3, <2>4 DEF RecordsType, PostState
  <2>6. \A x \in Jobs \ {w} : post'[x] = post[x]
    BY <1>1, <2>1 DEF RecordsType
  <2>7. post'[w] = to
    BY <1>1, <2>1 DEF RecordsType
  <2>8. RecordInv'
    BY <1>1, <2>1, <2>2, <2>3, <2>4, <2>6, <2>7 DEF RecordInv, Sane
  <2>9. KeptInv'
    BY <1>1, <2>2, <2>3, <2>4, <2>6 DEF KeptInv
  <2>10. \A x \in Jobs : docs[x] # J!NoRecord => docs'[x] # J!NoRecord
    BY <1>1, <2>2, <2>4
  <2>11. RequestInv' /\ J!UnkeptIsTold' /\ J!TornReadsOnly'
    BY <1>1, <2>3, <2>5, <2>6, <2>7, <2>10, RequestsUntouched
  <2> QED BY <2>5, <2>8, <2>9, <2>11 DEF RecordsInv
<1>4. ASSUME J!Enqueued(w) PROVE RecordsInv'
  <2>1. RecordsType'
    BY <1>1, <1>4 DEF J!Enqueued, RecordsType, PostState
  <2>2. RecordInv' /\ KeptInv'
    BY <1>1, <1>4 DEF J!Enqueued, RecordInv, KeptInv, RecordsType, Sane
  <2>3. \A x \in Jobs : post[x] \notin {"new", "hit"} => post'[x] \notin {"new", "hit"}
    BY <1>1, <1>4 DEF J!Enqueued, RecordsType
  <2>4. UNCHANGED <<request, began, docs, links>>
    BY <1>4 DEF J!Enqueued
  <2>5. RequestInv' /\ J!UnkeptIsTold' /\ J!TornReadsOnly'
    BY <1>1, <2>1, <2>3, <2>4, RequestsUntouched
  <2> QED BY <2>1, <2>2, <2>5 DEF RecordsInv
<1>5. ASSUME J!Refused(w) PROVE RecordsInv'
  <2>1. UNCHANGED <<linked, links, runs, request, began>> /\ post[w] = "created"
    BY <1>5 DEF J!Refused
  <2>2. CASE J!Found(w) = J!NoRecord
    <3>1. UNCHANGED <<docs, held>> /\ post' = [post EXCEPT ![w] = "lost"]
      BY <1>5, <2>2 DEF J!Refused
    <3>2. RecordsType'
      BY <1>1, <2>1, <3>1 DEF RecordsType, PostState
    <3>3. RecordInv' /\ KeptInv'
      BY <1>1, <2>1, <3>1 DEF RecordInv, KeptInv, RecordsType, Sane
    <3>4. \A x \in Jobs : post[x] \notin {"new", "hit"} => post'[x] \notin {"new", "hit"}
      BY <1>1, <3>1 DEF RecordsType
    <3>5. RequestInv' /\ J!UnkeptIsTold' /\ J!TornReadsOnly'
      BY <1>1, <2>1, <3>1, <3>2, <3>4, RequestsUntouched
    <3> QED BY <3>2, <3>3, <3>5 DEF RecordsInv
  <2>3. CASE J!Found(w) # J!NoRecord
    <3>1. PICK record : record = [J!Found(w) EXCEPT !.status = "failed", !.error = TRUE]
      OBVIOUS
    <3>2. record \in JobRecord /\ record.status = "failed" /\ record.error
      BY <1>1, <3>1 DEF J!Found, JobRecord
    <3>3. J!Put(w, record) /\ post' = [post EXCEPT ![w] = "refused"]
      BY <1>5, <2>3, <3>1 DEF J!Refused
    <3>4. /\ docs' \in [Jobs -> JobRecord] /\ held' \in [Jobs -> JobRecord]
          /\ \A x \in Jobs \ {w} : docs'[x] = docs[x] /\ held'[x] = held[x]
          /\ linked => docs'[w] = record /\ held' = held
          /\ ~linked => held'[w] = record /\ docs' = docs
      BY <1>1, <3>2, <3>3, PutRecord
    <3>5. RecordsType'
      BY <1>1, <2>1, <3>3, <3>4 DEF RecordsType, PostState
    <3>6. post'[w] = "refused" /\ \A x \in Jobs \ {w} : post'[x] = post[x]
      BY <1>1, <3>3 DEF RecordsType
    <3>7. Sane(record) /\ record # J!NoRecord
      BY <3>2 DEF Sane
    <3>8. RecordInv'
      BY <1>1, <2>1, <3>4, <3>6, <3>7 DEF RecordInv, Sane
    <3>9. KeptInv'
      BY <1>1, <2>1, <3>4, <3>6, <3>7 DEF KeptInv
    <3>10. \A x \in Jobs : docs[x] # J!NoRecord => docs'[x] # J!NoRecord
      BY <1>1, <3>4, <3>7
    <3>11. RequestInv' /\ J!UnkeptIsTold' /\ J!TornReadsOnly'
      BY <1>1, <2>1, <3>5, <3>6, <3>10, RequestsUntouched
    <3> QED BY <3>5, <3>8, <3>9, <3>11 DEF RecordsInv
  <2> QED BY <2>2, <2>3
<1>6. ASSUME J!WorkerTakes(w) PROVE RecordsInv'
  <2>1. UNCHANGED <<linked, links, held, post, request, began>>
    BY <1>6 DEF J!WorkerTakes
  <2>2. runs' \in [Jobs -> RunsState] /\ \A x \in Jobs : runs'[x].erred = runs[x].erred
    <3>1. runs[w].taken \in Nat /\ runs[w].taken + 1 \in Nat /\ runs[w].open \cup {runs[w].taken + 1} \in SUBSET Nat
      BY <1>1 DEF RunsState
    <3>2. PICK e : e = runs'[w]
      OBVIOUS
    <3>3. e \in RunsState /\ e.erred = runs[w].erred /\ runs' = [runs EXCEPT ![w] = e]
      BY <1>1, <1>6, <3>1, <3>2, RecordsConstants DEF J!WorkerTakes, RunsState, RecordsType
    <3> QED BY <1>1, <3>3 DEF RecordsType
  <2>3. /\ docs' \in [Jobs -> JobRecord] /\ \A x \in Jobs \ {w} : docs'[x] = docs[x]
        /\ docs'[w] = docs[w] \/ docs'[w] = [docs[w] EXCEPT !.status = "cloning"]
    <3>1. CASE docs[w] = J!NoRecord
      BY <1>1, <1>6, <3>1 DEF J!WorkerTakes, RecordsType
    <3>2. CASE docs[w] # J!NoRecord
      <4>1. PICK e : e = [docs[w] EXCEPT !.status = "cloning"]
        OBVIOUS
      <4>2. e \in JobRecord
        BY <1>1, <4>1 DEF JobRecord
      <4>3. docs' = [docs EXCEPT ![w] = e]
        BY <1>1, <1>6, <3>2, <4>1 DEF J!WorkerTakes, RecordsType
      <4> QED BY <1>1, <4>1, <4>2, <4>3 DEF RecordsType
    <3> QED BY <3>1, <3>2
  <2>4. Sane(docs'[w]) /\ docs'[w].error = docs[w].error /\ (docs[w] # J!NoRecord => docs'[w] # J!NoRecord)
    BY <1>1, <2>3 DEF RecordInv, Sane, JobRecord
  <2>5. RecordsType'
    BY <1>1, <2>1, <2>2, <2>3 DEF RecordsType
  <2>6. RecordInv' /\ KeptInv'
    BY <1>1, <2>1, <2>2, <2>3, <2>4 DEF RecordInv, KeptInv, Sane
  <2>7. RequestInv' /\ J!UnkeptIsTold' /\ J!TornReadsOnly'
    <3>1. \A x \in Jobs : docs[x] # J!NoRecord => docs'[x] # J!NoRecord
      BY <2>3, <2>4
    <3>2. links' >= links
      BY <1>1, <2>1
    <3> QED BY <2>1, <2>5, <3>1, <3>2, RequestsUntouched
  <2> QED BY <2>5, <2>6, <2>7 DEF RecordsInv
<1>7. ASSUME NEW n \in 1..Deliveries, NEW ending \in J!Endings, J!WorkerEnds(w, n, ending) PROVE RecordsInv'
  <2>1. UNCHANGED <<linked, links, held, post, request, began>>
    BY <1>7 DEF J!WorkerEnds
  <2>2. /\ runs' \in [Jobs -> RunsState] /\ \A x \in Jobs \ {w} : runs'[x] = runs[x]
        /\ (runs[w].erred \/ ending # "completed") => runs'[w].erred
    <3>1. PICK e : e = [[runs[w] EXCEPT !.open = @ \ {n}] EXCEPT !.erred = @ \/ ending # "completed"]
      OBVIOUS
    <3>2. e \in RunsState /\ (runs[w].erred \/ ending # "completed" => e.erred)
      BY <1>1, <3>1 DEF RunsState
    <3>3. runs' = [runs EXCEPT ![w] = e]
      BY <1>1, <1>7, <3>1 DEF J!WorkerEnds, RecordsType, RunsState
    <3> QED BY <1>1, <3>2, <3>3 DEF RecordsType
  <2>3. /\ docs' \in [Jobs -> JobRecord] /\ \A x \in Jobs \ {w} : docs'[x] = docs[x]
        /\ docs'[w].status \in {"completed", "failed"}
        /\ docs'[w].status = "completed" => docs'[w].analysis
        /\ docs'[w].status = "failed" => docs'[w].error
        /\ docs'[w].error => docs[w].error \/ ending # "completed"
    <3>1. PICK e : e = [status |-> IF ending = "failed" THEN "failed" ELSE "completed",
                        error |-> docs[w].error \/ ending # "completed",
                        analysis |-> docs[w].analysis \/ ending # "failed"]
      OBVIOUS
    <3>2. /\ e \in JobRecord /\ e.status \in {"completed", "failed"}
          /\ e.status = "completed" => e.analysis
          /\ e.status = "failed" => e.error
          /\ e.error => docs[w].error \/ ending # "completed"
      BY <1>1, <3>1 DEF JobRecord
    <3>3. docs' = [docs EXCEPT ![w] = e]
      BY <1>1, <1>7, <3>1 DEF J!WorkerEnds, RecordsType
    <3> QED BY <1>1, <3>2, <3>3 DEF RecordsType
  <2>4. Sane(docs'[w]) /\ docs'[w] # J!NoRecord
    BY <2>3 DEF Sane
  <2>5. RecordsType'
    BY <1>1, <2>1, <2>2, <2>3 DEF RecordsType
  <2>6. RecordInv' /\ KeptInv'
    BY <1>1, <2>1, <2>2, <2>3, <2>4 DEF RecordInv, KeptInv, Sane
  <2>7. RequestInv' /\ J!UnkeptIsTold' /\ J!TornReadsOnly'
    <3>1. \A x \in Jobs : docs[x] # J!NoRecord => docs'[x] # J!NoRecord
      BY <2>3, <2>4
    <3>2. links' >= links
      BY <1>1, <2>1
    <3> QED BY <2>1, <2>5, <3>1, <3>2, RequestsUntouched
  <2> QED BY <2>5, <2>6, <2>7 DEF RecordsInv
<1> QED BY <1>2, <1>3, <1>4, <1>5, <1>6, <1>7

\* A step of a request that is answered, or goes on with what it read.
Goes(q, now) ==
  /\ request' = [request EXCEPT ![q] = now]
  /\ UNCHANGED <<linked, links, docs, held, post, runs>>
  /\ began' \in [Requests -> JobRecord] /\ Sane(began'[q])
  /\ \A x \in Requests \ {q} : began'[x] = began[x]
  /\ now.at = "notice" => now.kind = "progress" /\ docs[now.job] # J!NoRecord
  /\ now.at \in {"progress", "analysis"} =>
        post[now.job] \notin {"new", "hit"} /\ now.record = began'[q] /\ now.kind = "result"
  /\ now.at = "analysis" => now.record.analysis
  /\ now.at = "answered" =>
        /\ now.kind = "progress" /\ ~now.notice => docs[now.job] # J!NoRecord
        /\ now.kind = "missing" => links > 0
        /\ now.kind = "result" => began'[q].analysis
        /\ now.kind = "inconsistent" => began'[q].status # "completed"
        /\ now.kind = "failed" => now.record.error

LEMMA RequestStep ==
  ASSUME RecordsInv, NEW q \in Requests, NEW now \in RequestState, Goes(q, now)
  PROVE  RecordsInv'
<1> USE DEF Goes
<1>1. request'[q] = now /\ (\A x \in Requests \ {q} : request'[x] = request[x]) /\ request' \in [Requests -> RequestState]
  BY DEF RecordsInv, RecordsType
<1>2. RecordsType'
  BY <1>1 DEF RecordsInv, RecordsType
<1>3. RecordInv' /\ KeptInv'
  BY DEF RecordsInv, RecordInv, KeptInv, Sane
<1>4. RequestInv'
  BY <1>1 DEF RecordsInv, RequestInv, Sane
<1>5. J!UnkeptIsTold'
  BY <1>1 DEF RecordsInv, J!UnkeptIsTold, J!Told, J!NoRecord
<1>6. J!TornReadsOnly'
  BY <1>1 DEF RecordsInv, J!TornReadsOnly, J!Told
<1> QED BY <1>2, <1>3, <1>4, <1>5, <1>6 DEF RecordsInv

\* The first read of a request.
LEMMA FirstRead ==
  ASSUME RecordsInv, NEW q \in Requests, NEW w \in Jobs, NEW kind, NEW next, J!Reads(q, w, kind, next),
         \/ kind = "progress" /\ next = IF linked THEN "notice" ELSE "answered"
         \/ kind = "result" /\ next = "progress"
  PROVE  RecordsInv'
<1>1. /\ docs[w] \in JobRecord /\ held[w] \in JobRecord /\ Sane(docs[w]) /\ Sane(held[w]) /\ linked \in BOOLEAN
      /\ links \in Nat /\ began \in [Requests -> JobRecord] /\ request \in [Requests -> RequestState]
  BY DEF RecordsInv, RecordsType, RecordInv
<1>2. PICK record : record = J!Found(w)
  OBVIOUS
<1>3. record \in JobRecord /\ Sane(record) /\ (linked => record = docs[w])
  BY <1>1, <1>2 DEF J!Found
<1>4. PICK now : now = [at |-> IF record = J!NoRecord THEN "answered" ELSE next,
                        kind |-> IF record = J!NoRecord THEN "missing" ELSE kind,
                        job |-> w, record |-> record, notice |-> ~linked]
  OBVIOUS
<1>5. now \in RequestState
  BY <1>1, <1>3, <1>4 DEF RequestState
<1>6. /\ request' = [request EXCEPT ![q] = now] /\ began' = [began EXCEPT ![q] = record]
      /\ UNCHANGED <<linked, links, docs, held, post, runs>> /\ post[w] \notin {"new", "hit"}
  BY <1>2, <1>4 DEF J!Reads
<1>7. began' \in [Requests -> JobRecord] /\ began'[q] = record /\ \A x \in Requests \ {q} : began'[x] = began[x]
  BY <1>1, <1>3, <1>6
<1>8. record = J!NoRecord => links > 0
  BY <1>1, <1>3, <1>6 DEF RecordsInv, KeptInv
<1>9. CASE record = J!NoRecord
  <2>1. now.at = "answered" /\ now.kind = "missing"
    BY <1>4, <1>9
  <2> QED BY <1>3, <1>5, <1>6, <1>7, <1>8, <1>9, <2>1, RequestStep DEF Goes
<1>10. CASE record # J!NoRecord
  <2>1. now.at = next /\ now.kind = kind /\ now.job = w /\ now.record = record /\ now.notice = ~linked
    BY <1>4, <1>10
  <2> QED BY <1>1, <1>3, <1>5, <1>6, <1>7, <1>10, <2>1, RequestStep DEF Goes
<1> QED BY <1>9, <1>10

LEMMA LaterRead ==
  ASSUME RecordsInv, NEW q \in Requests,
         J!withPersistenceDegradation(q) \/ J!resultAnswered(q) \/ J!getAnalysisById(q)
  PROVE  RecordsInv'
<1>1. /\ request[q] \in RequestState /\ request \in [Requests -> RequestState] /\ linked \in BOOLEAN /\ links \in Nat
      /\ began \in [Requests -> JobRecord] /\ Sane(began[q]) /\ request[q].job \in Jobs
      /\ docs[request[q].job] \in JobRecord /\ held[request[q].job] \in JobRecord
      /\ Sane(docs[request[q].job]) /\ Sane(held[request[q].job])
  BY DEF RecordsInv, RecordsType, RecordInv, RequestInv, RequestState
<1>2. UNCHANGED <<linked, links, docs, held, post, runs, began>>
  BY DEF J!withPersistenceDegradation, J!resultAnswered, J!getAnalysisById
<1>3. /\ request[q].at = "notice" => request[q].kind = "progress" /\ docs[request[q].job] # J!NoRecord
      /\ request[q].at \in {"progress", "analysis"} =>
            post[request[q].job] \notin {"new", "hit"} /\ request[q].record = began[q] /\ request[q].kind = "result"
      /\ request[q].at = "analysis" => request[q].record.analysis
  BY DEF RecordsInv, RequestInv
<1>4. ASSUME NEW kind \in {"missing", "progress", "result", "failed", "pending", "inconsistent"}, NEW record \in JobRecord,
             J!Answer(q, kind, record)
      PROVE  \E now \in RequestState : /\ request' = [request EXCEPT ![q] = now]
                                       /\ now = [at |-> "answered", kind |-> kind, job |-> request[q].job,
                                                 record |-> record, notice |-> ~linked]
  <2>1. PICK now : now = [at |-> "answered", kind |-> kind, job |-> request[q].job, record |-> record, notice |-> ~linked]
    OBVIOUS
  <2>2. now \in RequestState
    BY <1>1, <2>1 DEF RequestState
  <2>3. request' = [request EXCEPT ![q] = now]
    <3>1. PICK e : e = [request[q] EXCEPT !.at = "answered", !.kind = kind, !.record = record, !.notice = ~linked]
      OBVIOUS
    <3>2. request' = [request EXCEPT ![q] = e]
      BY <1>1, <1>4, <3>1 DEF J!Answer
    <3>3. e = [at |-> e.at, kind |-> e.kind, job |-> e.job, record |-> e.record, notice |-> e.notice]
      BY <1>1, <3>1 DEF RequestState
    <3>4. e.at = "answered" /\ e.kind = kind /\ e.job = request[q].job /\ e.record = record /\ e.notice = ~linked
      BY <1>1, <3>1 DEF RequestState
    <3> QED BY <2>1, <3>2, <3>3, <3>4
  <2> QED BY <2>1, <2>2, <2>3
<1>5. CASE J!withPersistenceDegradation(q)
  <2>1. PICK now \in RequestState : /\ request' = [request EXCEPT ![q] = now]
                                     /\ now = [at |-> "answered", kind |-> "progress", job |-> request[q].job,
                                               record |-> request[q].record, notice |-> ~linked]
    <3>1. request[q].record \in JobRecord /\ J!Answer(q, "progress", request[q].record)
      BY <1>1, <1>5 DEF J!withPersistenceDegradation, RequestState
    <3> QED BY <1>4, <3>1
  <2>2. docs[now.job] # J!NoRecord /\ now.at = "answered" /\ now.kind = "progress"
    BY <1>3, <1>5, <2>1 DEF J!withPersistenceDegradation
  <2> QED BY <1>1, <1>2, <2>1, <2>2, RequestStep DEF Goes
<1>6. CASE J!getAnalysisById(q)
  <2>1. PICK kind \in {"result", "missing"} : kind = IF linked THEN "result" ELSE "missing"
    OBVIOUS
  <2>2. PICK now \in RequestState : /\ request' = [request EXCEPT ![q] = now]
                                     /\ now = [at |-> "answered", kind |-> kind, job |-> request[q].job,
                                               record |-> request[q].record, notice |-> ~linked]
    <3>1. request[q].record \in JobRecord /\ J!Answer(q, kind, request[q].record)
      BY <1>1, <1>6, <2>1 DEF J!getAnalysisById, RequestState
    <3> QED BY <1>4, <3>1
  <2>3. now.at = "answered" /\ now.kind = kind /\ began[q].analysis
    BY <1>3, <1>6, <2>2 DEF J!getAnalysisById
  <2>4. kind = "missing" => links > 0
    BY <1>1, <2>1 DEF RecordsInv, KeptInv
  <2> QED BY <1>1, <1>2, <2>1, <2>2, <2>3, <2>4, RequestStep DEF Goes
<1>7. CASE J!resultAnswered(q)
  <2>1. PICK progress : progress = J!Found(request[q].job)
    OBVIOUS
  <2>2. progress \in JobRecord /\ Sane(progress) /\ (linked => progress = docs[request[q].job])
    BY <1>1, <2>1 DEF J!Found
  <2>3. request[q].at = "progress"
    BY <1>7 DEF J!resultAnswered
  <2>4. \/ \E kind \in {"missing", "failed", "pending", "inconsistent"} :
             /\ J!Answer(q, kind, progress)
             /\ kind = "missing" => progress = J!NoRecord
             /\ kind = "failed" => progress.status = "failed"
             /\ kind = "inconsistent" => ~request[q].record.analysis
        \/ request[q].record.analysis /\ request' = [request EXCEPT ![q].at = "analysis"]
    BY <1>7, <2>1 DEF J!resultAnswered
  <2>5. ASSUME NEW kind \in {"missing", "failed", "pending", "inconsistent"}, J!Answer(q, kind, progress),
               kind = "missing" => progress = J!NoRecord,
               kind = "failed" => progress.status = "failed",
               kind = "inconsistent" => ~request[q].record.analysis
        PROVE  RecordsInv'
    <3>1. PICK now \in RequestState : /\ request' = [request EXCEPT ![q] = now]
                                       /\ now = [at |-> "answered", kind |-> kind, job |-> request[q].job,
                                                 record |-> progress, notice |-> ~linked]
      BY <1>4, <2>2, <2>5
    <3>2. now.at = "answered" /\ now.kind = kind /\ now.record = progress
      BY <3>1
    <3>3. kind = "missing" => links > 0
      BY <1>1, <1>3, <2>2, <2>3, <2>5 DEF RecordsInv, KeptInv
    <3>4. kind = "failed" => progress.error
      BY <2>2, <2>5 DEF Sane
    <3>5. kind = "inconsistent" => began[q].status # "completed"
      BY <1>1, <1>3, <2>3, <2>5 DEF Sane
    <3>6. kind # "result" /\ kind # "progress"
      OBVIOUS
    <3> QED BY <1>1, <1>2, <3>1, <3>2, <3>3, <3>4, <3>5, <3>6, RequestStep DEF Goes
  <2>6. CASE request[q].record.analysis /\ request' = [request EXCEPT ![q].at = "analysis"]
    <3>1. PICK now : now = [request[q] EXCEPT !.at = "analysis"]
      OBVIOUS
    <3>2. now \in RequestState /\ now.at = "analysis" /\ now.record = request[q].record /\ now.job = request[q].job
          /\ now.kind = request[q].kind
      BY <1>1, <3>1 DEF RequestState
    <3>3. request' = [request EXCEPT ![q] = now]
      BY <1>1, <2>6, <3>1
    <3>4. began' \in [Requests -> JobRecord] /\ Sane(began'[q]) /\ (\A x \in Requests \ {q} : began'[x] = began[x])
          /\ began'[q] = began[q]
      BY <1>1, <1>2
    <3>5. post[now.job] \notin {"new", "hit"} /\ now.record = began'[q] /\ now.kind = "result" /\ now.record.analysis
      BY <1>3, <2>3, <2>6, <3>2, <3>4
    <3>6. Goes(q, now)
      BY <1>2, <3>2, <3>3, <3>4, <3>5 DEF Goes
    <3> QED BY <3>2, <3>6, RequestStep
  <2> QED BY <2>4, <2>5, <2>6
<1> QED BY <1>5, <1>6, <1>7

LEMMA ProcessStep ==
  ASSUME RecordsInv, J!Relink \/ J!Restart \/ UNCHANGED J!recordVars
  PROVE  RecordsInv'
<1>1. CASE UNCHANGED J!recordVars
  BY <1>1 DEF RecordsInv, RecordsType, RecordInv, KeptInv, RequestInv, Sane, J!recordVars,
     J!UnkeptIsTold, J!TornReadsOnly, J!Told
<1>2. CASE J!Relink
  <2>1. RecordsType' /\ links' > 0 /\ links' >= links
    BY <1>2 DEF J!Relink, RecordsInv, RecordsType
  <2>2. RecordInv' /\ KeptInv'
    BY <1>2, <2>1 DEF J!Relink, RecordsInv, RecordInv, KeptInv, Sane
  <2>3. RequestInv' /\ J!UnkeptIsTold' /\ J!TornReadsOnly'
    BY <1>2, <2>1, RequestsUntouched DEF J!Relink
  <2> QED BY <2>1, <2>2, <2>3 DEF RecordsInv
<1>3. CASE J!Restart
  <2>1. links \in Nat /\ links' > 0 /\ links' \in Nat /\ UNCHANGED <<docs, runs, began>>
    <3>1. links \in Nat
      BY DEF RecordsInv, RecordsType
    <3>2. links' = links + 1 /\ UNCHANGED <<docs, runs, began>>
      BY <1>3 DEF J!Restart
    <3> QED BY <3>1, <3>2
  <2>2. J!NoRecord \in JobRecord /\ Sane(J!NoRecord) /\ ~J!NoRecord.error
    BY DEF J!NoRecord, JobRecord, Sane
  <2>3. /\ post' \in [Jobs -> PostState]
        /\ \A w \in Jobs : /\ post[w] = "refused" => post'[w] = "refused"
                            /\ post'[w] \in {post[w], "cut"}
    BY <1>3 DEF J!Restart, RecordsInv, RecordsType, PostState
  <2>4. ASSUME NEW q \in Requests
        PROVE  /\ request'[q] \in RequestState
               /\ \/ request'[q] = request[q] /\ request[q].at \in {"idle", "answered"}
                  \/ request'[q].at = "answered" /\ request'[q].kind = "cut"
    <3>1. request[q] \in RequestState
      BY DEF RecordsInv, RecordsType
    <3>2. CASE request[q].at \in {"idle", "answered"}
      BY <1>3, <3>1, <3>2 DEF J!Restart
    <3>3. CASE request[q].at \notin {"idle", "answered"}
      <4>1. PICK e : e = [request[q] EXCEPT !.at = "answered", !.kind = "cut"]
        OBVIOUS
      <4>2. e \in RequestState /\ e.at = "answered" /\ e.kind = "cut"
        BY <3>1, <4>1 DEF RequestState
      <4>3. request'[q] = e
        BY <1>3, <3>3, <4>1 DEF J!Restart
      <4> QED BY <4>2, <4>3
    <3> QED BY <3>2, <3>3
  <2>5. request' = [q \in Requests |-> request'[q]]
    BY <1>3 DEF J!Restart
  <2>6. request' \in [Requests -> RequestState]
    BY <2>4, <2>5
  <2>7. RecordsType'
    BY <1>3, <2>1, <2>2, <2>3, <2>6 DEF J!Restart, RecordsInv, RecordsType
  <2>8. RecordInv' /\ KeptInv'
    <3>1. \A w \in Jobs : held'[w] = J!NoRecord
      BY <1>3 DEF J!Restart
    <3> QED BY <2>1, <2>2, <2>3, <3>1 DEF RecordsInv, RecordInv, KeptInv, Sane
  <2>9. RequestInv'
    BY <2>1, <2>4 DEF RecordsInv, RequestInv, Sane
  <2>10. J!UnkeptIsTold' /\ J!TornReadsOnly'
    BY <2>1, <2>4 DEF RecordsInv, J!UnkeptIsTold, J!TornReadsOnly, J!Told, J!NoRecord
  <2> QED BY <2>7, <2>8, <2>9, <2>10 DEF RecordsInv
<1> QED BY <1>1, <1>2, <1>3

LEMMA RecordsStep == RecordsInv /\ [J!Next]_(J!recordVars) => RecordsInv'
<1> SUFFICES ASSUME RecordsInv, [J!Next]_(J!recordVars) PROVE RecordsInv'
  OBVIOUS
<1>1. ASSUME NEW q \in Requests, NEW w \in Jobs, J!getAnalysisJobProgress(q, w) \/ J!getAnalysisJob(q, w)
      PROVE  RecordsInv'
  BY <1>1, FirstRead DEF J!getAnalysisJobProgress, J!getAnalysisJob
<1> QED BY <1>1, RecordStep, LaterRead, ProcessStep DEF J!Next

LEMMA RecordsEnough == RecordsInv => J!RecordsAreHonest
<1> SUFFICES ASSUME RecordsInv PROVE J!OldErrorsOnly
  BY DEF RecordsInv, J!RecordsAreHonest
<1>1. ASSUME NEW w \in Jobs, NEW record \in {docs[w], held[w]}, record.status = "completed"
      PROVE  record.analysis /\ (record.error => runs[w].erred \/ post[w] = "refused")
  BY <1>1 DEF RecordsInv, RecordInv, Sane
<1> QED BY <1>1 DEF J!OldErrorsOnly
(***************************************************************************)
(* The store of results: what is stored is the split of its writer's       *)
(* result, what lies beside it was written by one whose payload is known,  *)
(* and every read in progress or done has one of these in hand.            *)
(***************************************************************************)

ResultRecord == [rest : Nat, cpgEdges : Nat \cup {-1}, routes : Nat \cup {-1}, edges : Nat]
SplitOf(w) == R!splitOverflow(Results[w])
Whole(w) == [by |-> w, result |-> Results[w], manifest |-> {}]
Stored(w) == [by |-> w, result |-> SplitOf(w).stored, manifest |-> SplitOf(w).manifest]

SaverInv ==
  \A w \in R!Saver :
    /\ saver[w] \in {"overflow", "document"} => ~SplitOf(w).stillTooLarge
    /\ saver[w] = "document" /\ SplitOf(w).manifest # {} => w \in payloads

\* A document that is stored fits, and what it names was written before it.
GoodDocument(doc) ==
  doc # R!Nothing =>
    /\ doc.by \in R!Saver /\ doc = Stored(doc.by)
    /\ ~SplitOf(doc.by).stillTooLarge
    /\ doc.manifest # {} => doc.by \in payloads

\* The payload is that of one who wrote it.
OverflowInv ==
  /\ saver \in [R!Saver -> {"idle", "saved", "failed", "refused", "overflow", "document"}]
  /\ payloads \subseteq R!Saver
  /\ payloads = {} => overflow = R!NoPayload
  /\ payloads # {} => overflow.by \in payloads /\ overflow = [by |-> overflow.by, payload |-> SplitOf(overflow.by).payload]

MemoryInv ==
  memory # R!Nothing => memory.by \in R!Saver /\ memory = Whole(memory.by)

ReadState ==
  \A w \in Readers :
    /\ DOMAIN reader[w] = DOMAIN R!Unread
    /\ reader[w].at = "overflow" =>
         reader[w].doc # R!Nothing /\ reader[w].doc.manifest # {} /\ GoodDocument(reader[w].doc)

\* What one read was served.
GoodRead(read) ==
  read.at = "served" =>
    LET original == Results[read.by]
    IN /\ read.result.rest = original.rest
       /\ \A f \in R!Field :
            \/ read.result[f] = original[f]
            \/ f \in read.missing /\ read.result[f] = R!Cleared(f)
            \/ \E w \in payloads \ {read.by} : read.result[f] = Results[w][f]

ResultsInv ==
  /\ SaverInv /\ GoodDocument(document) /\ OverflowInv /\ MemoryInv
  /\ DOMAIN reader = Readers /\ ReadState /\ \A w \in Readers : GoodRead(reader[w])

\* The results are records of sizes.
LEMMA ResultType ==
  ASSUME NEW w \in R!Saver
  PROVE  /\ Results[w] \in ResultRecord /\ w \in Nat \ {0}
         /\ \A f \in R!Field : Results[w][f] \in Int
         /\ SplitOf(w).manifest \subseteq R!Field /\ DOMAIN SplitOf(w).payload = SplitOf(w).manifest
         /\ \A f \in SplitOf(w).manifest : SplitOf(w).payload[f] = Results[w][f]
<1>1. Results[w] \in ResultRecord /\ w \in Nat \ {0}
  <2>1. Results \in Seq(ResultRecord)
    BY StoresAssumption DEF ResultRecord
  <2>2. w \in DOMAIN Results
    BY DEF R!Saver
  <2> QED BY <2>1, <2>2
<1>2. \A f \in R!Field : Results[w][f] \in Int
  BY <1>1 DEF ResultRecord, R!Field
<1>3. R!shed(Results[w]) \subseteq R!Field
  BY DEF R!shed
<1>4. SplitOf(w).manifest = R!shed(Results[w]) /\ SplitOf(w).payload = [f \in R!shed(Results[w]) |-> Results[w][f]]
  BY DEF SplitOf, R!splitOverflow
<1> QED BY <1>1, <1>2, <1>3, <1>4

\* What is left out is cleared, and all else is as it was.
LEMMA WithoutIs ==
  ASSUME NEW result \in ResultRecord, NEW fields, fields \subseteq R!Field
  PROVE  /\ DOMAIN R!Without(result, fields) = DOMAIN result
         /\ R!Without(result, fields).rest = result.rest
         /\ \A f \in R!Field : R!Without(result, fields)[f] = IF f \in fields THEN R!Cleared(f) ELSE result[f]
         /\ DOMAIN result = {"rest", "cpgEdges", "routes", "edges"}
<1>1. DOMAIN result = {"rest", "cpgEdges", "routes", "edges"}
  BY DEF ResultRecord
<1> QED BY <1>1 DEF R!Without, R!Field

\* What a field takes of the document.
BytesOf(result, fields, f) == IF f \in fields \/ result[f] <= 0 THEN 0 ELSE result[f]

LEMMA BytesLeft ==
  ASSUME NEW result \in ResultRecord, NEW fields, fields \subseteq R!Field
  PROVE  R!jsonBytes(R!Without(result, fields)) =
           result.rest + BytesOf(result, fields, "cpgEdges") + BytesOf(result, fields, "routes")
                       + BytesOf(result, fields, "edges")
<1>1. result.rest \in Nat /\ \A f \in R!Field : result[f] \in Int
  BY DEF ResultRecord, R!Field
<1>2. "cpgEdges" \in R!Field /\ "routes" \in R!Field /\ "edges" \in R!Field
  BY DEF R!Field
<1> DEFINE left == R!Without(result, fields)
<1>3. left.rest = result.rest
  BY WithoutIs
<1>4. ASSUME NEW f \in R!Field
      PROVE  (IF left[f] > 0 THEN left[f] ELSE 0) = BytesOf(result, fields, f)
  <2>1. left[f] = IF f \in fields THEN R!Cleared(f) ELSE result[f]
    BY WithoutIs
  <2>2. R!Cleared(f) \in {0, -1}
    BY DEF R!Cleared, R!Absent
  <2> HIDE DEF left
  <2> QED BY <1>1, <2>1, <2>2 DEF BytesOf
<1> HIDE DEF left
<1>5. R!jsonBytes(left) = result.rest + BytesOf(result, fields, "cpgEdges") + BytesOf(result, fields, "routes")
                       + BytesOf(result, fields, "edges")
  BY <1>2, <1>3, <1>4 DEF R!jsonBytes
<1> QED BY <1>5 DEF left

\* The candidates are shed in their order, and only under need.
LEMMA ShedIs ==
  ASSUME NEW w \in R!Saver
  PROVE  LET result == Results[w]
             left(F) == R!jsonBytes(R!Without(result, F))
             first == {f \in {"cpgEdges"} : result[f] > 0}
             both == {f \in {"cpgEdges", "routes"} : result[f] > 0}
         IN /\ "cpgEdges" \in R!shed(result) <=> result["cpgEdges"] > 0 /\ left({}) > Budget
            /\ "routes" \in R!shed(result) <=> result["routes"] > 0 /\ left(first) > Budget
            /\ "edges" \in R!shed(result) <=> result["edges"] > 0 /\ left(both) > Budget
<1> DEFINE result == Results[w]
           before(f) == {g \in R!Field : \E x, y \in 1..3 : /\ x < y /\ result[g] > 0
                                                            /\ R!OVERFLOW_CANDIDATES[x] = g
                                                            /\ R!OVERFLOW_CANDIDATES[y] = f}
<1>1. /\ R!OVERFLOW_CANDIDATES[1] = "cpgEdges" /\ R!OVERFLOW_CANDIDATES[2] = "routes"
      /\ R!OVERFLOW_CANDIDATES[3] = "edges" /\ 1..3 = {1, 2, 3}
  BY DEF R!OVERFLOW_CANDIDATES
<1>2. \A f \in R!Field : f \in R!shed(result) <=> result[f] > 0 /\ R!jsonBytes(R!Without(result, before(f))) > Budget
  BY DEF R!shed
<1>3. before("cpgEdges") = {}
  BY <1>1
<1>4. before("routes") = {f \in {"cpgEdges"} : result[f] > 0}
  BY <1>1 DEF R!Field
<1>5. before("edges") = {f \in {"cpgEdges", "routes"} : result[f] > 0}
  BY <1>1 DEF R!Field
<1>6. "cpgEdges" \in R!Field /\ "routes" \in R!Field /\ "edges" \in R!Field
  BY DEF R!Field
<1> HIDE DEF before, result
<1>7. /\ "cpgEdges" \in R!shed(result) <=> result["cpgEdges"] > 0 /\ R!jsonBytes(R!Without(result, {})) > Budget
      /\ "routes" \in R!shed(result) <=> result["routes"] > 0 /\ R!jsonBytes(R!Without(result, {f \in {"cpgEdges"} : result[f] > 0})) > Budget
      /\ "edges" \in R!shed(result) <=> result["edges"] > 0 /\ R!jsonBytes(R!Without(result, {f \in {"cpgEdges", "routes"} : result[f] > 0})) > Budget
  BY <1>2, <1>3, <1>4, <1>5, <1>6
<1> QED BY <1>7 DEF result

\* The last field that was shed was too much.
LEMMA ShedInNeed ==
  ASSUME NEW w \in R!Saver, R!shed(Results[w]) # {}
  PROVE  \E f \in R!shed(Results[w]) : R!jsonBytes(R!Without(Results[w], R!shed(Results[w]) \ {f})) > Budget
<1> DEFINE result == Results[w]
           gone == R!shed(result)
           left(F) == R!jsonBytes(R!Without(result, F))
           first == {f \in {"cpgEdges"} : result[f] > 0}
           both == {f \in {"cpgEdges", "routes"} : result[f] > 0}
<1>1. /\ "cpgEdges" \in gone <=> result["cpgEdges"] > 0 /\ left({}) > Budget
      /\ "routes" \in gone <=> result["routes"] > 0 /\ left(first) > Budget
      /\ "edges" \in gone <=> result["edges"] > 0 /\ left(both) > Budget
  BY ShedIs
<1>2. result \in ResultRecord /\ \A f \in R!Field : result[f] \in Int
  BY ResultType
<1>3. gone \subseteq R!Field /\ {} \subseteq R!Field /\ first \subseteq R!Field /\ both \subseteq R!Field
  BY DEF R!shed, R!Field
<1>4. ASSUME NEW F, F \subseteq R!Field
      PROVE  left(F) = result.rest + BytesOf(result, F, "cpgEdges") + BytesOf(result, F, "routes")
                                   + BytesOf(result, F, "edges")
  BY <1>2, <1>4, BytesLeft
<1>5. result.rest \in Nat /\ Budget \in Nat
  BY <1>2, StoresAssumption DEF ResultRecord
<1>6. result["cpgEdges"] \in Int /\ result["routes"] \in Int /\ result["edges"] \in Int
  BY <1>2 DEF R!Field
<1>7. left({}) >= left(first) /\ left(first) >= left(both) /\ left({}) \in Int /\ left(first) \in Int /\ left(both) \in Int
  <2> HIDE DEF left, result
  <2>1. /\ left({}) = result.rest + BytesOf(result, {}, "cpgEdges") + BytesOf(result, {}, "routes") + BytesOf(result, {}, "edges")
        /\ left(first) = result.rest + BytesOf(result, first, "cpgEdges") + BytesOf(result, first, "routes") + BytesOf(result, first, "edges")
        /\ left(both) = result.rest + BytesOf(result, both, "cpgEdges") + BytesOf(result, both, "routes") + BytesOf(result, both, "edges")
    BY <1>3, <1>4
  <2> QED BY <1>5, <1>6, <2>1 DEF BytesOf
<1> HIDE DEF left, result
<1>8. CASE "edges" \in gone
  <2>1. gone \ {"edges"} = both
    BY <1>1, <1>3, <1>5, <1>7, <1>8 DEF R!Field
  <2> QED BY <1>1, <1>8, <2>1 DEF left, result
<1>9. CASE "edges" \notin gone /\ "routes" \in gone
  <2>1. gone \ {"routes"} = first
    BY <1>1, <1>3, <1>5, <1>7, <1>9 DEF R!Field
  <2> QED BY <1>1, <1>9, <2>1 DEF left, result
<1>10. CASE "edges" \notin gone /\ "routes" \notin gone
  <2>1. gone = {"cpgEdges"}
    BY <1>3, <1>10 DEF R!Field, result
  <2>2. gone \ {"cpgEdges"} = {}
    BY <2>1
  <2> QED BY <1>1, <2>1, <2>2 DEF left, result
<1> QED BY <1>8, <1>9, <1>10

\* A document that is stored is as small as it must be and no smaller.
LEMMA StoredIsMinimal == GoodDocument(document) => R!SplitIsMinimal
<1> SUFFICES ASSUME GoodDocument(document), document # R!Nothing PROVE R!SplitIsMinimal
  BY DEF R!SplitIsMinimal
<1> DEFINE w == document.by
           gone == R!shed(Results[w])
<1>1. w \in R!Saver /\ document = Stored(w) /\ ~SplitOf(w).stillTooLarge
  BY DEF GoodDocument
<1>2. document.result = R!Without(Results[w], gone) /\ document.manifest = gone
  BY <1>1 DEF Stored, SplitOf, R!splitOverflow
<1>3. R!jsonBytes(R!Without(Results[w], gone)) <= HardLimit
  <2>1. Results[w] \in ResultRecord /\ gone \subseteq R!Field
    BY <1>1, ResultType DEF R!shed
  <2>2. R!jsonBytes(R!Without(Results[w], gone)) \in Int
    <3> HIDE DEF gone
    <3>1. Results[w].rest \in Int /\ \A f \in R!Field : Results[w][f] \in Int
      BY <1>1, <2>1, ResultType DEF ResultRecord
    <3>2. \A f \in R!Field : BytesOf(Results[w], gone, f) \in Int
      BY <3>1 DEF BytesOf
    <3>3. "cpgEdges" \in R!Field /\ "routes" \in R!Field /\ "edges" \in R!Field
      BY DEF R!Field
    <3> QED BY <2>1, <3>1, <3>2, <3>3, BytesLeft
  <2>3. ~(R!jsonBytes(R!Without(Results[w], gone)) > HardLimit)
    BY <1>1 DEF SplitOf, R!splitOverflow
  <2> QED BY <2>2, <2>3, StoresAssumption
<1>4. R!Without(Results[w], gone).rest = Results[w].rest
  BY <1>1, ResultType, WithoutIs DEF R!shed
<1>5. gone # {} => \E f \in gone : R!jsonBytes(R!Without(Results[w], gone \ {f})) > Budget
  BY <1>1, ShedInNeed
<1> HIDE DEF gone
<1> QED BY <1>2, <1>3, <1>4, <1>5 DEF R!SplitIsMinimal

LEMMA ResultsStart == R!Init => ResultsInv
<1> SUFFICES ASSUME R!Init PROVE ResultsInv
  OBVIOUS
<1>1. SaverInv
  BY DEF R!Init, SaverInv
<1>2. GoodDocument(document) /\ MemoryInv
  BY DEF R!Init, GoodDocument, MemoryInv
<1>3. OverflowInv
  BY DEF R!Init, OverflowInv
<1>4. DOMAIN reader = Readers /\ ReadState /\ \A w \in Readers : GoodRead(reader[w])
  BY DEF R!Init, ReadState, GoodRead, R!Unread
<1> QED BY <1>1, <1>2, <1>3, <1>4 DEF ResultsInv

\* As long as payloads are only added, what is read stays good.
LEMMA ReadsStay ==
  ASSUME ResultsInv, payloads \subseteq payloads', UNCHANGED reader
  PROVE  DOMAIN reader' = Readers /\ ReadState' /\ \A w \in Readers : GoodRead(reader[w])'
<1>1. ReadState'
  BY DEF ResultsInv, ReadState, GoodDocument
<1>2. \A w \in Readers : GoodRead(reader[w])'
  BY DEF ResultsInv, GoodRead
<1> QED BY <1>1, <1>2 DEF ResultsInv

\* A call of saveAnalysis keeps the store.
LEMMA SaveKept ==
  ASSUME ResultsInv, NEW w \in R!Saver,
         R!Save(w) \/ R!WriteOverflow(w) \/ R!WriteDocument(w) \/ R!SaveFails(w)
  PROVE  ResultsInv'
<1>1. SaverInv /\ GoodDocument(document) /\ OverflowInv /\ MemoryInv /\ w \in Nat \ {0}
  BY ResultType DEF ResultsInv
<1>2. saver \in [R!Saver -> {"idle", "saved", "failed", "refused", "overflow", "document"}]
  BY <1>1 DEF OverflowInv
<1>3. ASSUME R!Save(w) PROVE ResultsInv'
  <2>1. UNCHANGED <<document, overflow, reader, payloads>>
    BY <1>3 DEF R!Save
  <2>2. DOMAIN reader' = Readers /\ ReadState' /\ \A x \in Readers : GoodRead(reader[x])'
    BY <2>1, ReadsStay
  <2>3. GoodDocument(document)'
    BY <1>1, <2>1 DEF GoodDocument
  <2>4. /\ \A x \in R!Saver \ {w} : saver'[x] = saver[x]
        /\ saver' \in [R!Saver -> {"idle", "saved", "failed", "refused", "overflow", "document"}]
        /\ saver'[w] \in {"saved", "refused", "overflow", "document"}
        /\ saver'[w] \in {"overflow", "document"} => ~SplitOf(w).stillTooLarge
        /\ saver'[w] = "document" => SplitOf(w).manifest = {}
    BY <1>2, <1>3 DEF R!Save, SplitOf
  <2>5. SaverInv'
    BY <1>1, <2>1, <2>4 DEF SaverInv
  <2>6. OverflowInv'
    BY <1>1, <2>1, <2>4 DEF OverflowInv
  <2>7. MemoryInv'
    BY <1>1, <1>3 DEF R!Save, MemoryInv, Whole
  <2> QED BY <2>2, <2>3, <2>5, <2>6, <2>7 DEF ResultsInv
<1>4. ASSUME R!WriteOverflow(w) PROVE ResultsInv'
  <2>1. UNCHANGED <<document, memory, reader>> /\ payloads' = payloads \cup {w}
    BY <1>4 DEF R!WriteOverflow
  <2>2. DOMAIN reader' = Readers /\ ReadState' /\ \A x \in Readers : GoodRead(reader[x])'
    BY <2>1, ReadsStay
  <2>3. GoodDocument(document)' /\ MemoryInv'
    BY <1>1, <2>1 DEF GoodDocument, MemoryInv
  <2>4. /\ saver[w] = "overflow" /\ saver' = [saver EXCEPT ![w] = "document"]
        /\ overflow' = [by |-> w, payload |-> SplitOf(w).payload]
    BY <1>4 DEF R!WriteOverflow, SplitOf
  <2>5. SaverInv'
    BY <1>1, <1>2, <2>1, <2>4 DEF SaverInv
  <2>6. OverflowInv'
    BY <1>1, <1>2, <2>1, <2>4 DEF OverflowInv
  <2> QED BY <2>2, <2>3, <2>5, <2>6 DEF ResultsInv
<1>5. ASSUME R!WriteDocument(w) PROVE ResultsInv'
  <2>1. UNCHANGED <<overflow, memory, reader, payloads>>
    BY <1>5 DEF R!WriteDocument
  <2>2. DOMAIN reader' = Readers /\ ReadState' /\ \A x \in Readers : GoodRead(reader[x])'
    BY <2>1, ReadsStay
  <2>3. /\ saver[w] = "document" /\ saver' = [saver EXCEPT ![w] = "saved"]
        /\ document' = IF document # R!Nothing THEN document ELSE Stored(w)
    BY <1>5 DEF R!WriteDocument, SplitOf, Stored
  <2>4. SaverInv'
    BY <1>1, <1>2, <2>1, <2>3 DEF SaverInv
  <2>5. OverflowInv' /\ MemoryInv'
    BY <1>1, <1>2, <2>1, <2>3 DEF OverflowInv, MemoryInv
  <2>6. GoodDocument(document)'
    <3>1. CASE document # R!Nothing
      BY <1>1, <2>1, <2>3, <3>1 DEF GoodDocument
    <3>2. CASE document = R!Nothing
      <4>1. document' = Stored(w) /\ document'.by = w /\ document'.manifest = SplitOf(w).manifest
        BY <2>3, <3>2 DEF Stored
      <4>2. ~SplitOf(w).stillTooLarge /\ (SplitOf(w).manifest # {} => w \in payloads)
        BY <1>1, <2>3 DEF SaverInv
      <4> QED BY <2>1, <4>1, <4>2 DEF GoodDocument
    <3> QED BY <3>1, <3>2
  <2> QED BY <2>2, <2>4, <2>5, <2>6 DEF ResultsInv
<1>6. ASSUME R!SaveFails(w) PROVE ResultsInv'
  <2>1. UNCHANGED <<document, overflow, memory, reader, payloads>> /\ saver' = [saver EXCEPT ![w] = "failed"]
    BY <1>6 DEF R!SaveFails
  <2>2. DOMAIN reader' = Readers /\ ReadState' /\ \A x \in Readers : GoodRead(reader[x])'
    BY <2>1, ReadsStay
  <2>3. SaverInv' /\ GoodDocument(document)'
    BY <1>1, <1>2, <2>1 DEF SaverInv, GoodDocument
  <2>4. OverflowInv' /\ MemoryInv'
    BY <1>1, <1>2, <2>1 DEF OverflowInv, MemoryInv
  <2> QED BY <2>2, <2>3, <2>4 DEF ResultsInv
<1> QED BY <1>3, <1>4, <1>5, <1>6

\* A payload that was stored gives the fields back, whoever wrote it.
LEMMA Rehydrated ==
  ASSUME NEW doc, GoodDocument(doc), doc # R!Nothing, doc.manifest # {}, OverflowInv,
         NEW payload \in {overflow.payload, <<>>}, NEW f \in R!Field
  PROVE  LET back == R!rehydrateAnalysis(doc.result, doc.manifest, payload)
         IN /\ back.result.rest = Results[doc.by].rest
            /\ \/ back.result[f] = Results[doc.by][f]
               \/ f \in back.missing /\ back.result[f] = R!Cleared(f)
               \/ \E w \in payloads \ {doc.by} : back.result[f] = Results[w][f]
<1> DEFINE back == R!rehydrateAnalysis(doc.result, doc.manifest, payload)
           x == doc.by
           y == overflow.by
<1>1. x \in R!Saver /\ doc = Stored(x) /\ x \in payloads
  BY DEF GoodDocument
<1>2. y \in payloads /\ y \in R!Saver /\ overflow.payload = SplitOf(y).payload
  BY <1>1 DEF OverflowInv
<1>3. Results[x] \in ResultRecord /\ doc.manifest \subseteq R!Field
  BY <1>1, ResultType DEF Stored
<1>4. doc.result = R!Without(Results[x], doc.manifest)
  BY <1>1 DEF Stored, SplitOf, R!splitOverflow
<1>5. /\ DOMAIN doc.result = {"rest", "cpgEdges", "routes", "edges"}
      /\ doc.result.rest = Results[x].rest
      /\ doc.result[f] = IF f \in doc.manifest THEN R!Cleared(f) ELSE Results[x][f]
  BY <1>3, <1>4, WithoutIs
<1>6. "rest" \notin doc.manifest
  BY <1>3 DEF R!Field
<1>7. back.missing = doc.manifest \ DOMAIN payload
  BY DEF R!rehydrateAnalysis
<1>8. back.result = [k \in DOMAIN doc.result |->
                       IF k \in doc.manifest \cap DOMAIN payload THEN payload[k] ELSE doc.result[k]]
  BY DEF R!rehydrateAnalysis
<1>9. back.result.rest = Results[x].rest
  <2> HIDE DEF back
  <2> QED BY <1>5, <1>6, <1>8
<1>10. back.result[f] = IF f \in doc.manifest \cap DOMAIN payload THEN payload[f] ELSE doc.result[f]
  <2>1. f \in DOMAIN doc.result
    BY <1>5 DEF R!Field
  <2> HIDE DEF back
  <2> QED BY <1>8, <2>1
<1> HIDE DEF back, x, y
<1>11. CASE f \notin doc.manifest
  BY <1>5, <1>9, <1>10, <1>11 DEF back, x
<1>12. CASE f \in doc.manifest /\ f \notin DOMAIN payload
  BY <1>5, <1>7, <1>9, <1>10, <1>12 DEF back, x
<1>13. CASE f \in doc.manifest /\ f \in DOMAIN payload
  <2>1. payload = SplitOf(y).payload
    <3>1. DOMAIN <<>> = {}
      OBVIOUS
    <3> QED BY <1>2, <1>13, <3>1
  <2>2. payload[f] = Results[y][f]
    BY <1>2, <1>13, <2>1, ResultType
  <2>3. back.result[f] = Results[y][f]
    BY <1>10, <1>13, <2>2
  <2>4. CASE y = x
    BY <1>9, <2>3, <2>4 DEF back, x
  <2>5. CASE y # x
    BY <1>2, <1>9, <2>3, <2>5 DEF back, x
  <2> QED BY <2>4, <2>5
<1> QED BY <1>11, <1>12, <1>13

\* A read keeps the store, and is served what it should be.
LEMMA ReadKept ==
  ASSUME ResultsInv, NEW w \in Readers, R!Find(w) \/ R!withOverflow(w)
  PROVE  ResultsInv'
<1>1. UNCHANGED <<document, overflow, memory, saver, payloads>>
  BY DEF R!Find, R!withOverflow
<1>2. SaverInv' /\ GoodDocument(document)' /\ OverflowInv' /\ MemoryInv'
  BY <1>1 DEF ResultsInv, SaverInv, GoodDocument, OverflowInv, MemoryInv
<1>3. SUFFICES ASSUME NEW now,
                      reader' = [reader EXCEPT ![w] = now], DOMAIN now = DOMAIN R!Unread,
                      now.at = "overflow" => now.doc # R!Nothing /\ now.doc.manifest # {} /\ GoodDocument(now.doc),
                      GoodRead(now)
               PROVE  ResultsInv'
  <2>1. ASSUME R!Find(w)
        PROVE  \E now : /\ reader' = [reader EXCEPT ![w] = now] /\ DOMAIN now = DOMAIN R!Unread
                        /\ now.at = "overflow" => now.doc # R!Nothing /\ now.doc.manifest # {} /\ GoodDocument(now.doc)
                        /\ GoodRead(now)
    <3> DEFINE doc == IF connected THEN document ELSE memory
    <3>0. DOMAIN reader[w] = DOMAIN R!Unread /\ DOMAIN R!Unread = {"at", "doc", "by", "result", "missing"}
      BY DEF ResultsInv, ReadState, R!Unread
    <3>1. CASE doc = R!Nothing
      <4> DEFINE now == [reader[w] EXCEPT !.at = "missed"]
      <4>1. reader[w].at = "idle" /\ reader' = [reader EXCEPT ![w].at = "missed"]
        BY <2>1, <3>1 DEF R!Find
      <4>2. reader' = [reader EXCEPT ![w] = now]
        BY <4>1
      <4>3. now.at \notin {"served", "overflow"} /\ DOMAIN now = DOMAIN R!Unread
        BY <3>0, <4>1
      <4> HIDE DEF now
      <4> QED BY <4>2, <4>3 DEF GoodRead
    <3>2. CASE doc # R!Nothing /\ doc.manifest = {}
      <4> DEFINE now == [at |-> "served", doc |-> doc, by |-> doc.by, result |-> doc.result, missing |-> {}]
      <4>1. reader' = [reader EXCEPT ![w] = now]
        BY <2>1, <3>2 DEF R!Find, R!Served
      <4>2. doc.by \in R!Saver /\ doc.result.rest = Results[doc.by].rest
            /\ \A f \in R!Field : doc.result[f] = Results[doc.by][f]
        <5>1. CASE connected
          <6>1. doc.by \in R!Saver /\ doc = Stored(doc.by)
            BY <3>2, <5>1 DEF ResultsInv, GoodDocument
          <6>2. doc.result = R!Without(Results[doc.by], {})
            BY <3>2, <6>1 DEF Stored, SplitOf, R!splitOverflow
          <6>3. Results[doc.by] \in ResultRecord
            BY <6>1, ResultType
          <6> HIDE DEF doc
          <6> QED BY <6>1, <6>2, <6>3, WithoutIs
        <5>2. CASE ~connected
          BY <3>2, <5>2 DEF ResultsInv, MemoryInv, Whole
        <5> QED BY <5>1, <5>2
      <4>3. GoodRead(now)
        <5> HIDE DEF doc
        <5> QED BY <4>2 DEF GoodRead
      <4>4. DOMAIN now = DOMAIN R!Unread
        BY <3>0
      <4> HIDE DEF now, doc
      <4>5. now.at = "served"
        BY DEF now
      <4> QED BY <4>1, <4>3, <4>4, <4>5
    <3>3. CASE doc # R!Nothing /\ doc.manifest # {}
      <4> DEFINE now == [reader[w] EXCEPT !.at = "overflow", !.doc = doc]
      <4>1. reader[w].at = "idle" /\ reader' = [reader EXCEPT ![w].at = "overflow", ![w].doc = doc]
        BY <2>1, <3>3 DEF R!Find
      <4>2. reader' = [reader EXCEPT ![w] = now]
        BY <4>1
      <4>3. connected /\ GoodDocument(doc)
        BY <3>3 DEF ResultsInv, MemoryInv, Whole
      <4>4. now.at = "overflow" /\ now.doc = doc /\ DOMAIN now = DOMAIN R!Unread
        BY <3>0
      <4> HIDE DEF doc, now
      <4> QED BY <3>3, <4>2, <4>3, <4>4 DEF GoodRead
    <3> QED BY <3>1, <3>2, <3>3
  <2>2. ASSUME R!withOverflow(w)
        PROVE  \E now : /\ reader' = [reader EXCEPT ![w] = now] /\ DOMAIN now = DOMAIN R!Unread
                        /\ now.at = "overflow" => now.doc # R!Nothing /\ now.doc.manifest # {} /\ GoodDocument(now.doc)
                        /\ GoodRead(now)
    <3>1. PICK payload \in {overflow.payload, <<>>} :
             R!Served(w, reader[w].doc, R!rehydrateAnalysis(reader[w].doc.result, reader[w].doc.manifest, payload))
      BY <2>2 DEF R!withOverflow
    <3> DEFINE doc == reader[w].doc
               back == R!rehydrateAnalysis(doc.result, doc.manifest, payload)
               now == [at |-> "served", doc |-> doc, by |-> doc.by, result |-> back.result, missing |-> back.missing]
    <3>2. reader' = [reader EXCEPT ![w] = now]
      BY <3>1 DEF R!Served
    <3>3. doc # R!Nothing /\ doc.manifest # {} /\ GoodDocument(doc) /\ OverflowInv
      BY <2>2 DEF R!withOverflow, ResultsInv, ReadState
    <3> HIDE DEF doc
    <3>4. \A f \in R!Field :
            /\ back.result.rest = Results[doc.by].rest
            /\ \/ back.result[f] = Results[doc.by][f]
               \/ f \in back.missing /\ back.result[f] = R!Cleared(f)
               \/ \E x \in payloads \ {doc.by} : back.result[f] = Results[x][f]
      BY <3>3, Rehydrated
    <3>5. "edges" \in R!Field
      BY DEF R!Field
    <3> HIDE DEF back
    <3>6. GoodRead(now)
      BY <3>4, <3>5 DEF GoodRead
    <3>7. DOMAIN now = DOMAIN R!Unread /\ now.at = "served"
      BY DEF R!Unread
    <3> HIDE DEF now
    <3> QED BY <3>2, <3>6, <3>7
  <2> QED BY <2>1, <2>2
<1>4. DOMAIN reader' = Readers /\ reader'[w] = now /\ \A x \in Readers \ {w} : reader'[x] = reader[x]
  BY <1>3 DEF ResultsInv
<1>5. ReadState'
  BY <1>1, <1>3, <1>4 DEF ResultsInv, ReadState, GoodDocument
<1>6. \A x \in Readers : GoodRead(reader[x])'
  BY <1>1, <1>3, <1>4 DEF ResultsInv, GoodRead
<1> QED BY <1>2, <1>4, <1>5, <1>6 DEF ResultsInv

LEMMA ResultsStep == ResultsInv /\ [R!Next]_(R!storeVars) => ResultsInv'
<1>1. ASSUME ResultsInv, UNCHANGED <<document, overflow, memory, saver, reader, payloads>> PROVE ResultsInv'
  <2>1. SaverInv' /\ GoodDocument(document)' /\ OverflowInv' /\ MemoryInv'
    BY <1>1 DEF ResultsInv, SaverInv, GoodDocument, OverflowInv, MemoryInv
  <2> QED BY <1>1, <2>1, ReadsStay DEF ResultsInv
<1>2. ASSUME ResultsInv, R!Change PROVE ResultsInv'
  BY <1>1, <1>2 DEF R!Change
<1>3. ASSUME ResultsInv, UNCHANGED R!storeVars PROVE ResultsInv'
  BY <1>1, <1>3 DEF R!storeVars
<1> QED BY <1>2, <1>3, SaveKept, ReadKept DEF R!Next

LEMMA ResultsEnough == ResultsInv => R!ResultStoreIsHonest
<1> SUFFICES ASSUME ResultsInv PROVE R!ResultStoreIsHonest
  OBVIOUS
<1>1. R!SplitIsMinimal
  BY StoredIsMinimal DEF ResultsInv
<1>2. R!PayloadComesFirst
  <2>1. CASE document.manifest = {}
    BY <2>1 DEF R!PayloadComesFirst
  <2>2. CASE document.manifest # {}
    <3>1. document # R!Nothing
      BY <2>2 DEF R!Nothing
    <3>2. document.by \in payloads /\ document.by \in R!Saver /\ document.manifest = SplitOf(document.by).manifest
      BY <2>2, <3>1 DEF ResultsInv, GoodDocument, Stored
    <3>3. overflow.by \in payloads /\ overflow.payload = SplitOf(overflow.by).payload
      BY <3>2 DEF ResultsInv, OverflowInv
    <3> QED BY <3>2, <3>3, ResultType DEF R!PayloadComesFirst
  <2> QED BY <2>1, <2>2
<1>3. R!ServedIsHonest
  BY DEF ResultsInv, GoodRead, R!ServedIsHonest
<1> QED BY <1>1, <1>2, <1>3 DEF R!ResultStoreIsHonest
(***************************************************************************)
(* Orders.  The place of an element is the number of those before it.      *)
(***************************************************************************)

StrictOrder(S, Before) ==
  /\ \A x \in S : <<x, x>> \notin Before
  /\ \A x, y \in S : x # y => <<x, y>> \in Before \/ <<y, x>> \in Before
  /\ \A x, y, z \in S : <<x, y>> \in Before /\ <<y, z>> \in Before => <<x, z>> \in Before

\* Fewer are before an element than before a later one.
LEMMA FewerBefore ==
  ASSUME NEW S, IsFiniteSet(S), NEW Before, StrictOrder(S, Before),
         NEW x \in S, NEW y \in S, <<x, y>> \in Before
  PROVE  /\ Cardinality({z \in S : <<z, x>> \in Before}) \in Nat
         /\ Cardinality({z \in S : <<z, y>> \in Before}) \in 1..(Cardinality(S) - 1)
         /\ Cardinality({z \in S : <<z, x>> \in Before}) < Cardinality({z \in S : <<z, y>> \in Before})
<1> DEFINE U(e) == {z \in S : <<z, e>> \in Before}
<1>1. U(x) \subseteq U(y) /\ x \in U(y) /\ x \notin U(x) /\ y \notin U(y)
  BY DEF StrictOrder
<1>2. IsFiniteSet(U(x)) /\ IsFiniteSet(U(y))
  BY FS_Subset
<1>3. Cardinality(U(x)) \in Nat /\ Cardinality(U(y)) \in Nat /\ Cardinality(S) \in Nat
  BY <1>2, FS_CardinalityType
<1>4. Cardinality(U(x)) <= Cardinality(U(y)) /\ Cardinality(U(x)) # Cardinality(U(y))
  BY <1>1, <1>2, FS_Subset
<1>5. Cardinality(U(y)) <= Cardinality(S) /\ Cardinality(U(y)) # Cardinality(S)
  BY <1>1, FS_Subset
<1> QED BY <1>3, <1>4, <1>5

\* The elements of S by their places.
ByPlace(S, Before) ==
  [i \in 1..Cardinality(S) |->
     CHOOSE e \in S : Cardinality({z \in S : <<z, e>> \in Before}) = i - 1]

\* Every element of a finite set has a place of its own, and every place one.
LEMMA Placed ==
  ASSUME NEW S, IsFiniteSet(S), NEW Before, StrictOrder(S, Before)
  PROVE  /\ ByPlace(S, Before) \in [1..Cardinality(S) -> S]
         /\ \A i, k \in 1..Cardinality(S) : i < k =>
              <<ByPlace(S, Before)[i], ByPlace(S, Before)[k]>> \in Before
<1> DEFINE n == Cardinality(S)
           Below(e) == Cardinality({z \in S : <<z, e>> \in Before})
           place == [e \in S |-> Below(e) + 1]
           list == [i \in 1..n |-> CHOOSE e \in S : Below(e) = i - 1]
<1>1. n \in Nat /\ IsFiniteSet(1..n) /\ Cardinality(1..n) = n
  BY FS_CardinalityType, FS_Interval
<1>2. ASSUME NEW e \in S PROVE Below(e) \in 0..(n - 1)
  <2> DEFINE B == {z \in S : <<z, e>> \in Before}
  <2>2. B \in SUBSET S /\ B # S
    BY DEF StrictOrder
  <2>3. IsFiniteSet(B) /\ Cardinality(B) <= n /\ Cardinality(B) # n
    <3> HIDE DEF B
    <3> QED BY <2>2, FS_Subset
  <2>4. Cardinality(B) \in Nat
    <3> HIDE DEF B
    <3> QED BY <2>3, FS_CardinalityType
  <2> QED BY <2>3, <2>4, <1>1
<1>3. \A x, y \in S : <<x, y>> \in Before => Below(x) < Below(y)
  BY FewerBefore
<1>4. \A x, y \in S : x # y => Below(x) # Below(y)
  <2> SUFFICES ASSUME NEW x \in S, NEW y \in S, x # y PROVE Below(x) # Below(y)
    OBVIOUS
  <2> HIDE DEF Below
  <2>1. <<x, y>> \in Before \/ <<y, x>> \in Before
    BY DEF StrictOrder
  <2>2. Below(x) \in Int /\ Below(y) \in Int
    BY <1>2, <1>1
  <2>3. (<<x, y>> \in Before => Below(x) < Below(y)) /\ (<<y, x>> \in Before => Below(y) < Below(x))
    BY <1>3
  <2> QED BY <2>1, <2>2, <2>3
<1> HIDE DEF Below
<1>5. place \in [S -> 1..n]
  BY <1>1, <1>2
<1>6. place \in Injection(S, 1..n)
  <2>1. \A x, y \in S : x # y => place[x] # place[y]
    BY <1>1, <1>2, <1>4
  <2> QED BY <1>5, <2>1 DEF Injection, IsInjective
<1>7. place \in Surjection(S, 1..n)
  BY <1>1, <1>6, FS_Injection
<1>8. \A i \in 1..n : \E e \in S : Below(e) = i - 1
  <2> SUFFICES ASSUME NEW i \in 1..n PROVE \E e \in S : Below(e) = i - 1
    OBVIOUS
  <2>1. PICK e \in S : place[e] = i
    BY <1>7 DEF Surjection
  <2> QED BY <2>1, <1>1, <1>2
<1>10. \A i \in 1..n : list[i] \in S /\ Below(list[i]) = i - 1
  BY <1>8
<1>11. list \in [1..n -> S]
  BY <1>10
<1>13. ASSUME NEW i \in 1..n, NEW k \in 1..n, i < k PROVE <<list[i], list[k]>> \in Before
  <2>1. list[i] \in S /\ list[k] \in S /\ Below(list[i]) = i - 1 /\ Below(list[k]) = k - 1
    BY <1>10
  <2>2. i - 1 < k - 1 /\ i - 1 # k - 1 /\ ~(k - 1 < i - 1)
    BY <1>1, <1>13
  <2>3. list[i] # list[k] /\ ~(Below(list[k]) < Below(list[i]))
    BY <2>1, <2>2
  <2> QED BY <2>1, <2>3, <1>3 DEF StrictOrder
<1> HIDE DEF list
<1>14. list = ByPlace(S, Before)
  BY DEF list, Below, ByPlace
<1> QED BY <1>11, <1>13, <1>14

\* A sequence in a strict order has every element once.
InSequence(q, S, Before) ==
  /\ q \in [1..Cardinality(S) -> S]
  /\ \A i, k \in 1..Cardinality(S) : i < k => <<q[i], q[k]>> \in Before

LEMMA SortedIsOnce ==
  ASSUME NEW S, IsFiniteSet(S), NEW Before, StrictOrder(S, Before),
         NEW q, InSequence(q, S, Before)
  PROVE  /\ \A e \in S : \E i \in 1..Cardinality(S) : q[i] = e
         /\ \A i, k \in 1..Cardinality(S) : q[i] = q[k] => i = k
<1> DEFINE n == Cardinality(S)
<1>0. q \in [1..n -> S] /\ \A i, k \in 1..n : i < k => <<q[i], q[k]>> \in Before
  BY DEF InSequence
<1>1. n \in Nat /\ IsFiniteSet(1..n) /\ Cardinality(1..n) = n
  <2>1. n \in Nat
    BY FS_CardinalityType
  <2> HIDE DEF n
  <2> QED BY <2>1, FS_Interval
<1>2. ASSUME NEW i \in 1..n, NEW k \in 1..n, q[i] = q[k] PROVE i = k
  <2>1. q[i] \in S /\ <<q[i], q[i]>> \notin Before /\ <<q[i], q[k]>> \notin Before /\ <<q[k], q[i]>> \notin Before
    BY <1>0, <1>2 DEF StrictOrder
  <2>2. ~(i < k) /\ ~(k < i)
    BY <1>0, <2>1
  <2> QED BY <2>2, <1>1
<1>3. q \in Surjection(1..n, S)
  <2>1. q \in Injection(1..n, S)
    BY <1>0, <1>2 DEF Injection, IsInjective
  <2> QED BY <2>1, <1>1, FS_Injection
<1>4. \A e \in S : \E i \in 1..n : q[i] = e
  BY <1>3 DEF Surjection
<1> QED BY <1>2, <1>4

\* A function that is one to one and onto keeps the count.
LEMMA SameCount ==
  ASSUME NEW S, NEW U, IsFiniteSet(S), NEW f \in [S -> U],
         \A x, y \in S : f[x] = f[y] => x = y, \A y \in U : \E x \in S : f[x] = y
  PROVE  IsFiniteSet(U) /\ Cardinality(U) = Cardinality(S)
<1>1. f \in Injection(S, U) /\ f \in Surjection(S, U)
  BY DEF Injection, IsInjective, Surjection
<1> QED BY <1>1, FS_Surjection

LEMMA InOrderIs ==
  ASSUME NEW S, IsFiniteSet(S), NEW Before, StrictOrder(S, Before)
  PROVE  /\ M!InOrder(S, Before) \in [1..Cardinality(S) -> S]
         /\ \A i, k \in 1..Cardinality(S) : i < k => <<M!InOrder(S, Before)[i], M!InOrder(S, Before)[k]>> \in Before
         /\ \A e \in S : \E i \in 1..Cardinality(S) : M!InOrder(S, Before)[i] = e
<1> DEFINE n == Cardinality(S)
           res == M!InOrder(S, Before)
<1>1. \E q \in [1..n -> S] : \A i, k \in 1..n : i < k => <<q[i], q[k]>> \in Before
  <2>1. /\ ByPlace(S, Before) \in [1..n -> S]
        /\ \A i, k \in 1..n : i < k => <<ByPlace(S, Before)[i], ByPlace(S, Before)[k]>> \in Before
    BY Placed
  <2> QED BY <2>1
<1>2. res \in [1..n -> S] /\ \A i, k \in 1..n : i < k => <<res[i], res[k]>> \in Before
  <2>1. M!Cardinality(S) = Cardinality(S)
    BY DEF M!Cardinality, Cardinality
  <2> QED BY <1>1, <2>1 DEF M!InOrder
<1> HIDE DEF res
<1>3. \A e \in S : \E i \in 1..n : res[i] = e
  <2>1. InSequence(res, S, Before)
    BY <1>2 DEF InSequence
  <2> QED BY <2>1, SortedIsOnce
<1> QED BY <1>2, <1>3 DEF res

(***************************************************************************)
(* The memory of a repository: the store holds the newest of what was      *)
(* asked about, as long as calls neither overlap nor fail; and whatever    *)
(* they do, nobody is shown what was not asked about.                      *)
(***************************************************************************)

\* What is kept of a sequence, and where it stood.
Keeps(seq, commit, out, place) ==
  LET kept == {i \in 1..Len(seq) : seq[i].commit # commit}
  IN /\ Len(out) \in 0..Len(seq) /\ DOMAIN out = 1..Len(out)
     /\ place \in [1..Len(out) -> kept]
     /\ \A i, k \in 1..Len(out) : i < k => place[i] < place[k]
     /\ \A p \in kept : \E k \in 1..Len(out) : place[k] = p
     /\ \A k \in 1..Len(out) : out[k] = seq[place[k]]

LEMMA OthersAre ==
  ASSUME NEW X, NEW seq \in Seq(X), NEW commit
  PROVE  /\ M!Others(seq, commit) \in Seq(X)
         /\ \E place : Keeps(seq, commit, M!Others(seq, commit), place)
<1> DEFINE kept == {i \in 1..Len(seq) : seq[i].commit # commit}
           Less == {p \in kept \X kept : p[1] < p[2]}
           n == Cardinality(kept)
           place == M!InOrder(kept, Less)
           out == [k \in 1..n |-> seq[place[k]]]
<1>1. DOMAIN seq = 1..Len(seq) /\ Len(seq) \in Nat /\ \A i \in 1..Len(seq) : seq[i] \in X
  OBVIOUS
<1>2. IsFiniteSet(1..Len(seq)) /\ Cardinality(1..Len(seq)) = Len(seq)
  <2> DEFINE l == Len(seq)
  <2>1. l \in Nat
    BY <1>1
  <2> HIDE DEF l
  <2>2. IsFiniteSet(1..l) /\ Cardinality(1..l) = l
    BY <2>1, FS_Interval
  <2> QED BY <2>2 DEF l
<1>3. kept \subseteq 1..Len(seq) /\ IsFiniteSet(kept) /\ n \in Nat /\ n <= Len(seq)
  <2>1. kept \subseteq 1..Len(seq)
    OBVIOUS
  <2> HIDE DEF kept
  <2>2. IsFiniteSet(kept) /\ Cardinality(kept) <= Cardinality(1..Len(seq))
    BY <1>2, <2>1, FS_Subset
  <2>3. n \in Nat
    BY <2>2, FS_CardinalityType
  <2> QED BY <1>2, <2>1, <2>2, <2>3
<1>4. StrictOrder(kept, Less)
  <2>1. kept \subseteq Int
    BY <1>1
  <2>2. \A x, y \in kept : <<x, y>> \in Less <=> x < y
    OBVIOUS
  <2> HIDE DEF kept, Less
  <2> QED BY <2>1, <2>2 DEF StrictOrder
<1>5. /\ place \in [1..n -> kept]
      /\ \A i, k \in 1..n : i < k => <<place[i], place[k]>> \in Less
      /\ \A p \in kept : \E k \in 1..n : place[k] = p
  <2> HIDE DEF kept, Less
  <2> QED BY <1>3, <1>4, InOrderIs
<1>6. \A i, k \in 1..n : i < k => place[i] < place[k]
  BY <1>5
<1>7. M!Others(seq, commit) = out
  <2>1. M!Cardinality(kept) = n
    BY DEF M!Cardinality, Cardinality
  <2> QED BY <1>1, <2>1 DEF M!Others
<1> HIDE DEF place
<1>8. out \in Seq(X) /\ Len(out) = n /\ DOMAIN out = 1..n
  <2>1. \A k \in 1..n : seq[place[k]] \in X
    BY <1>1, <1>3, <1>5
  <2> HIDE DEF kept
  <2> QED BY <1>3, <2>1
<1>9. Keeps(seq, commit, out, place)
  <2>1. Len(out) \in 0..Len(seq)
    <3> HIDE DEF out, kept
    <3> QED BY <1>1, <1>3, <1>8
  <2>2. \A k \in 1..n : out[k] = seq[place[k]]
    OBVIOUS
  <2> HIDE DEF out
  <2> QED BY <1>5, <1>6, <1>8, <2>1, <2>2 DEF Keeps
<1> HIDE DEF out
<1> QED BY <1>7, <1>8, <1>9

EntrySet == [commit : Nat \ {0}, capturedAt : Nat]
Later(S) == {p \in S \X S : M!Newer(p[1], p[2])}

LEMMA NewerOrders ==
  ASSUME NEW S, S \subseteq EntrySet
  PROVE  StrictOrder(S, Later(S))
<1>1. \A x, y \in S : <<x, y>> \in Later(S) <=> M!Newer(x, y)
  BY DEF Later
<1>2. \A x \in S : x.commit \in Int /\ x.capturedAt \in Int
  BY DEF EntrySet
<1>3. \A x, y \in S : x # y => x.commit # y.commit \/ x.capturedAt # y.capturedAt
  BY DEF EntrySet
<1>4. \A x \in S : ~M!Newer(x, x)
  BY <1>2 DEF M!Newer
<1>5. \A x, y \in S : x # y => M!Newer(x, y) \/ M!Newer(y, x)
  BY <1>2, <1>3 DEF M!Newer
<1>6. ASSUME NEW x \in S, NEW y \in S, NEW z \in S, M!Newer(x, y), M!Newer(y, z) PROVE M!Newer(x, z)
  <2>1. /\ x.commit \in Int /\ y.commit \in Int /\ z.commit \in Int
        /\ x.capturedAt \in Int /\ y.capturedAt \in Int /\ z.capturedAt \in Int
    BY <1>2
  <2> QED BY <1>6, <2>1 DEF M!Newer
<1> HIDE DEF Later
<1> QED BY <1>1, <1>4, <1>5, <1>6 DEF StrictOrder

\* The entries that fewer than MaxSnapshots are ahead of.
NewerIn(e, S) == {d \in S : M!Newer(d, e)}
Top(S) == {e \in S : Cardinality(NewerIn(e, S)) < MaxSnapshots}

\* The entries in order, and how many are ahead of each.
LEMMA NewestIs ==
  ASSUME NEW S, S \subseteq EntrySet, IsFiniteSet(S)
  PROVE  LET all == M!NewestFirst(S)
             n == Cardinality(S)
         IN /\ n \in Nat /\ all \in [1..n -> S]
            /\ \A i, k \in 1..n : i < k => M!Newer(all[i], all[k])
            /\ \A e \in S : \E i \in 1..n : all[i] = e
            /\ \A i \in 1..n : Cardinality(NewerIn(all[i], S)) = i - 1
<1> DEFINE all == M!NewestFirst(S)
           n == Cardinality(S)
<1>1. StrictOrder(S, Later(S))
  BY NewerOrders
<1>2. M!NewestFirst(S) = M!InOrder(S, Later(S))
  BY DEF M!NewestFirst, Later
<1>3. n \in Nat
  BY FS_CardinalityType
<1>4. /\ all \in [1..n -> S] /\ \A e \in S : \E i \in 1..n : all[i] = e
      /\ \A i, k \in 1..n : i < k => <<all[i], all[k]>> \in Later(S)
  BY <1>1, <1>2, InOrderIs
<1> HIDE DEF all
<1>5. \A i, k \in 1..n : i < k => M!Newer(all[i], all[k])
  BY <1>4 DEF Later
<1>6. ASSUME NEW i \in 1..n PROVE Cardinality(NewerIn(all[i], S)) = i - 1
  <2> DEFINE A == NewerIn(all[i], S)
             b == [k \in 1..(i - 1) |-> all[k]]
  <2>1. \A x, y \in S : M!Newer(x, y) => ~M!Newer(y, x) /\ x # y
    <3>1. \A x, y \in S : <<x, y>> \in Later(S) <=> M!Newer(x, y)
      BY DEF Later
    <3> QED BY <1>1, <3>1 DEF StrictOrder
  <2>2. i \in Int /\ 1..(i - 1) \subseteq 1..n
    BY <1>3
  <2>3. \A k \in 1..(i - 1) : all[k] \in A
    BY <1>4, <1>5, <2>2 DEF NewerIn
  <2>4. \A k, l \in 1..(i - 1) : all[k] = all[l] => k = l
    <3>1. \A k, l \in 1..n : k < l => all[k] # all[l]
      BY <1>4, <1>5, <2>1
    <3> QED BY <2>2, <3>1
  <2>5. \A e \in A : \E k \in 1..(i - 1) : all[k] = e
    <3> SUFFICES ASSUME NEW e \in A PROVE \E k \in 1..(i - 1) : all[k] = e
      OBVIOUS
    <3>1. e \in S /\ M!Newer(e, all[i]) /\ all[i] \in S
      BY <1>4 DEF NewerIn
    <3>2. PICK k \in 1..n : all[k] = e
      BY <1>4, <3>1
    <3>3. ~(i < k) /\ i # k
      BY <1>5, <2>1, <3>1, <3>2
    <3> QED BY <1>3, <3>2, <3>3
  <2> HIDE DEF A
  <2>7. IsFiniteSet(1..(i - 1)) /\ Cardinality(1..(i - 1)) = i - 1
    <3>1. 1 \in Int /\ i - 1 \in Int /\ i - 1 >= 0
      BY <1>3
    <3>2. Cardinality(1..(i - 1)) = IF 1 > i - 1 THEN 0 ELSE (i - 1) - 1 + 1
      BY <3>1, FS_Interval
    <3> QED BY <3>1, <3>2, FS_Interval
  <2>8. IsFiniteSet(A) /\ Cardinality(A) = Cardinality(1..(i - 1))
    <3>1. b \in [1..(i - 1) -> A] /\ \A k \in 1..(i - 1) : b[k] = all[k]
      BY <2>3
    <3> HIDE DEF b
    <3>2. \A x, y \in 1..(i - 1) : b[x] = b[y] => x = y
      BY <2>4, <3>1
    <3>3. \A y \in A : \E x \in 1..(i - 1) : b[x] = y
      BY <2>5, <3>1
    <3> DEFINE N == 1..(i - 1)
    <3>4. IsFiniteSet(N) /\ b \in [N -> A]
      BY <2>7, <3>1
    <3> HIDE DEF N
    <3>5. (\A x, y \in N : b[x] = b[y] => x = y) /\ \A y \in A : \E x \in N : b[x] = y
      BY <3>2, <3>3 DEF N
    <3>6. IsFiniteSet(A) /\ Cardinality(A) = Cardinality(N)
      BY <3>4, <3>5, SameCount
    <3> QED BY <3>6 DEF N
  <2> QED BY <2>7, <2>8 DEF A
<1> QED BY <1>3, <1>4, <1>5, <1>6 DEF all

\* What is shown of a store is its top, in order; the rest is what is past it.
LEMMA ShownIs ==
  ASSUME NEW S, S \subseteq EntrySet, IsFiniteSet(S)
  PROVE  LET all == M!NewestFirst(S)
             shown == M!Shown(all)
         IN /\ Len(all) = Cardinality(S) /\ all \in Seq(S)
            /\ shown \in Seq(S) /\ Len(shown) <= MaxSnapshots
            /\ \A i, k \in 1..Len(shown) : i < k => M!Newer(shown[i], shown[k])
            /\ {shown[i] : i \in 1..Len(shown)} = Top(S)
            /\ {all[i] : i \in (MaxSnapshots + 1)..Len(all)} = S \ Top(S)
<1> DEFINE all == M!NewestFirst(S)
           n == Cardinality(S)
           h == IF n < MaxSnapshots THEN n ELSE MaxSnapshots
           shown == M!Shown(all)
<1>0. MaxSnapshots \in Nat
  BY StoresAssumption
<1>1. /\ n \in Nat /\ all \in [1..n -> S]
      /\ \A i, k \in 1..n : i < k => M!Newer(all[i], all[k])
      /\ \A e \in S : \E i \in 1..n : all[i] = e
      /\ \A i \in 1..n : Cardinality(NewerIn(all[i], S)) = i - 1
  BY NewestIs
<1> HIDE DEF all, n
<1>2. all \in Seq(S) /\ Len(all) = n
  BY <1>1
<1>3. h \in 0..n /\ h <= MaxSnapshots
  BY <1>0, <1>1
<1>4. shown = SubSeq(all, 1, h)
  BY <1>2 DEF M!Shown
<1>5. shown \in Seq(S) /\ Len(shown) = h /\ \A i \in 1..h : shown[i] = all[i]
  <2> HIDE DEF h, shown
  <2>1. h \in Nat /\ h <= Len(all)
    BY <1>1, <1>2, <1>3
  <2> QED BY <1>2, <1>4, <2>1
<1> HIDE DEF shown
<1>6. \A i \in 1..n : all[i] \in Top(S) <=> i <= h
  <2> SUFFICES ASSUME NEW i \in 1..n PROVE all[i] \in Top(S) <=> i <= h
    OBVIOUS
  <2>1. all[i] \in S /\ Cardinality(NewerIn(all[i], S)) = i - 1
    BY <1>1
  <2>2. all[i] \in Top(S) <=> i - 1 < MaxSnapshots
    BY <2>1 DEF Top
  <2> QED BY <1>0, <1>1, <2>2
<1>7. {shown[i] : i \in 1..Len(shown)} = Top(S)
  <2>1. ASSUME NEW e \in Top(S) PROVE \E i \in 1..h : shown[i] = e
    <3>1. e \in S
      BY DEF Top
    <3>2. PICK i \in 1..n : all[i] = e
      BY <1>1, <3>1
    <3>3. i \in 1..h
      BY <1>3, <1>6, <3>2
    <3> QED BY <1>5, <3>2, <3>3
  <2>2. \A i \in 1..h : shown[i] \in Top(S)
    <3> HIDE DEF h
    <3> QED BY <1>1, <1>3, <1>5, <1>6
  <2> HIDE DEF h
  <2> QED BY <1>5, <2>1, <2>2
<1>8. {all[i] : i \in (MaxSnapshots + 1)..Len(all)} = S \ Top(S)
  <2>1. ASSUME NEW e \in S \ Top(S) PROVE \E i \in (MaxSnapshots + 1)..n : all[i] = e
    <3>1. PICK i \in 1..n : all[i] = e
      BY <1>1
    <3>2. ~(i <= h)
      BY <1>6, <2>1, <3>1
    <3> QED BY <1>0, <1>1, <3>1, <3>2
  <2>2. \A i \in (MaxSnapshots + 1)..n : all[i] \in S \ Top(S)
    <3> SUFFICES ASSUME NEW i \in (MaxSnapshots + 1)..n PROVE all[i] \in S \ Top(S)
      OBVIOUS
    <3>1. i \in 1..n /\ ~(i <= h)
      BY <1>0, <1>1
    <3> HIDE DEF h
    <3> QED BY <1>1, <1>6, <3>1
  <2> QED BY <1>2, <2>1, <2>2
<1>9. \A i, k \in 1..Len(shown) : i < k => M!Newer(shown[i], shown[k])
  <2> HIDE DEF h
  <2> QED BY <1>1, <1>3, <1>5
<1>10. Len(shown) <= MaxSnapshots
  BY <1>3, <1>5
<1>11. /\ Len(all) = Cardinality(S) /\ all \in Seq(S)
       /\ shown \in Seq(S) /\ Len(shown) <= MaxSnapshots
       /\ \A i, k \in 1..Len(shown) : i < k => M!Newer(shown[i], shown[k])
       /\ {shown[i] : i \in 1..Len(shown)} = Top(S)
       /\ {all[i] : i \in (MaxSnapshots + 1)..Len(all)} = S \ Top(S)
  BY <1>2, <1>5, <1>7, <1>8, <1>9, <1>10 DEF n
<1> QED BY <1>11 DEF all, shown

LEMMA TopFacts ==
  ASSUME NEW S, S \subseteq EntrySet, IsFiniteSet(S)
  PROVE  /\ Top(S) \subseteq S
         /\ \A e \in S : IsFiniteSet(NewerIn(e, S)) /\ Cardinality(NewerIn(e, S)) \in Nat
         /\ \A e \in Top(S), d \in S : M!Newer(d, e) => d \in Top(S)
         /\ Cardinality(S) <= MaxSnapshots => Top(S) = S
<1>0. MaxSnapshots \in Nat /\ Cardinality(S) \in Nat
  BY StoresAssumption, FS_CardinalityType
<1>1. \A x, y, z \in S : M!Newer(x, y) /\ M!Newer(y, z) => M!Newer(x, z)
  <2>1. \A x, y \in S : <<x, y>> \in Later(S) <=> M!Newer(x, y)
    BY DEF Later
  <2> QED BY <2>1, NewerOrders DEF StrictOrder
<1>2. \A x \in S : ~M!Newer(x, x)
  <2>1. \A x \in S : x.commit \in Int /\ x.capturedAt \in Int
    BY DEF EntrySet
  <2> QED BY <2>1 DEF M!Newer
<1>3. ASSUME NEW e \in S
      PROVE  IsFiniteSet(NewerIn(e, S)) /\ Cardinality(NewerIn(e, S)) \in Nat /\ Cardinality(NewerIn(e, S)) < Cardinality(S)
  <2>1. NewerIn(e, S) \subseteq S /\ NewerIn(e, S) # S
    BY <1>2 DEF NewerIn
  <2>2. IsFiniteSet(NewerIn(e, S)) /\ Cardinality(NewerIn(e, S)) <= Cardinality(S) /\ Cardinality(NewerIn(e, S)) # Cardinality(S)
    BY <2>1, FS_Subset
  <2>3. Cardinality(NewerIn(e, S)) \in Nat
    BY <2>2, FS_CardinalityType
  <2> QED BY <1>0, <2>2, <2>3
<1>4. ASSUME NEW e \in Top(S), NEW d \in S, M!Newer(d, e) PROVE d \in Top(S)
  <2>1. e \in S /\ Cardinality(NewerIn(e, S)) < MaxSnapshots
    BY DEF Top
  <2>2. NewerIn(d, S) \subseteq NewerIn(e, S)
    BY <1>1, <1>4, <2>1 DEF NewerIn
  <2>3. Cardinality(NewerIn(d, S)) <= Cardinality(NewerIn(e, S))
    BY <1>3, <2>1, <2>2, FS_Subset
  <2>4. Cardinality(NewerIn(d, S)) \in Nat /\ Cardinality(NewerIn(e, S)) \in Nat
    BY <1>3, <2>1
  <2>5. Cardinality(NewerIn(d, S)) < MaxSnapshots
    BY <1>0, <2>1, <2>3, <2>4
  <2> QED BY <2>5 DEF Top
<1>5. ASSUME Cardinality(S) <= MaxSnapshots PROVE Top(S) = S
  <2>1. \A e \in S : Cardinality(NewerIn(e, S)) < MaxSnapshots
    BY <1>0, <1>3, <1>5
  <2> QED BY <2>1 DEF Top
<1> QED BY <1>3, <1>4, <1>5 DEF Top

\* To what is at the top, a newer entry adds what it adds to all.
LEMMA TopAfter ==
  ASSUME NEW S, S \subseteq EntrySet, IsFiniteSet(S), \A x, y \in S : x.commit = y.commit => x = y,
         NEW e \in EntrySet, \A x \in S : x.capturedAt < e.capturedAt
  PROVE  Top({x \in Top(S) : x.commit # e.commit} \cup {e}) = Top({x \in S : x.commit # e.commit} \cup {e})
<1> DEFINE P == {x \in S : x.commit # e.commit} \cup {e}
           Q == {x \in Top(S) : x.commit # e.commit} \cup {e}
<1>0. MaxSnapshots \in Nat
  BY StoresAssumption
<1>1. Top(S) \subseteq S
  BY TopFacts
<1>2. P \subseteq EntrySet /\ Q \subseteq P
  BY <1>1
<1>3. IsFiniteSet(P)
  <2>1. IsFiniteSet({x \in S : x.commit # e.commit})
    BY FS_Subset
  <2> QED BY <2>1, FS_AddElement
<1>4. \A x \in P : ~M!Newer(x, e)
  <2>1. e.commit \in Int /\ e.capturedAt \in Int /\ \A x \in S : x.capturedAt \in Int
    BY DEF EntrySet
  <2> QED BY <2>1 DEF M!Newer
<1>5. \A x \in S : M!Newer(e, x)
  BY DEF M!Newer
<1>6. ASSUME NEW x \in Top(S), x.commit # e.commit PROVE NewerIn(x, Q) = NewerIn(x, P)
  <2>1. \A d \in S : M!Newer(d, x) => d \in Top(S)
    BY TopFacts
  <2> QED BY <1>2, <2>1 DEF NewerIn
<1>7. NewerIn(e, Q) = NewerIn(e, P)
  BY <1>2, <1>4 DEF NewerIn
<1>8. Top(Q) \subseteq Top(P)
  <2> SUFFICES ASSUME NEW x \in Top(Q) PROVE x \in Top(P)
    OBVIOUS
  <2>1. x \in Q /\ Cardinality(NewerIn(x, Q)) < MaxSnapshots
    BY DEF Top
  <2>2. NewerIn(x, Q) = NewerIn(x, P)
    BY <1>6, <1>7, <2>1
  <2>3. x \in P /\ Cardinality(NewerIn(x, P)) < MaxSnapshots
    BY <1>2, <2>1, <2>2
  <2> QED BY <2>3 DEF Top
<1>9. Top(P) \subseteq Top(Q)
  <2> SUFFICES ASSUME NEW x \in Top(P) PROVE x \in Top(Q)
    OBVIOUS
  <2>1. x \in P /\ Cardinality(NewerIn(x, P)) < MaxSnapshots
    BY DEF Top
  <2>2. CASE x = e
    <3>1. x \in Q /\ Cardinality(NewerIn(x, Q)) < MaxSnapshots
      BY <1>7, <2>1, <2>2
    <3> QED BY <3>1 DEF Top
  <2>3. CASE x # e
    <3>1. x \in S /\ x.commit # e.commit
      BY <2>1, <2>3
    <3> DEFINE A == NewerIn(x, P)
               B == {d \in S : M!Newer(d, x) /\ d.commit = e.commit}
    <3>2. NewerIn(x, S) \subseteq (A \ {e}) \cup B
      <4>1. \A d \in S : d # e
        BY DEF EntrySet
      <4> QED BY <4>1 DEF NewerIn
    <3>3. IsFiniteSet(A) /\ e \in A
      <4>1. A \subseteq P
        BY DEF NewerIn
      <4>2. e \in A
        BY <1>5, <3>1 DEF NewerIn
      <4> HIDE DEF A, P
      <4> QED BY <1>3, <4>1, <4>2, FS_Subset
    <3>4. IsFiniteSet(A \ {e}) /\ Cardinality(A \ {e}) = Cardinality(A) - 1
      <4> HIDE DEF A
      <4> QED BY <3>3, FS_RemoveElement
    <3>5. Cardinality(A) \in Nat
      <4> HIDE DEF A
      <4> QED BY <3>3, FS_CardinalityType
    <3>6. Cardinality(NewerIn(x, S)) <= Cardinality(A)
      <4> DEFINE R0 == A \ {e}
      <4> HIDE DEF A, P
      <4>0. IsFiniteSet(R0) /\ Cardinality(R0) = Cardinality(A) - 1
        BY <3>4
      <4> HIDE DEF R0
      <4>1. CASE B = {}
        <5>1. NewerIn(x, S) \subseteq R0
          BY <3>2, <4>1 DEF R0
        <5>2. Cardinality(NewerIn(x, S)) <= Cardinality(R0)
          BY <4>0, <5>1, FS_Subset
        <5>3. Cardinality(NewerIn(x, S)) \in Nat
          BY <3>1, TopFacts
        <5> QED BY <3>5, <4>0, <5>2, <5>3
      <4>2. CASE B # {}
        <5>1. PICK b \in B : TRUE
          BY <4>2
        <5>2. B = {b}
          BY <5>1
        <5>3. NewerIn(x, S) \subseteq R0 \cup {b}
          BY <3>2, <5>2 DEF R0
        <5> HIDE DEF B
        <5>4. IsFiniteSet(R0 \cup {b}) /\ (Cardinality(R0 \cup {b}) = Cardinality(R0) \/ Cardinality(R0 \cup {b}) = Cardinality(R0) + 1)
          BY <4>0, FS_AddElement
        <5>5. Cardinality(NewerIn(x, S)) <= Cardinality(R0 \cup {b})
          BY <5>3, <5>4, FS_Subset
        <5>6. Cardinality(NewerIn(x, S)) \in Nat
          BY <3>1, TopFacts
        <5> QED BY <3>5, <4>0, <5>4, <5>5, <5>6
      <4> QED BY <4>1, <4>2
    <3>7. Cardinality(NewerIn(x, S)) \in Nat
      BY <3>1, TopFacts
    <3>8. Cardinality(NewerIn(x, S)) < MaxSnapshots
      BY <1>0, <2>1, <3>5, <3>6, <3>7
    <3>9. x \in Top(S)
      BY <3>1, <3>8 DEF Top
    <3>10. x \in Q /\ Cardinality(NewerIn(x, Q)) < MaxSnapshots
      BY <1>6, <2>1, <3>1, <3>9
    <3> QED BY <3>10 DEF Top
  <2> QED BY <2>2, <2>3
<1> QED BY <1>8, <1>9

\* A set of numbers below a bound has a greatest.
LEMMA HasGreatest ==
  ASSUME NEW n \in Nat, NEW S \in SUBSET (0..n), S # {}
  PROVE  \E x \in S : \A y \in S : y <= x
<1> DEFINE W == {n - x : x \in S}
<1>1. W \subseteq Nat /\ W # {}
  <2>1. \A x \in S : n - x \in Nat
    OBVIOUS
  <2> QED BY <2>1
<1>2. PICK z \in W : \A y \in W : ~(<<y, z>> \in OpToRel(<, Nat))
  <2> HIDE DEF W
  <2> QED BY <1>1, WFMin, NatLessThanWellFounded
<1>3. PICK x \in S : z = n - x
  BY <1>2
<1>4. ASSUME NEW y \in S PROVE y <= x
  <2>1. n - y \in Nat /\ n - x \in Nat /\ n - y \in W
    BY <1>4
  <2>2. ~(n - y < n - x)
    BY <2>1, <1>2, <1>3 DEF OpToRel
  <2> QED BY <2>2, <1>4
<1> QED BY <1>4

\* What was asked about, and when last; `st` is the state of the calls.
AskedBy(st) == {c \in M!Call : st[c].capturedAt > 0}
EntryOf(st, c) == [commit |-> Commits[c], capturedAt |-> st[c].capturedAt]
AskedOf(st) == {EntryOf(st, c) : c \in AskedBy(st)}
LastOf(st, C) == {d \in C : \A e \in C : Commits[e] = Commits[d] => st[e].capturedAt <= st[d].capturedAt}
LatestOf(st, C) == {EntryOf(st, c) : c \in LastOf(st, C)}

\* Every call that began has a time of its own.
Stamped(st) ==
  /\ \A c \in M!Call : st[c].capturedAt \in Nat
  /\ \A c, d \in AskedBy(st) : st[c].capturedAt = st[d].capturedAt => c = d

LEMMA CommitsType ==
  IsFiniteSet(M!Call) /\ \A c \in M!Call : Commits[c] \in Nat \ {0}
<1>1. Commits \in Seq(Nat \ {0})
  BY StoresAssumption
<1>2. M!Call = 1..Len(Commits) /\ Len(Commits) \in Nat
  BY <1>1 DEF M!Call
<1>3. IsFiniteSet(1..Len(Commits))
  <2> DEFINE l == Len(Commits)
  <2>1. l \in Nat
    BY <1>2
  <2> HIDE DEF l
  <2>2. IsFiniteSet(1..l)
    BY <2>1, FS_Interval
  <2> QED BY <2>2 DEF l
<1> QED BY <1>1, <1>2, <1>3

LEMMA LatestFacts ==
  ASSUME NEW st, Stamped(st), NEW C \in SUBSET AskedBy(st)
  PROVE  /\ LatestOf(st, C) \subseteq AskedOf(st) /\ AskedOf(st) \subseteq EntrySet
         /\ IsFiniteSet(LatestOf(st, C)) /\ IsFiniteSet(AskedOf(st))
         /\ \A x, y \in LatestOf(st, C) : x.commit = y.commit => x = y
<1>1. LastOf(st, C) \subseteq C /\ C \subseteq M!Call /\ AskedBy(st) \subseteq M!Call
  BY DEF LastOf, AskedBy
<1>2. LatestOf(st, C) \subseteq AskedOf(st)
  BY <1>1 DEF LatestOf, AskedOf
<1>3. AskedOf(st) \subseteq EntrySet
  BY <1>1, CommitsType DEF AskedOf, EntryOf, EntrySet, Stamped
<1>4. IsFiniteSet(AskedOf(st))
  <2> DEFINE f == [c \in AskedBy(st) |-> EntryOf(st, c)]
  <2>1. f \in Surjection(AskedBy(st), AskedOf(st))
    BY DEF Surjection, AskedOf
  <2>2. IsFiniteSet(AskedBy(st))
    BY <1>1, CommitsType, FS_Subset
  <2> HIDE DEF f
  <2> QED BY <2>1, <2>2, FS_Surjection
<1>5. IsFiniteSet(LatestOf(st, C))
  BY <1>2, <1>4, FS_Subset
<1>6. ASSUME NEW x \in LatestOf(st, C), NEW y \in LatestOf(st, C), x.commit = y.commit PROVE x = y
  <2>1. PICK c \in LastOf(st, C) : x = EntryOf(st, c)
    BY DEF LatestOf
  <2>2. PICK d \in LastOf(st, C) : y = EntryOf(st, d)
    BY DEF LatestOf
  <2>3. c \in C /\ d \in C /\ Commits[c] = Commits[d]
    BY <1>1, <1>6, <2>1, <2>2 DEF EntryOf
  <2>4. st[c].capturedAt <= st[d].capturedAt /\ st[d].capturedAt <= st[c].capturedAt
    BY <2>3 DEF LastOf
  <2>5. st[c].capturedAt \in Nat /\ st[d].capturedAt \in Nat
    BY <1>1, <2>3 DEF Stamped
  <2>6. st[c].capturedAt = st[d].capturedAt
    BY <2>4, <2>5
  <2> QED BY <2>1, <2>2, <2>3, <2>6 DEF EntryOf
<1> QED BY <1>2, <1>3, <1>4, <1>5, <1>6

\* A call that is later than all others takes the place of those of its commit.
LEMMA LatestGrows ==
  ASSUME NEW st, Stamped(st), NEW c \in AskedBy(st),
         \A d \in AskedBy(st) \ {c} : st[d].capturedAt < st[c].capturedAt
  PROVE  LatestOf(st, AskedBy(st)) =
           {x \in LatestOf(st, AskedBy(st) \ {c}) : x.commit # Commits[c]} \cup {EntryOf(st, c)}
<1> DEFINE C == AskedBy(st)
           D == C \ {c}
<1>1. \A d \in C : st[d].capturedAt \in Nat
  BY DEF AskedBy, Stamped
<1> HIDE DEF C
<1>2. c \in C /\ \A d \in D : st[d].capturedAt < st[c].capturedAt
  BY DEF C
<1>3. c \in LastOf(st, C)
  <2>1. \A e \in C : st[e].capturedAt <= st[c].capturedAt
    BY <1>1, <1>2
  <2> QED BY <1>2, <2>1 DEF LastOf
<1>4. \A d \in D : d \in LastOf(st, C) <=> d \in LastOf(st, D) /\ Commits[d] # Commits[c]
  <2> SUFFICES ASSUME NEW d \in D PROVE d \in LastOf(st, C) <=> d \in LastOf(st, D) /\ Commits[d] # Commits[c]
    OBVIOUS
  <2>1. st[d].capturedAt \in Nat /\ st[c].capturedAt \in Nat /\ ~(st[c].capturedAt <= st[d].capturedAt)
    BY <1>1, <1>2
  <2> QED BY <1>2, <2>1 DEF LastOf
<1>5. \A d : EntryOf(st, d).commit = Commits[d]
  BY DEF EntryOf
<1>6. LastOf(st, C) = {d \in LastOf(st, D) : Commits[d] # Commits[c]} \cup {c}
  <2>1. LastOf(st, C) \subseteq C /\ LastOf(st, D) \subseteq D /\ D \subseteq C /\ c \notin D /\ C \subseteq D \cup {c}
    BY DEF LastOf
  <2> HIDE DEF D
  <2> QED BY <1>3, <1>4, <2>1
<1>7. LatestOf(st, C) = {x \in LatestOf(st, D) : x.commit # Commits[c]} \cup {EntryOf(st, c)}
  <2> HIDE DEF D
  <2> QED BY <1>5, <1>6 DEF LatestOf
<1> QED BY <1>7 DEF C

\* As long as no call begins, nothing is asked about.
LEMMA StampsStay ==
  ASSUME NEW st, NEW tt, \A c \in M!Call : tt[c].capturedAt = st[c].capturedAt
  PROVE  /\ AskedBy(tt) = AskedBy(st) /\ AskedOf(tt) = AskedOf(st)
         /\ \A C \in SUBSET M!Call : LatestOf(tt, C) = LatestOf(st, C)
         /\ Stamped(st) => Stamped(tt)
<1>1. AskedBy(tt) = AskedBy(st)
  BY DEF AskedBy
<1>2. \A c \in M!Call : EntryOf(tt, c) = EntryOf(st, c)
  BY DEF EntryOf
<1>3. AskedOf(tt) = AskedOf(st)
  <2>1. AskedBy(st) \subseteq M!Call
    BY DEF AskedBy
  <2> QED BY <1>1, <1>2, <2>1 DEF AskedOf
<1>4. ASSUME NEW C \in SUBSET M!Call PROVE LatestOf(tt, C) = LatestOf(st, C)
  <2>1. LastOf(tt, C) = LastOf(st, C)
    BY DEF LastOf
  <2>2. LastOf(st, C) \subseteq M!Call
    BY DEF LastOf
  <2> QED BY <1>2, <2>1, <2>2 DEF LatestOf
<1>5. Stamped(st) => Stamped(tt)
  <2>1. AskedBy(st) \subseteq M!Call
    BY DEF AskedBy
  <2> QED BY <1>1, <2>1 DEF Stamped
<1> QED BY <1>1, <1>3, <1>4, <1>5

CallState ==
  [at : {"idle", "put", "trim", "delete", "list", "answer", "done"}, capturedAt : Nat, doomed : SUBSET Nat,
   known : Seq(EntrySet), since : Sinces \cup {{}},
   answer : {"none", "only one", "diff", "unknown", "ambiguous"}, baseline : Nat]

CallsInv ==
  /\ clock \in Nat /\ backend \in {"redis", "memory"} /\ calm \in BOOLEAN
  /\ call \in [M!Call -> CallState]
  /\ \A c \in M!Call :
       /\ call[c].at = "idle" <=> call[c].capturedAt = 0
       /\ call[c].capturedAt <= clock
       /\ call[c].at \in {"put", "trim", "delete"} => backend = "redis"
       /\ call[c].at # "done" => call[c].answer = "none"
  /\ Stamped(call)

\* What a store holds was asked about, and a commit once; in memory in the
\* order it was put.
HashInv == hash \subseteq AskedOf(call) /\ \A x, y \in hash : x.commit = y.commit => x = y

HistoryInv ==
  /\ history \in Seq(AskedOf(call)) /\ Len(history) <= MaxSnapshots
  /\ \A i, k \in 1..Len(history) : i < k =>
       history[i].capturedAt < history[k].capturedAt /\ history[i].commit # history[k].commit

\* So does what a call was shown, the newest first.
GoodList(known) ==
  /\ Len(known) <= MaxSnapshots
  /\ \A i, k \in 1..Len(known) : i < k => M!Newer(known[i], known[k]) /\ known[i].commit # known[k].commit

KnownInv == \A c \in M!Call : call[c].known \in Seq(AskedOf(call)) /\ GoodList(call[c].known)

\* As long as nothing overlapped or failed: what the stores hold at each step
\* of the only call.
Newest == Top(LatestOf(call, AskedBy(call)))
AllOf(seq) == {seq[i] : i \in 1..Len(seq)}
AtPut(c) ==
  /\ hash = Top(LatestOf(call, AskedBy(call) \ {c}))
  /\ \A d \in AskedBy(call) \ {c} : call[d].capturedAt < call[c].capturedAt

CalmStores ==
  calm =>
    /\ \A c, d \in M!Busy : c = d
    /\ backend = "memory" => AllOf(history) = Newest
    /\ backend = "redis" /\ (\A c \in M!Busy : call[c].at \in {"list", "answer"}) => hash = Newest
    /\ \A c \in M!Call :
         /\ call[c].at = "put" => AtPut(c)
         /\ call[c].at \in {"trim", "delete"} => Top(hash) = Newest
         /\ call[c].at = "delete" => call[c].doomed = {e.commit : e \in hash \ Top(hash)}
         /\ call[c].at = "answer" => AllOf(call[c].known) = Newest

\* What was answered.
AnswersInv ==
  \A c \in M!Call :
    /\ call[c].answer = "diff" =>
         /\ call[c].baseline # Commits[c]
         /\ \E d \in M!Call : Commits[d] = call[c].baseline /\ call[d].capturedAt > 0
         /\ call[c].since # {} => call[c].baseline \in call[c].since
    /\ call[c].answer = "only one" /\ calm /\ MaxSnapshots > 1 =>
         \A d \in AskedBy(call) : call[d].capturedAt < call[c].capturedAt => Commits[d] = Commits[c]

SnapshotsInv == CallsInv /\ HashInv /\ HistoryInv /\ KnownInv /\ CalmStores /\ AnswersInv

LEMMA SnapshotsStart == M!Init => SnapshotsInv
<1> SUFFICES ASSUME M!Init PROVE SnapshotsInv
  OBVIOUS
<1>1. \A c \in M!Call : call[c] = [at |-> "idle", capturedAt |-> 0, doomed |-> {}, known |-> <<>>,
                                   since |-> {}, answer |-> "none", baseline |-> 0]
  BY DEF M!Init, M!None
<1>2. AskedBy(call) = {}
  BY <1>1 DEF AskedBy
<1>3. AskedOf(call) = {} /\ LatestOf(call, AskedBy(call)) = {} /\ M!Busy = {}
  BY <1>1, <1>2 DEF AskedOf, LatestOf, LastOf, M!Busy
<1>4. call \in [M!Call -> CallState]
  <2>1. [at |-> "idle", capturedAt |-> 0, doomed |-> {}, known |-> <<>>, since |-> {}, answer |-> "none", baseline |-> 0] \in CallState
    BY DEF CallState
  <2> QED BY <2>1 DEF M!Init, M!None
<1>5. CallsInv
  <2>1. Stamped(call)
    BY <1>1, <1>2 DEF Stamped
  <2>2. clock = 0 /\ backend \in {"redis", "memory"} /\ calm = TRUE
    BY DEF M!Init
  <2> QED BY <1>1, <1>4, <2>1, <2>2 DEF CallsInv
<1>6. HashInv /\ HistoryInv
  BY StoresAssumption DEF M!Init, HashInv, HistoryInv
<1>7. KnownInv
  <2>1. MaxSnapshots \in Nat
    BY StoresAssumption
  <2>2. GoodList(<<>>)
    BY <2>1 DEF GoodList
  <2>3. \A c \in M!Call : call[c].known = <<>>
    BY <1>1
  <2>4. <<>> \in Seq(AskedOf(call))
    OBVIOUS
  <2> QED BY <2>2, <2>3, <2>4 DEF KnownInv
<1>8. CalmStores
  <2>1. Newest = {}
    BY <1>3 DEF Newest, Top
  <2>2. AllOf(history) = {} /\ hash = {}
    BY DEF M!Init, AllOf
  <2> QED BY <1>1, <1>3, <2>1, <2>2 DEF CalmStores
<1>9. AnswersInv
  BY <1>1, <1>2 DEF AnswersInv
<1> QED BY <1>5, <1>6, <1>7, <1>8, <1>9 DEF SnapshotsInv

\* What every step of a call that has begun leaves as it is.
Underway(c) ==
  /\ call' = [call EXCEPT ![c] = call'[c]] /\ call'[c] \in CallState
  /\ call'[c].capturedAt = call[c].capturedAt
  /\ call[c].at \notin {"idle", "done"} /\ call'[c].at # "idle"
  /\ UNCHANGED <<backend, clock>>
  /\ calm' \in BOOLEAN /\ (calm' => calm)

LEMMA UnderwayFacts ==
  ASSUME SnapshotsInv, NEW c \in M!Call, Underway(c)
  PROVE  /\ AskedBy(call') = AskedBy(call) /\ AskedOf(call') = AskedOf(call) /\ Newest' = Newest
         /\ \A d \in M!Call : call'[d].capturedAt = call[d].capturedAt
         /\ \A d \in M!Call \ {c} : call'[d] = call[d]
         /\ \A C \in SUBSET M!Call : LatestOf(call', C) = LatestOf(call, C)
         /\ call' \in [M!Call -> CallState] /\ Stamped(call')
<1>1. call \in [M!Call -> CallState]
  BY DEF SnapshotsInv, CallsInv
<1>2. call' \in [M!Call -> CallState] /\ \A d \in M!Call \ {c} : call'[d] = call[d]
  BY <1>1 DEF Underway
<1>3. \A d \in M!Call : call'[d].capturedAt = call[d].capturedAt
  BY <1>2 DEF Underway
<1>4. AskedBy(call) \subseteq M!Call
  BY DEF AskedBy
<1>5. /\ AskedBy(call') = AskedBy(call) /\ AskedOf(call') = AskedOf(call)
      /\ \A C \in SUBSET M!Call : LatestOf(call', C) = LatestOf(call, C)
      /\ Stamped(call) => Stamped(call')
  BY <1>3, StampsStay
<1>6. Newest' = Newest
  BY <1>4, <1>5 DEF Newest
<1>7. Stamped(call')
  BY <1>5 DEF SnapshotsInv, CallsInv
<1> QED BY <1>2, <1>3, <1>5, <1>6, <1>7

LEMMA UnderwayCalls ==
  ASSUME SnapshotsInv, NEW c \in M!Call, Underway(c),
         call'[c].at \in {"put", "trim", "delete"} => backend = "redis",
         call'[c].at # "done" => call'[c].answer = "none"
  PROVE  CallsInv'
<1>1. CallsInv
  BY DEF SnapshotsInv
<1>2. /\ call' \in [M!Call -> CallState] /\ Stamped(call')
      /\ \A d \in M!Call : call'[d].capturedAt = call[d].capturedAt
      /\ \A d \in M!Call \ {c} : call'[d] = call[d]
  BY UnderwayFacts
<1>3. Stamped(call)'
  BY <1>2 DEF Stamped, AskedBy
<1>4. \A d \in M!Call :
       /\ call'[d].at = "idle" <=> call'[d].capturedAt = 0
       /\ call'[d].capturedAt <= clock'
       /\ call'[d].at \in {"put", "trim", "delete"} => backend' = "redis"
       /\ call'[d].at # "done" => call'[d].answer = "none"
  BY <1>1, <1>2 DEF CallsInv, Underway
<1> QED BY <1>1, <1>2, <1>3, <1>4 DEF CallsInv, Underway

\* A call that nothing was told, but that goes on, keeps the answers.
LEMMA UnderwayAnswers ==
  ASSUME SnapshotsInv, NEW c \in M!Call, Underway(c),
         call'[c].answer = call[c].answer, call'[c].baseline = call[c].baseline, call'[c].since = call[c].since
  PROVE  AnswersInv'
<1>1. /\ AskedBy(call') = AskedBy(call)
      /\ \A d \in M!Call : call'[d].capturedAt = call[d].capturedAt
      /\ \A d \in M!Call \ {c} : call'[d] = call[d]
  BY UnderwayFacts
<1>2. \A d \in M!Call : call'[d].answer = call[d].answer /\ call'[d].baseline = call[d].baseline /\ call'[d].since = call[d].since
  BY <1>1
<1>3. AskedBy(call)' = AskedBy(call) /\ AskedBy(call) \subseteq M!Call
  BY <1>1 DEF AskedBy
<1>4. calm' => calm
  BY DEF Underway
<1>5. ASSUME NEW d \in M!Call
      PROVE  /\ call'[d].answer = "diff" =>
                  /\ call'[d].baseline # Commits[d]
                  /\ \E e \in M!Call : Commits[e] = call'[d].baseline /\ call'[e].capturedAt > 0
                  /\ call'[d].since # {} => call'[d].baseline \in call'[d].since
             /\ call'[d].answer = "only one" /\ calm' /\ MaxSnapshots > 1 =>
                  \A e \in AskedBy(call) : call'[e].capturedAt < call'[d].capturedAt => Commits[e] = Commits[d]
  <2>1. AnswersInv
    BY DEF SnapshotsInv
  <2>2. call'[d].answer = call[d].answer /\ call'[d].baseline = call[d].baseline /\ call'[d].since = call[d].since
        /\ call'[d].capturedAt = call[d].capturedAt
    BY <1>1, <1>2
  <2>3. /\ call[d].answer = "diff" =>
             /\ call[d].baseline # Commits[d]
             /\ \E e \in M!Call : Commits[e] = call[d].baseline /\ call[e].capturedAt > 0
             /\ call[d].since # {} => call[d].baseline \in call[d].since
        /\ call[d].answer = "only one" /\ calm /\ MaxSnapshots > 1 =>
             \A e \in AskedBy(call) : call[e].capturedAt < call[d].capturedAt => Commits[e] = Commits[d]
    BY <2>1 DEF AnswersInv
  <2>4. \A e \in M!Call : call'[e].capturedAt = call[e].capturedAt
    BY <1>1
  <2>5. AskedBy(call) \subseteq M!Call
    BY <1>3
  <2> QED BY <1>4, <2>2, <2>3, <2>4, <2>5
<1> QED BY <1>3, <1>5 DEF AnswersInv

LEMMA UnderwayKeeps ==
  ASSUME SnapshotsInv, NEW c \in M!Call, Underway(c)
  PROVE  /\ history' = history => HistoryInv'
         /\ hash' \subseteq hash => HashInv'
         /\ call'[c].known \in Seq(AskedOf(call)) /\ GoodList(call'[c].known) => KnownInv'
<1>1. AskedOf(call)' = AskedOf(call) /\ \A d \in M!Call \ {c} : call'[d] = call[d]
  <2>1. AskedOf(call') = AskedOf(call) /\ \A d \in M!Call \ {c} : call'[d] = call[d]
    BY UnderwayFacts
  <2> QED BY <2>1 DEF AskedOf, AskedBy, EntryOf
<1>2. history' = history => HistoryInv'
  BY <1>1 DEF SnapshotsInv, HistoryInv
<1>3. hash' \subseteq hash => HashInv'
  BY <1>1 DEF SnapshotsInv, HashInv
<1>4. ASSUME call'[c].known \in Seq(AskedOf(call)), GoodList(call'[c].known) PROVE KnownInv'
  <2>1. \A d \in M!Call : call'[d].known \in Seq(AskedOf(call)) /\ GoodList(call'[d].known)
    BY <1>1, <1>4 DEF SnapshotsInv, KnownInv
  <2> QED BY <1>1, <2>1 DEF KnownInv, GoodList
<1> QED BY <1>2, <1>3, <1>4

\* What the stores hold when a call that went on alone is where it is.
LEMMA UnderwayCalm ==
  ASSUME SnapshotsInv, NEW c \in M!Call, Underway(c), UNCHANGED history,
         calm' => /\ call'[c].at \in {"list", "answer", "done"} /\ backend = "redis" => hash' = Newest
                  /\ call'[c].at # "put"
                  /\ call'[c].at \in {"trim", "delete"} => Top(hash') = Newest
                  /\ call'[c].at = "delete" => call'[c].doomed = {e.commit : e \in hash' \ Top(hash')}
                  /\ call'[c].at = "answer" => AllOf(call'[c].known) = Newest
  PROVE  CalmStores'
<1> SUFFICES ASSUME calm' PROVE CalmStores'
  BY DEF CalmStores
<1>1. calm /\ CalmStores /\ CallsInv
  BY DEF Underway, SnapshotsInv
<1>2. /\ \A d \in M!Call \ {c} : call'[d] = call[d]
      /\ Newest' = Newest
  BY UnderwayFacts
<1>3. c \in M!Busy /\ \A d \in M!Call \ {c} : call[d].at \in {"idle", "done"}
  BY <1>1 DEF Underway, CalmStores, M!Busy
<1>4. \A d \in M!Call \ {c} : call'[d].at \in {"idle", "done"}
  BY <1>2, <1>3
<1>5. M!Busy' \subseteq {c}
  BY <1>4 DEF M!Busy
<1>6. AllOf(history)' = AllOf(history)
  BY DEF AllOf
<1>7. backend' = backend /\ call'[c].at \in {"put", "trim", "delete", "list", "answer", "done"}
  BY DEF Underway, CallState
<1>8. backend = "memory" => AllOf(history)' = Newest'
  BY <1>1, <1>2, <1>6 DEF CalmStores
<1>9. backend = "redis" /\ (\A d \in M!Busy' : call'[d].at \in {"list", "answer"}) => hash' = Newest'
  <2>1. call'[c].at \notin {"idle", "done"} => c \in M!Busy'
    BY DEF M!Busy
  <2> QED BY <1>2, <1>7, <2>1
<1>10. ASSUME NEW d \in M!Call
       PROVE  /\ call'[d].at = "put" => AtPut(d)'
              /\ call'[d].at \in {"trim", "delete"} => Top(hash') = Newest'
              /\ call'[d].at = "delete" => call'[d].doomed = {e.commit : e \in hash' \ Top(hash')}
              /\ call'[d].at = "answer" => AllOf(call'[d].known) = Newest'
  <2>1. CASE d = c
    BY <1>2, <2>1
  <2>2. CASE d # c
    BY <1>4, <2>2
  <2> QED BY <2>1, <2>2
<1>11. Top(hash)' = Top(hash') /\ \A d \in M!Call : AllOf(call[d].known)' = AllOf(call'[d].known)
  BY DEF Top, NewerIn, AllOf
<1> QED BY <1>5, <1>7, <1>8, <1>9, <1>10, <1>11 DEF CalmStores

\* What is at the top of a top is all of it.
LEMMA TopTop ==
  ASSUME NEW S, S \subseteq EntrySet, IsFiniteSet(S)
  PROVE  Top(Top(S)) = Top(S)
<1>1. \A e \in Top(S) : NewerIn(e, Top(S)) = NewerIn(e, S)
  BY TopFacts DEF NewerIn
<1> QED BY <1>1 DEF Top

LEMMA NewestFacts ==
  ASSUME SnapshotsInv
  PROVE  /\ Newest \subseteq LatestOf(call, AskedBy(call)) /\ Newest \subseteq EntrySet /\ IsFiniteSet(Newest)
         /\ Top(Newest) = Newest
         /\ hash \subseteq EntrySet /\ IsFiniteSet(hash)
         /\ AskedOf(call) \subseteq EntrySet
<1>1. Stamped(call)
  BY DEF SnapshotsInv, CallsInv
<1> DEFINE L == LatestOf(call, AskedBy(call))
<1>2. /\ L \subseteq AskedOf(call) /\ AskedOf(call) \subseteq EntrySet
      /\ IsFiniteSet(L) /\ IsFiniteSet(AskedOf(call))
  BY <1>1, LatestFacts
<1> HIDE DEF L
<1>3. L \subseteq EntrySet
  BY <1>2
<1>4. Top(L) \subseteq L /\ Top(Top(L)) = Top(L)
  BY <1>2, <1>3, TopFacts, TopTop
<1>5. IsFiniteSet(Top(L))
  BY <1>2, <1>4, FS_Subset
<1>6. hash \subseteq AskedOf(call)
  BY DEF SnapshotsInv, HashInv
<1>7. IsFiniteSet(hash)
  BY <1>2, <1>6, FS_Subset
<1> QED BY <1>2, <1>3, <1>4, <1>5, <1>6, <1>7 DEF L, Newest

LEMMA HSetKept ==
  ASSUME SnapshotsInv, NEW c \in M!Call, M!HSet(c)
  PROVE  SnapshotsInv'
<1>1. /\ call[c].at = "put" /\ call[c] \in CallState /\ call \in [M!Call -> CallState]
      /\ call' = [call EXCEPT ![c].at = "trim"]
      /\ UNCHANGED <<backend, history, clock, calm>>
      /\ hash' = {e \in hash : e.commit # Commits[c]} \cup {EntryOf(call, c)}
  BY DEF M!HSet, M!At, M!Goto, EntryOf, SnapshotsInv, CallsInv
<1>2. /\ call'[c].at = "trim" /\ call'[c].capturedAt = call[c].capturedAt /\ call'[c].known = call[c].known
      /\ call'[c].answer = call[c].answer /\ call'[c].baseline = call[c].baseline /\ call'[c].since = call[c].since
      /\ call'[c] \in CallState /\ call' = [call EXCEPT ![c] = call'[c]]
  BY <1>1 DEF CallState
<1>3. Underway(c)
  BY <1>1, <1>2 DEF Underway, SnapshotsInv, CallsInv
<1>4. backend = "redis" /\ call[c].answer = "none" /\ c \in AskedBy(call)
  <2>1. CallsInv
    BY DEF SnapshotsInv
  <2>2. backend = "redis" /\ call[c].answer = "none"
    BY <1>1, <2>1 DEF CallsInv
  <2>3. call[c].capturedAt # 0
    BY <1>1, <2>1 DEF CallsInv
  <2>4. call[c].capturedAt \in Nat
    BY <1>1 DEF CallState
  <2>5. call[c].capturedAt > 0
    BY <2>3, <2>4
  <2> QED BY <2>2, <2>5 DEF AskedBy
<1>5. CallsInv'
  BY <1>2, <1>3, <1>4, UnderwayCalls
<1>6. HistoryInv' /\ KnownInv'
  BY <1>1, <1>2, <1>3, UnderwayKeeps DEF SnapshotsInv, KnownInv
<1>7. HashInv'
  <2>1. AskedOf(call)' = AskedOf(call)
    <3>1. AskedOf(call') = AskedOf(call)
      BY <1>3, UnderwayFacts
    <3> QED BY <3>1 DEF AskedOf, AskedBy, EntryOf
  <2>2. EntryOf(call, c) \in AskedOf(call) /\ EntryOf(call, c).commit = Commits[c]
    BY <1>4 DEF AskedOf, EntryOf
  <2> QED BY <1>1, <2>1, <2>2 DEF SnapshotsInv, HashInv
<1>8. AnswersInv'
  BY <1>2, <1>3, UnderwayAnswers
<1>9. calm' => Top(hash') = Newest
  <2> SUFFICES ASSUME calm PROVE Top(hash') = Newest
    BY <1>1
  <2> DEFINE S == LatestOf(call, AskedBy(call) \ {c})
             e == EntryOf(call, c)
  <2>1. hash = Top(S) /\ \A d \in AskedBy(call) \ {c} : call[d].capturedAt < call[c].capturedAt
    BY <1>1 DEF SnapshotsInv, CalmStores, AtPut
  <2>2. Stamped(call)
    BY DEF SnapshotsInv, CallsInv
  <2>3. LatestOf(call, AskedBy(call)) = {x \in S : x.commit # Commits[c]} \cup {e}
    BY <1>4, <2>1, <2>2, LatestGrows
  <2>4. /\ S \subseteq AskedOf(call) /\ AskedOf(call) \subseteq EntrySet
        /\ IsFiniteSet(S) /\ \A x, y \in S : x.commit = y.commit => x = y
    <3>1. AskedBy(call) \ {c} \in SUBSET AskedBy(call)
      OBVIOUS
    <3> QED BY <2>2, <3>1, LatestFacts
  <2>5. \A x \in S : x.capturedAt < e.capturedAt
    BY <2>1 DEF LatestOf, LastOf, EntryOf
  <2>6. e \in EntrySet /\ e.commit = Commits[c]
    BY <1>4, <2>4 DEF AskedOf, EntryOf
  <2> HIDE DEF S, e
  <2>7. S \subseteq EntrySet
    BY <2>4
  <2>8. Top({x \in Top(S) : x.commit # e.commit} \cup {e}) = Top({x \in S : x.commit # e.commit} \cup {e})
    BY <2>4, <2>5, <2>6, <2>7, TopAfter
  <2>9. hash' = {x \in Top(S) : x.commit # e.commit} \cup {e}
    BY <1>1, <2>1, <2>6 DEF e
  <2>10. LatestOf(call, AskedBy(call)) = {x \in S : x.commit # e.commit} \cup {e}
    BY <2>3, <2>6
  <2> QED BY <2>8, <2>9, <2>10 DEF Newest
<1>10. CalmStores'
  BY <1>1, <1>2, <1>3, <1>9, UnderwayCalm
<1> QED BY <1>5, <1>6, <1>7, <1>8, <1>10 DEF SnapshotsInv

LEMMA TrimKept ==
  ASSUME SnapshotsInv, NEW c \in M!Call, M!ReadToTrim(c)
  PROVE  SnapshotsInv'
<1> DEFINE all == M!NewestFirst(hash)
           doomed == {all[i].commit : i \in (MaxSnapshots + 1)..Len(all)}
           pc0 == IF Len(all) > MaxSnapshots THEN "delete" ELSE "list"
<1>1. /\ call[c].at = "trim" /\ call[c] \in CallState /\ call \in [M!Call -> CallState]
      /\ call' = [call EXCEPT ![c].at = pc0, ![c].doomed = doomed]
      /\ UNCHANGED <<backend, hash, history, clock, calm>>
  BY DEF M!ReadToTrim, M!At, SnapshotsInv, CallsInv
<1>2. hash \subseteq EntrySet /\ IsFiniteSet(hash)
  BY NewestFacts
<1>3. /\ Len(all) = Cardinality(hash) /\ all \in Seq(hash)
      /\ {all[i] : i \in (MaxSnapshots + 1)..Len(all)} = hash \ Top(hash)
  BY <1>2, ShownIs
<1>4. doomed = {e.commit : e \in hash \ Top(hash)}
  <2>1. doomed = {e.commit : e \in {all[i] : i \in (MaxSnapshots + 1)..Len(all)}}
    OBVIOUS
  <2> HIDE DEF all
  <2> QED BY <1>3, <2>1
<1> HIDE DEF all
<1>5. doomed \in SUBSET Nat
  <2>1. \A e \in hash : e.commit \in Nat
    BY <1>2 DEF EntrySet
  <2> HIDE DEF doomed
  <2> QED BY <1>4, <2>1
<1>6. pc0 \in {"delete", "list"} /\ (pc0 = "list" => Cardinality(hash) <= MaxSnapshots)
  <2>1. Cardinality(hash) \in Nat /\ MaxSnapshots \in Nat
    BY <1>2, FS_CardinalityType, StoresAssumption
  <2> QED BY <1>3, <2>1
<1> HIDE DEF doomed, pc0
<1>7. /\ call'[c].at = pc0 /\ call'[c].capturedAt = call[c].capturedAt /\ call'[c].known = call[c].known
      /\ call'[c].answer = call[c].answer /\ call'[c].baseline = call[c].baseline /\ call'[c].since = call[c].since
      /\ call'[c].doomed = doomed
      /\ call'[c] \in CallState /\ call' = [call EXCEPT ![c] = call'[c]]
  BY <1>1, <1>5, <1>6 DEF CallState
<1>8. Underway(c)
  BY <1>1, <1>6, <1>7 DEF Underway, SnapshotsInv, CallsInv
<1>9. backend = "redis" /\ call[c].answer = "none"
  BY <1>1 DEF SnapshotsInv, CallsInv
<1>10. CallsInv'
  BY <1>6, <1>7, <1>8, <1>9, UnderwayCalls
<1>11. HistoryInv' /\ KnownInv' /\ HashInv'
  BY <1>1, <1>7, <1>8, UnderwayKeeps DEF SnapshotsInv, KnownInv
<1>12. AnswersInv'
  BY <1>7, <1>8, UnderwayAnswers
<1>13. CalmStores'
  <2>1. calm => Top(hash) = Newest
    BY <1>1 DEF SnapshotsInv, CalmStores
  <2>2. pc0 = "list" => Top(hash) = hash
    BY <1>2, <1>6, TopFacts
  <2>3. hash' = hash /\ (calm' => calm)
    BY <1>1
  <2>4. calm' => /\ call'[c].at \in {"list", "answer", "done"} /\ backend = "redis" => hash' = Newest
                 /\ call'[c].at # "put"
                 /\ call'[c].at \in {"trim", "delete"} => Top(hash') = Newest
                 /\ call'[c].at = "delete" => call'[c].doomed = {e.commit : e \in hash' \ Top(hash')}
                 /\ call'[c].at = "answer" => AllOf(call'[c].known) = Newest
    BY <1>4, <1>6, <1>7, <2>1, <2>2, <2>3
  <2> QED BY <1>1, <1>8, <2>4, UnderwayCalm
<1> QED BY <1>10, <1>11, <1>12, <1>13 DEF SnapshotsInv

LEMMA HDelKept ==
  ASSUME SnapshotsInv, NEW c \in M!Call, M!HDel(c)
  PROVE  SnapshotsInv'
<1>1. /\ call[c].at = "delete" /\ call[c] \in CallState /\ call \in [M!Call -> CallState]
      /\ call' = [call EXCEPT ![c].at = "list"]
      /\ hash' = {e \in hash : e.commit \notin call[c].doomed}
      /\ UNCHANGED <<backend, history, clock, calm>>
  BY DEF M!HDel, M!At, M!Goto, SnapshotsInv, CallsInv
<1>2. /\ call'[c].at = "list" /\ call'[c].capturedAt = call[c].capturedAt /\ call'[c].known = call[c].known
      /\ call'[c].answer = call[c].answer /\ call'[c].baseline = call[c].baseline /\ call'[c].since = call[c].since
      /\ call'[c] \in CallState /\ call' = [call EXCEPT ![c] = call'[c]]
  BY <1>1 DEF CallState
<1>3. Underway(c)
  BY <1>1, <1>2 DEF Underway, SnapshotsInv, CallsInv
<1>4. backend = "redis" /\ call[c].answer = "none"
  BY <1>1 DEF SnapshotsInv, CallsInv
<1>5. CallsInv'
  BY <1>2, <1>3, <1>4, UnderwayCalls
<1>6. hash' \subseteq hash
  BY <1>1
<1>7. HistoryInv' /\ KnownInv' /\ HashInv'
  BY <1>1, <1>2, <1>3, <1>6, UnderwayKeeps DEF SnapshotsInv, KnownInv
<1>8. AnswersInv'
  BY <1>2, <1>3, UnderwayAnswers
<1>9. calm' => hash' = Newest
  <2> SUFFICES ASSUME calm PROVE hash' = Newest
    BY <1>1
  <2>1. Top(hash) = Newest /\ call[c].doomed = {e.commit : e \in hash \ Top(hash)}
    BY <1>1 DEF SnapshotsInv, CalmStores
  <2>2. \A x, y \in hash : x.commit = y.commit => x = y
    BY DEF SnapshotsInv, HashInv
  <2>3. Top(hash) \subseteq hash
    BY DEF Top
  <2> QED BY <1>1, <2>1, <2>2, <2>3
<1>10. CalmStores'
  BY <1>1, <1>2, <1>3, <1>9, UnderwayCalm
<1> QED BY <1>5, <1>7, <1>8, <1>10 DEF SnapshotsInv

LEMMA FailKept ==
  ASSUME SnapshotsInv, NEW c \in M!Call, M!PutFails(c)
  PROVE  SnapshotsInv'
<1>1. /\ call[c].at \in {"put", "trim", "delete"} /\ call[c] \in CallState /\ call \in [M!Call -> CallState]
      /\ call' = [call EXCEPT ![c].at = "list"]
      /\ calm' = FALSE
      /\ UNCHANGED <<backend, hash, history, clock>>
  BY DEF M!PutFails, M!At, M!Goto, SnapshotsInv, CallsInv
<1>2. /\ call'[c].at = "list" /\ call'[c].capturedAt = call[c].capturedAt /\ call'[c].known = call[c].known
      /\ call'[c].answer = call[c].answer /\ call'[c].baseline = call[c].baseline /\ call'[c].since = call[c].since
      /\ call'[c] \in CallState /\ call' = [call EXCEPT ![c] = call'[c]]
  BY <1>1 DEF CallState
<1>3. Underway(c)
  BY <1>1, <1>2 DEF Underway
<1>4. backend = "redis" /\ call[c].answer = "none"
  BY <1>1 DEF SnapshotsInv, CallsInv
<1>5. CallsInv'
  BY <1>2, <1>3, <1>4, UnderwayCalls
<1>6. HistoryInv' /\ KnownInv' /\ HashInv'
  BY <1>1, <1>2, <1>3, UnderwayKeeps DEF SnapshotsInv, KnownInv
<1>7. AnswersInv'
  BY <1>2, <1>3, UnderwayAnswers
<1>8. CalmStores'
  BY <1>1 DEF CalmStores
<1> QED BY <1>5, <1>6, <1>7, <1>8 DEF SnapshotsInv

LEMMA ExpireKept ==
  ASSUME SnapshotsInv, M!Expire
  PROVE  SnapshotsInv'
<1>1. hash' = {} /\ calm' = FALSE /\ UNCHANGED <<backend, history, clock, call>>
  BY DEF M!Expire
<1>2. CallsInv'
  BY <1>1 DEF SnapshotsInv, CallsInv, Stamped, AskedBy
<1>3. HashInv' /\ HistoryInv' /\ KnownInv'
  <2>1. AskedOf(call)' = AskedOf(call)
    BY <1>1 DEF AskedOf, AskedBy, EntryOf
  <2>2. HashInv'
    BY <1>1 DEF HashInv
  <2>3. HistoryInv'
    BY <1>1, <2>1 DEF SnapshotsInv, HistoryInv
  <2>4. \A c \in M!Call : call'[c].known = call[c].known
    BY <1>1
  <2>5. KnownInv'
    BY <2>1, <2>4 DEF SnapshotsInv, KnownInv, GoodList
  <2> QED BY <2>2, <2>3, <2>5
<1>4. CalmStores'
  BY <1>1 DEF CalmStores
<1>5. AnswersInv'
  BY <1>1 DEF SnapshotsInv, AnswersInv, AskedBy
<1> QED BY <1>2, <1>3, <1>4, <1>5 DEF SnapshotsInv

\* The snapshots are shown to a call, or none.
LEMMA ListedKept ==
  ASSUME SnapshotsInv, NEW c \in M!Call, call[c].at = "list",
         NEW shown \in Seq(AskedOf(call)), GoodList(shown),
         call' = [call EXCEPT ![c].at = "answer", ![c].known = shown],
         UNCHANGED <<backend, hash, history, clock>>,
         calm' \in BOOLEAN, calm' => calm, calm' => AllOf(shown) = Newest
  PROVE  SnapshotsInv'
<1>1. call[c] \in CallState /\ call \in [M!Call -> CallState]
  BY DEF SnapshotsInv, CallsInv
<1>2. shown \in Seq(EntrySet)
  BY NewestFacts
<1>3. /\ call'[c].at = "answer" /\ call'[c].capturedAt = call[c].capturedAt /\ call'[c].known = shown
      /\ call'[c].answer = call[c].answer /\ call'[c].baseline = call[c].baseline /\ call'[c].since = call[c].since
      /\ call'[c] \in CallState /\ call' = [call EXCEPT ![c] = call'[c]]
  BY <1>1, <1>2 DEF CallState
<1>4. Underway(c)
  BY <1>3 DEF Underway
<1>5. call[c].answer = "none"
  BY DEF SnapshotsInv, CallsInv
<1>6. CallsInv'
  BY <1>3, <1>4, <1>5, UnderwayCalls
<1>7. HistoryInv' /\ HashInv' /\ KnownInv'
  BY <1>3, <1>4, UnderwayKeeps
<1>8. AnswersInv'
  BY <1>3, <1>4, UnderwayAnswers
<1>9. calm' /\ backend = "redis" => hash' = Newest
  BY DEF SnapshotsInv, CalmStores, M!Busy
<1>10. CalmStores'
  BY <1>3, <1>4, <1>9, UnderwayCalm
<1> QED BY <1>6, <1>7, <1>8, <1>10 DEF SnapshotsInv

LEMMA ReversedIs ==
  ASSUME SnapshotsInv
  PROVE  /\ M!Reversed(history) \in Seq(AskedOf(call)) /\ GoodList(M!Reversed(history))
         /\ AllOf(M!Reversed(history)) = AllOf(history)
<1> DEFINE n == Len(history)
           back == M!Reversed(history)
<1>1. /\ n \in Nat /\ n <= MaxSnapshots
      /\ \A i \in 1..n : history[i] \in AskedOf(call) /\ history[i].capturedAt \in Nat
      /\ \A i, k \in 1..n : i < k =>
           history[i].capturedAt < history[k].capturedAt /\ history[i].commit # history[k].commit
  <2>1. history \in Seq(AskedOf(call)) /\ AskedOf(call) \subseteq EntrySet
    BY NewestFacts DEF SnapshotsInv, HistoryInv
  <2>2. Len(history) <= MaxSnapshots /\ \A i, k \in 1..Len(history) : i < k =>
           history[i].capturedAt < history[k].capturedAt /\ history[i].commit # history[k].commit
    BY DEF SnapshotsInv, HistoryInv
  <2>3. n \in Nat /\ \A i \in 1..n : history[i] \in AskedOf(call)
    BY <2>1
  <2>4. \A e \in AskedOf(call) : e.capturedAt \in Nat
    BY <2>1 DEF EntrySet
  <2> QED BY <2>2, <2>3, <2>4
<1>2. back = [i \in 1..n |-> history[n - i + 1]]
  BY DEF M!Reversed, SnapshotsInv, HistoryInv
<1> HIDE DEF back, n
<1>3. \A i \in 1..n : n - i + 1 \in 1..n /\ n - (n - i + 1) + 1 = i
  BY <1>1
<1>4. back \in Seq(AskedOf(call)) /\ Len(back) = n
  BY <1>1, <1>2, <1>3
<1>5. \A i, k \in 1..n : i < k => M!Newer(back[i], back[k]) /\ back[i].commit # back[k].commit
  <2> SUFFICES ASSUME NEW i \in 1..n, NEW k \in 1..n, i < k
               PROVE  M!Newer(back[i], back[k]) /\ back[i].commit # back[k].commit
    OBVIOUS
  <2>1. n - k + 1 < n - i + 1
    BY <1>1
  <2>2. /\ history[n - k + 1].capturedAt < history[n - i + 1].capturedAt
        /\ history[n - k + 1].commit # history[n - i + 1].commit
    BY <1>1, <1>3, <2>1
  <2>3. back[i] = history[n - i + 1] /\ back[k] = history[n - k + 1]
    BY <1>2
  <2>4. back[k].capturedAt \in Nat /\ back[i].capturedAt \in Nat
    BY <1>1, <1>3, <2>3
  <2> QED BY <2>2, <2>3, <2>4 DEF M!Newer
<1>6. GoodList(back)
  BY <1>1, <1>4, <1>5 DEF GoodList
<1>7. AllOf(back) = AllOf(history)
  <2>1. \A i \in 1..n : back[i] = history[n - i + 1] /\ history[i] = back[n - i + 1]
    BY <1>2, <1>3
  <2>2. AllOf(back) = {back[i] : i \in 1..n} /\ AllOf(history) = {history[i] : i \in 1..n}
    BY <1>4 DEF AllOf, n
  <2> QED BY <1>3, <2>1, <2>2
<1> QED BY <1>4, <1>6, <1>7 DEF back

LEMMA ListKept ==
  ASSUME SnapshotsInv, NEW c \in M!Call, M!List(c)
  PROVE  SnapshotsInv'
<1>1. call[c].at = "list" /\ UNCHANGED <<backend, hash, history, clock>>
  BY DEF M!List, M!At
<1>2. calm \in BOOLEAN
  BY DEF SnapshotsInv, CallsInv
<1>3. CASE calm' = FALSE /\ call' = [call EXCEPT ![c].at = "answer", ![c].known = <<>>]
  <2>1. <<>> \in Seq(AskedOf(call))
    OBVIOUS
  <2>2. GoodList(<<>>)
    <3>1. MaxSnapshots \in Nat
      BY StoresAssumption
    <3> QED BY <3>1 DEF GoodList
  <2> QED BY <1>1, <1>3, <2>1, <2>2, ListedKept
<1>4. CASE backend = "memory" /\ calm' = calm
           /\ call' = [call EXCEPT ![c].at = "answer", ![c].known = M!Reversed(history)]
  <2>1. calm => AllOf(M!Reversed(history)) = Newest
    BY <1>4, ReversedIs DEF SnapshotsInv, CalmStores
  <2> QED BY <1>1, <1>2, <1>4, <2>1, ReversedIs, ListedKept
<1>5. CASE backend = "redis" /\ calm' = calm
           /\ call' = [call EXCEPT ![c].at = "answer", ![c].known = M!Shown(M!NewestFirst(hash))]
  <2> DEFINE shown == M!Shown(M!NewestFirst(hash))
  <2>1. /\ shown \in Seq(hash) /\ Len(shown) <= MaxSnapshots
        /\ \A i, k \in 1..Len(shown) : i < k => M!Newer(shown[i], shown[k])
        /\ {shown[i] : i \in 1..Len(shown)} = Top(hash)
    BY NewestFacts, ShownIs
  <2>2. hash \subseteq AskedOf(call) /\ \A x, y \in hash : x.commit = y.commit => x = y
    BY DEF SnapshotsInv, HashInv
  <2>3. \A x \in hash : ~M!Newer(x, x)
    <3>1. \A x \in hash : x.capturedAt \in Nat /\ x.commit \in Nat
      BY NewestFacts DEF EntrySet
    <3> QED BY <3>1 DEF M!Newer
  <2> HIDE DEF shown
  <2>4. \A i \in 1..Len(shown) : shown[i] \in hash
    BY <2>1
  <2>5. shown \in Seq(AskedOf(call)) /\ GoodList(shown)
    <3>1. shown \in Seq(AskedOf(call))
      BY <2>1, <2>2
    <3>2. \A i, k \in 1..Len(shown) : i < k => shown[i].commit # shown[k].commit
      <4> SUFFICES ASSUME NEW i \in 1..Len(shown), NEW k \in 1..Len(shown), i < k, shown[i].commit = shown[k].commit
                   PROVE  FALSE
        OBVIOUS
      <4>1. shown[i] = shown[k] /\ M!Newer(shown[i], shown[k])
        BY <2>1, <2>2, <2>4
      <4> QED BY <2>3, <2>4, <4>1
    <3> QED BY <2>1, <3>1, <3>2 DEF GoodList
  <2>6. calm => AllOf(shown) = Newest
    <3> SUFFICES ASSUME calm PROVE AllOf(shown) = Newest
      OBVIOUS
    <3>1. hash = Newest
      BY <1>1, <1>5 DEF SnapshotsInv, CalmStores, M!Busy
    <3>2. Top(hash) = Newest
      BY <3>1, NewestFacts
    <3> QED BY <2>1, <3>2 DEF AllOf
  <2>7. call' = [call EXCEPT ![c].at = "answer", ![c].known = shown]
    BY <1>5 DEF shown
  <2> QED BY <1>1, <1>2, <1>5, <2>5, <2>6, <2>7, ListedKept
<1> QED BY <1>3, <1>4, <1>5 DEF M!List, SnapshotsInv, CallsInv

\* Of every commit that was asked about there is a last time.
LEMMA HasLatest ==
  ASSUME SnapshotsInv, NEW d \in AskedBy(call)
  PROVE  \E e \in LastOf(call, AskedBy(call)) : Commits[e] = Commits[d]
<1> DEFINE C == {e \in AskedBy(call) : Commits[e] = Commits[d]}
           times == {call[e].capturedAt : e \in C}
<1>1. clock \in Nat /\ \A e \in C : call[e].capturedAt \in 0..clock
  <2>1. \A e \in C : e \in M!Call
    BY DEF AskedBy
  <2>2. \A e \in M!Call : call[e].capturedAt \in Nat /\ call[e].capturedAt <= clock
    BY DEF SnapshotsInv, CallsInv, Stamped
  <2> QED BY <2>1, <2>2 DEF SnapshotsInv, CallsInv
<1>2. d \in C
  OBVIOUS
<1>3. times \in SUBSET (0..clock) /\ times # {}
  BY <1>1, <1>2
<1>4. PICK x \in times : \A y \in times : y <= x
  <2> HIDE DEF times
  <2> QED BY <1>1, <1>3, HasGreatest
<1>5. PICK e \in C : x = call[e].capturedAt
  BY <1>4
<1>6. \A f \in AskedBy(call) : Commits[f] = Commits[e] => call[f].capturedAt <= call[e].capturedAt
  BY <1>4, <1>5
<1>7. e \in LastOf(call, AskedBy(call))
  BY <1>5, <1>6 DEF LastOf
<1> QED BY <1>5, <1>7

\* When two may be shown and all that is shown is one commit, no other was
\* asked about.
LEMMA OnlyOne ==
  ASSUME SnapshotsInv, MaxSnapshots > 1, NEW k, \A e \in Newest : e.commit = k
  PROVE  \A d \in AskedBy(call) : Commits[d] = k
<1> DEFINE L == LatestOf(call, AskedBy(call))
           n == Cardinality(L)
<1>1. /\ L \subseteq EntrySet /\ IsFiniteSet(L)
      /\ \A x, y \in L : x.commit = y.commit => x = y
  <2>1. Stamped(call)
    BY DEF SnapshotsInv, CallsInv
  <2> QED BY <2>1, LatestFacts
<1>2. Newest = Top(L)
  BY DEF Newest
<1> SUFFICES ASSUME NEW d \in AskedBy(call), Commits[d] # k PROVE FALSE
  OBVIOUS
<1>3. PICK x \in L : x.commit # k
  <2>1. PICK e \in LastOf(call, AskedBy(call)) : Commits[e] = Commits[d]
    BY HasLatest
  <2>2. EntryOf(call, e) \in L /\ EntryOf(call, e).commit # k
    BY <2>1 DEF LatestOf, EntryOf
  <2> QED BY <2>2
<1> HIDE DEF L
<1> DEFINE all == M!NewestFirst(L)
<1>4. /\ n \in Nat /\ all \in [1..n -> L]
      /\ \A i, h \in 1..n : i < h => M!Newer(all[i], all[h])
      /\ \A e \in L : \E i \in 1..n : all[i] = e
      /\ \A i \in 1..n : Cardinality(NewerIn(all[i], L)) = i - 1
  BY <1>1, NewestIs
<1> HIDE DEF all, n
<1>5. PICK i \in 1..n : all[i] = x
  BY <1>4
<1>6. MaxSnapshots \in Nat
  BY StoresAssumption
<1>7. \A h \in 1..n : h <= MaxSnapshots => all[h].commit = k
  <2> SUFFICES ASSUME NEW h \in 1..n, h <= MaxSnapshots PROVE all[h].commit = k
    OBVIOUS
  <2>1. Cardinality(NewerIn(all[h], L)) = h - 1 /\ all[h] \in L
    BY <1>4
  <2>2. Cardinality(NewerIn(all[h], L)) < MaxSnapshots
    BY <1>6, <2>1
  <2>3. all[h] \in Top(L)
    BY <2>1, <2>2 DEF Top
  <2> QED BY <1>2, <2>3
<1>8. ~(i <= MaxSnapshots)
  BY <1>3, <1>5, <1>7
<1>9. 1 \in 1..n /\ 2 \in 1..n /\ 2 <= MaxSnapshots /\ 1 <= MaxSnapshots
  BY <1>4, <1>6, <1>8
<1>10. all[1] = all[2] /\ M!Newer(all[1], all[2]) /\ all[1] \in EntrySet
  BY <1>1, <1>4, <1>7, <1>9
<1>11. all[1].capturedAt \in Nat /\ all[1].commit \in Nat
  BY <1>10 DEF EntrySet
<1> QED BY <1>10, <1>11 DEF M!Newer

LEMMA NoneIsGood == GoodList(<<>>) /\ \A S : <<>> \in Seq(S)
<1>1. MaxSnapshots \in Nat
  BY StoresAssumption
<1> QED BY <1>1 DEF GoodList

\* A call is told something: of a commit that was asked about before.
LEMMA ToldKept ==
  ASSUME SnapshotsInv, NEW c \in M!Call, NEW since \in Sinces, call[c].at = "answer",
         NEW answer \in {"only one", "diff", "unknown", "ambiguous"}, NEW baseline \in Nat,
         call' = [call EXCEPT ![c].at = "done", ![c].answer = answer, ![c].baseline = baseline,
                              ![c].since = since, ![c].known = <<>>, ![c].doomed = {}],
         UNCHANGED <<backend, hash, history, clock, calm>>,
         answer = "diff" => /\ baseline # Commits[c]
                            /\ \E e \in AskedOf(call) : e.commit = baseline
                            /\ since # {} => baseline \in since,
         answer = "only one" /\ calm /\ MaxSnapshots > 1 => \A d \in AskedBy(call) : Commits[d] = Commits[c]
  PROVE  SnapshotsInv'
<1>1. call[c] \in CallState /\ call \in [M!Call -> CallState]
  BY DEF SnapshotsInv, CallsInv
<1>2. <<>> \in Seq(EntrySet) /\ <<>> \in Seq(AskedOf(call)) /\ GoodList(<<>>)
  BY NoneIsGood
<1>3. /\ call'[c].at = "done" /\ call'[c].capturedAt = call[c].capturedAt /\ call'[c].known = <<>>
      /\ call'[c].answer = answer /\ call'[c].baseline = baseline /\ call'[c].since = since
      /\ call'[c] \in CallState /\ call' = [call EXCEPT ![c] = call'[c]]
  BY <1>1, <1>2 DEF CallState
<1>4. Underway(c)
  BY <1>3 DEF Underway, SnapshotsInv, CallsInv
<1>5. CallsInv'
  BY <1>3, <1>4, UnderwayCalls
<1>6. HistoryInv' /\ HashInv' /\ KnownInv'
  BY <1>2, <1>3, <1>4, UnderwayKeeps
<1>7. calm' /\ backend = "redis" => hash' = Newest
  BY DEF SnapshotsInv, CalmStores, M!Busy
<1>8. CalmStores'
  BY <1>3, <1>4, <1>7, UnderwayCalm
<1>9. /\ AskedBy(call)' = AskedBy(call)
      /\ \A d \in M!Call : call'[d].capturedAt = call[d].capturedAt
      /\ \A d \in M!Call \ {c} : call'[d] = call[d]
  <2>1. AskedBy(call') = AskedBy(call)
    BY <1>4, UnderwayFacts
  <2> QED BY <1>4, <2>1, UnderwayFacts DEF AskedBy
<1>10. ASSUME NEW d \in M!Call
       PROVE  /\ call'[d].answer = "diff" =>
                   /\ call'[d].baseline # Commits[d]
                   /\ \E e \in M!Call : Commits[e] = call'[d].baseline /\ call'[e].capturedAt > 0
                   /\ call'[d].since # {} => call'[d].baseline \in call'[d].since
              /\ call'[d].answer = "only one" /\ calm' /\ MaxSnapshots > 1 =>
                   \A e \in AskedBy(call) : call'[e].capturedAt < call'[d].capturedAt => Commits[e] = Commits[d]
  <2>1. CASE d = c
    <3>1. answer = "diff" => \E e \in M!Call : Commits[e] = baseline /\ call[e].capturedAt > 0
      BY DEF AskedOf, AskedBy, EntryOf
    <3> QED BY <1>3, <1>9, <2>1, <3>1
  <2>2. CASE d # c
    <3>1. call'[d] = call[d] /\ \A e \in M!Call : call'[e].capturedAt = call[e].capturedAt
      BY <1>9, <2>2
    <3>2. /\ call[d].answer = "diff" =>
               /\ call[d].baseline # Commits[d]
               /\ \E e \in M!Call : Commits[e] = call[d].baseline /\ call[e].capturedAt > 0
               /\ call[d].since # {} => call[d].baseline \in call[d].since
          /\ call[d].answer = "only one" /\ calm /\ MaxSnapshots > 1 =>
               \A e \in AskedBy(call) : call[e].capturedAt < call[d].capturedAt => Commits[e] = Commits[d]
      BY DEF SnapshotsInv, AnswersInv
    <3>3. AskedBy(call) \subseteq M!Call
      BY DEF AskedBy
    <3> QED BY <3>1, <3>2, <3>3
  <2> QED BY <2>1, <2>2
<1>11. AnswersInv'
  BY <1>9, <1>10 DEF AnswersInv
<1> QED BY <1>5, <1>6, <1>8, <1>11 DEF SnapshotsInv

LEMMA AnswerKept ==
  ASSUME SnapshotsInv, NEW c \in M!Call, NEW since \in Sinces, M!Answer(c, since)
  PROVE  SnapshotsInv'
<1> DEFINE known == call[c].known
           others == M!Others(known, Commits[c])
           Said(answer, baseline) ==
             call' = [call EXCEPT ![c].at = "done", ![c].answer = answer, ![c].baseline = baseline,
                                  ![c].since = since, ![c].known = <<>>, ![c].doomed = {}]
<1>1. call[c].at = "answer" /\ UNCHANGED <<backend, hash, history, clock, calm>>
  BY DEF M!Answer, M!At
<1>2. known \in Seq(AskedOf(call)) /\ AskedOf(call) \subseteq EntrySet
  BY NewestFacts DEF SnapshotsInv, KnownInv
<1>3. PICK place : others \in Seq(AskedOf(call)) /\ Keeps(known, Commits[c], others, place)
  BY <1>2, OthersAre
<1>4. \/ others = <<>> /\ Said("only one", 0)
      \/ others # <<>> /\ since = {} /\ Said("diff", others[1].commit)
      \/ \E i \in DOMAIN others : others[i].commit \in since /\ Said("diff", others[i].commit)
      \/ Said("unknown", 0)
      \/ Said("ambiguous", 0)
  BY DEF M!Answer, M!None
<1> HIDE DEF others, known
<1>5. \A i \in DOMAIN others : /\ others[i] \in AskedOf(call) /\ others[i].commit \in Nat
                              /\ others[i].commit # Commits[c]
  <2> SUFFICES ASSUME NEW i \in DOMAIN others
               PROVE  others[i] \in AskedOf(call) /\ others[i].commit \in Nat /\ others[i].commit # Commits[c]
    OBVIOUS
  <2>1. others[i] \in AskedOf(call)
    BY <1>3
  <2>2. others[i].commit \in Nat
    BY <1>2, <2>1 DEF EntrySet
  <2>3. others[i].commit # Commits[c]
    BY <1>3 DEF Keeps
  <2> QED BY <2>1, <2>2, <2>3
<1>6. CASE others = <<>> /\ Said("only one", 0)
  <2>1. \A p \in 1..Len(known) : known[p].commit = Commits[c]
    <3>1. Len(others) = 0
      BY <1>6
    <3> QED BY <1>3, <3>1 DEF Keeps
  <2>2. calm => AllOf(known) = Newest
    BY <1>1 DEF SnapshotsInv, CalmStores, known
  <2>3. calm => \A e \in Newest : e.commit = Commits[c]
    BY <2>1, <2>2 DEF AllOf
  <2>4. calm /\ MaxSnapshots > 1 => \A d \in AskedBy(call) : Commits[d] = Commits[c]
    BY <2>3, OnlyOne
  <2> QED BY <1>1, <1>6, <2>4, ToldKept
<1>7. CASE others # <<>> /\ since = {} /\ Said("diff", others[1].commit)
  <2>1. 1 \in DOMAIN others
    BY <1>3, <1>7
  <2>2. \E e \in AskedOf(call) : e.commit = others[1].commit
    BY <1>5, <2>1
  <2> DEFINE b == others[1].commit
  <2>3. b \in Nat /\ b # Commits[c] /\ \E e \in AskedOf(call) : e.commit = b
    BY <1>5, <2>1, <2>2
  <2>4. Said("diff", b) /\ since = {}
    BY <1>7
  <2> HIDE DEF b
  <2> QED BY <1>1, <2>3, <2>4, ToldKept
<1>8. CASE \E i \in DOMAIN others : others[i].commit \in since /\ Said("diff", others[i].commit)
  <2>1. PICK i \in DOMAIN others : others[i].commit \in since /\ Said("diff", others[i].commit)
    BY <1>8
  <2> DEFINE b == others[i].commit
  <2>2. b \in Nat /\ b # Commits[c] /\ b \in since
    BY <1>5, <2>1
  <2>3. \E e \in AskedOf(call) : e.commit = b
    BY <1>5
  <2>4. Said("diff", b)
    BY <2>1
  <2> HIDE DEF b
  <2> QED BY <1>1, <2>2, <2>3, <2>4, ToldKept
<1>9. CASE Said("unknown", 0) \/ Said("ambiguous", 0)
  BY <1>1, <1>9, ToldKept
<1> QED BY <1>4, <1>6, <1>7, <1>8, <1>9

\* What is last of a sequence in the order of its times is its newest.
Ascending(q) == \A i, k \in 1..Len(q) : i < k => q[i].capturedAt < q[k].capturedAt
LastOnes(q) == IF Len(q) > MaxSnapshots THEN SubSeq(q, Len(q) - MaxSnapshots + 1, Len(q)) ELSE q

LEMMA TailIsTop ==
  ASSUME NEW q \in Seq(EntrySet), Ascending(q)
  PROVE  /\ LastOnes(q) \in Seq(EntrySet) /\ Len(LastOnes(q)) <= MaxSnapshots
         /\ \E off \in Nat : /\ Len(LastOnes(q)) + off = Len(q)
                              /\ \A i \in 1..Len(LastOnes(q)) : LastOnes(q)[i] = q[i + off]
         /\ AllOf(LastOnes(q)) = Top(AllOf(q))
<1> DEFINE n == Len(q)
           S == AllOf(q)
           tail == LastOnes(q)
<1>a. tail = IF Len(q) > MaxSnapshots THEN SubSeq(q, Len(q) - MaxSnapshots + 1, Len(q)) ELSE q
  BY DEF LastOnes
<1>b. \A i, k \in 1..Len(q) : i < k => q[i].capturedAt < q[k].capturedAt
  BY DEF Ascending
<1> HIDE DEF tail
<1>0. n \in Nat /\ MaxSnapshots \in Nat \ {0} /\ \A i \in 1..n : q[i] \in EntrySet /\ q[i].capturedAt \in Nat
  <2>1. \A i \in 1..n : q[i] \in EntrySet
    OBVIOUS
  <2> QED BY <2>1, StoresAssumption DEF EntrySet
<1> DEFINE off == IF n > MaxSnapshots THEN n - MaxSnapshots ELSE 0
<1>1. /\ off \in Nat /\ Len(tail) + off = n /\ Len(tail) <= MaxSnapshots /\ Len(tail) \in Nat
      /\ \A i \in 1..Len(tail) : tail[i] = q[i + off]
      /\ tail \in Seq(EntrySet)
  <2>1. CASE n > MaxSnapshots
    <3>1. tail = SubSeq(q, n - MaxSnapshots + 1, n) /\ n - MaxSnapshots + 1 \in 1..n
      BY <1>0, <1>a, <2>1
    <3> DEFINE a == n - MaxSnapshots + 1
    <3>2. a \in 1..n /\ n \in 1..n /\ n - a + 1 = MaxSnapshots /\ off = a - 1
      BY <1>0, <2>1
    <3>3. tail = SubSeq(q, a, n)
      BY <3>1
    <3> HIDE DEF a, off
    <3>4. Len(tail) = n - a + 1 /\ tail \in Seq(EntrySet) /\ \A i \in 1..Len(tail) : tail[i] = q[a + i - 1]
      BY <1>0, <3>2, <3>3
    <3>5. \A i \in 1..Len(tail) : a + i - 1 = i + off
      BY <1>0, <3>2, <3>4
    <3>6. \A i \in 1..Len(tail) : tail[i] = q[i + off]
      BY <3>4, <3>5
    <3>7. Len(tail) = MaxSnapshots
      BY <3>2, <3>4
    <3>8. off \in Nat /\ MaxSnapshots + off = n
      BY <1>0, <2>1 DEF off
    <3> QED BY <1>0, <3>4, <3>6, <3>7, <3>8
  <2>2. CASE ~(n > MaxSnapshots)
    BY <1>0, <1>a, <2>2
  <2> QED BY <2>1, <2>2
<1> HIDE DEF off
<1>2. \A i, k \in 1..n : M!Newer(q[k], q[i]) <=> i < k
  <2> SUFFICES ASSUME NEW i \in 1..n, NEW k \in 1..n PROVE M!Newer(q[k], q[i]) <=> i < k
    OBVIOUS
  <2>1. CASE i < k
    <3>1. q[i].capturedAt < q[k].capturedAt
      BY <1>b, <2>1
    <3> QED BY <1>0, <2>1, <3>1 DEF M!Newer
  <2>2. CASE k < i
    <3>1. q[k].capturedAt < q[i].capturedAt
      BY <1>b, <2>2
    <3>2. ~(q[k].capturedAt > q[i].capturedAt) /\ q[k].capturedAt # q[i].capturedAt
      BY <1>0, <3>1
    <3> QED BY <1>0, <2>2, <3>2 DEF M!Newer
  <2>3. CASE i = k
    <3>1. q[i].commit \in Nat
      BY <1>0 DEF EntrySet
    <3> QED BY <1>0, <2>3, <3>1 DEF M!Newer
  <2> QED BY <1>0, <2>1, <2>2, <2>3
<1>3. S = {q[i] : i \in 1..n}
  BY DEF AllOf
<1>4. ASSUME NEW i \in 1..n PROVE Cardinality(NewerIn(q[i], S)) = n - i
  <2> DEFINE D == (i + 1)..n
             f == [k \in D |-> q[k]]
  <2>1. NewerIn(q[i], S) = {q[k] : k \in D}
    <3>1. \A k \in 1..n : M!Newer(q[k], q[i]) <=> k \in D
      BY <1>0, <1>2
    <3>2. D \subseteq 1..n
      BY <1>0
    <3> HIDE DEF D, S
    <3> QED BY <1>3, <3>1, <3>2 DEF NewerIn
  <2>2. f \in [D -> NewerIn(q[i], S)] /\ \A y \in NewerIn(q[i], S) : \E k \in D : f[k] = y
    <3> HIDE DEF D
    <3> QED BY <2>1
  <2>3. \A k, h \in D : f[k] = f[h] => k = h
    <3> SUFFICES ASSUME NEW k \in D, NEW h \in D, f[k] = f[h] PROVE k = h
      OBVIOUS
    <3>1. q[k] = q[h] /\ k \in 1..n /\ h \in 1..n
      BY <1>0
    <3>2. ~(k < h) /\ ~(h < k)
      <4>1. q[k].capturedAt \in Nat /\ q[h].capturedAt \in Nat
        BY <1>0, <3>1
      <4>2. ~(q[k].capturedAt < q[h].capturedAt) /\ ~(q[h].capturedAt < q[k].capturedAt)
        BY <3>1, <4>1
      <4> QED BY <1>b, <3>1, <4>2
    <3> QED BY <1>0, <3>1, <3>2
  <2>4. IsFiniteSet(D) /\ Cardinality(D) = n - i
    <3> DEFINE a == i + 1
    <3>1. a \in Int /\ n \in Int /\ (a > n => n - i = 0) /\ n - a + 1 = n - i
      BY <1>0
    <3> HIDE DEF a, n
    <3>2. IsFiniteSet(a..n) /\ Cardinality(a..n) = IF a > n THEN 0 ELSE n - a + 1
      BY <3>1, FS_Interval
    <3> QED BY <3>1, <3>2 DEF a
  <2> HIDE DEF D, f, S
  <2> QED BY <2>2, <2>3, <2>4, SameCount
<1> HIDE DEF n, S
<1>5. Top(S) = {q[i] : i \in (off + 1)..n}
  <2>1. \A i \in 1..n : q[i] \in Top(S) <=> i > off
    <3> SUFFICES ASSUME NEW i \in 1..n PROVE q[i] \in Top(S) <=> i > off
      OBVIOUS
    <3>1. q[i] \in S
      BY <1>3
    <3>2. q[i] \in Top(S) <=> n - i < MaxSnapshots
      BY <1>4, <3>1 DEF Top
    <3>3. n - i < MaxSnapshots <=> i > off
      BY <1>0 DEF off
    <3> QED BY <3>2, <3>3
  <2>2. Top(S) \subseteq S
    BY DEF Top
  <2>3. (off + 1)..n \subseteq 1..n /\ \A i \in 1..n : i > off <=> i \in (off + 1)..n
    BY <1>0, <1>1
  <2> QED BY <1>3, <2>1, <2>2, <2>3
<1>6. AllOf(tail) = {q[i] : i \in (off + 1)..n}
  <2>1. \A i \in 1..Len(tail) : i + off \in (off + 1)..n
    BY <1>0, <1>1
  <2>2. \A i \in (off + 1)..n : i - off \in 1..Len(tail) /\ (i - off) + off = i
    BY <1>0, <1>1
  <2> DEFINE l == Len(tail)
  <2>3. \A i \in 1..l : tail[i] = q[i + off] /\ i + off \in (off + 1)..n
    BY <1>1, <2>1
  <2>4. \A i \in (off + 1)..n : i - off \in 1..l /\ q[i] = tail[i - off]
    BY <1>1, <2>2
  <2>5. AllOf(tail) = {tail[i] : i \in 1..l}
    BY DEF AllOf
  <2> HIDE DEF l
  <2>6. {tail[i] : i \in 1..l} \subseteq {q[i] : i \in (off + 1)..n}
    BY <2>3
  <2>7. {q[i] : i \in (off + 1)..n} \subseteq {tail[i] : i \in 1..l}
    BY <2>4
  <2> QED BY <2>5, <2>6, <2>7
<1> QED BY <1>1, <1>5, <1>6 DEF S, n, tail

LEMMA LatestSame ==
  ASSUME NEW st, NEW tt, NEW C, \A c \in C : tt[c].capturedAt = st[c].capturedAt
  PROVE  LatestOf(tt, C) = LatestOf(st, C)
<1>1. LastOf(tt, C) = LastOf(st, C) /\ LastOf(st, C) \subseteq C
  BY DEF LastOf
<1>2. \A c \in C : EntryOf(tt, c) = EntryOf(st, c)
  BY DEF EntryOf
<1> QED BY <1>1, <1>2 DEF LatestOf

\* A call begins, later than all before it.
LEMMA BeginFacts ==
  ASSUME SnapshotsInv, NEW c \in M!Call, M!Begin(c)
  PROVE  /\ clock' = clock + 1 /\ call' \in [M!Call -> CallState]
         /\ \A d \in M!Call \ {c} : call'[d] = call[d]
         /\ call'[c].at = (IF backend = "redis" THEN "put" ELSE "list")
         /\ call'[c].capturedAt = clock + 1 /\ call'[c].known = call[c].known /\ call'[c].answer = call[c].answer
         /\ call[c].at = "idle"
         /\ AskedBy(call') = AskedBy(call) \cup {c} /\ c \notin AskedBy(call)
         /\ \A d \in AskedBy(call) : call'[d].capturedAt = call[d].capturedAt /\ call[d].capturedAt \in 0..clock
         /\ Stamped(call')
         /\ AskedOf(call') = AskedOf(call) \cup {EntryOf(call', c)}
         /\ LatestOf(call', AskedBy(call')) =
              {x \in LatestOf(call, AskedBy(call)) : x.commit # Commits[c]} \cup {EntryOf(call', c)}
         /\ LatestOf(call', AskedBy(call') \ {c}) = LatestOf(call, AskedBy(call))
<1> DEFINE pc0 == IF backend = "redis" THEN "put" ELSE "list"
<1>1. /\ clock \in Nat /\ call \in [M!Call -> CallState] /\ call[c] \in CallState
      /\ \A d \in M!Call : /\ call[d].at = "idle" <=> call[d].capturedAt = 0
                           /\ call[d].capturedAt \in 0..clock
      /\ Stamped(call)
  <2>1. CallsInv
    BY DEF SnapshotsInv
  <2>2. \A d \in M!Call : call[d].capturedAt \in Nat
    BY <2>1 DEF CallsInv, Stamped
  <2> QED BY <2>1, <2>2 DEF CallsInv
<1>2. /\ call[c].at = "idle" /\ clock' = clock + 1
      /\ call' = [call EXCEPT ![c].at = pc0, ![c].capturedAt = clock + 1]
  BY DEF M!Begin, M!At
<1>3. pc0 \in {"put", "list"}
  OBVIOUS
<1>4. /\ call' \in [M!Call -> CallState] /\ \A d \in M!Call \ {c} : call'[d] = call[d]
      /\ call'[c].at = pc0
      /\ call'[c].capturedAt = clock + 1 /\ call'[c].known = call[c].known /\ call'[c].answer = call[c].answer
  <2> HIDE DEF pc0
  <2>1. call' = [call EXCEPT ![c] = [call[c] EXCEPT !.at = pc0, !.capturedAt = clock + 1]]
    BY <1>1, <1>2
  <2>2. clock + 1 \in Nat
    BY <1>1
  <2> DEFINE new == [call[c] EXCEPT !.at = pc0, !.capturedAt = clock + 1]
  <2>3. /\ new \in CallState /\ new.at = pc0 /\ new.capturedAt = clock + 1
        /\ new.known = call[c].known /\ new.answer = call[c].answer
    BY <1>1, <1>3, <2>2 DEF CallState
  <2>4. call' = [call EXCEPT ![c] = new]
    BY <2>1
  <2> HIDE DEF new
  <2> QED BY <1>1, <2>3, <2>4
<1>5. call[c].capturedAt = 0 /\ c \notin AskedBy(call) /\ AskedBy(call) \subseteq M!Call
  BY <1>1, <1>2 DEF AskedBy
<1>6. AskedBy(call') = AskedBy(call) \cup {c}
  <2>1. call'[c].capturedAt > 0
    BY <1>1, <1>4
  <2> QED BY <1>4, <1>5, <2>1 DEF AskedBy
<1>7. \A d \in AskedBy(call) : call'[d].capturedAt = call[d].capturedAt /\ call[d].capturedAt \in 0..clock
  BY <1>1, <1>4, <1>5
<1>8. Stamped(call')
  <2>1. \A d \in M!Call : call'[d].capturedAt \in Nat
    BY <1>1, <1>4
  <2>2. ASSUME NEW d \in AskedBy(call'), NEW e \in AskedBy(call'), call'[d].capturedAt = call'[e].capturedAt PROVE d = e
    <3>1. \A f \in AskedBy(call) : call'[f].capturedAt # clock + 1
      BY <1>1, <1>7
    <3> QED BY <1>1, <1>4, <1>6, <1>7, <2>2, <3>1 DEF Stamped
  <2> QED BY <2>1, <2>2 DEF Stamped
<1>9. AskedOf(call') = AskedOf(call) \cup {EntryOf(call', c)}
  <2>1. \A d \in AskedBy(call) : EntryOf(call', d) = EntryOf(call, d)
    BY <1>7 DEF EntryOf
  <2> QED BY <1>6, <2>1 DEF AskedOf
<1>10. AskedBy(call') \ {c} = AskedBy(call)
  BY <1>5, <1>6
<1>11. LatestOf(call', AskedBy(call') \ {c}) = LatestOf(call, AskedBy(call))
  <2>1. \A d \in AskedBy(call) : call'[d].capturedAt = call[d].capturedAt
    BY <1>7
  <2>2. LatestOf(call', AskedBy(call)) = LatestOf(call, AskedBy(call))
    BY <2>1, LatestSame
  <2> QED BY <1>10, <2>2
<1>12. LatestOf(call', AskedBy(call')) =
         {x \in LatestOf(call', AskedBy(call') \ {c}) : x.commit # Commits[c]} \cup {EntryOf(call', c)}
  <2>1. c \in AskedBy(call')
    BY <1>6
  <2>2. \A d \in AskedBy(call') \ {c} : call'[d].capturedAt < call'[c].capturedAt
    BY <1>1, <1>4, <1>7, <1>10
  <2> QED BY <1>8, <2>1, <2>2, LatestGrows
<1> QED BY <1>2, <1>4, <1>5, <1>6, <1>7, <1>8, <1>9, <1>11, <1>12

\* In memory the new snapshot goes last, and the oldest go.
LEMMA BeginHistory ==
  ASSUME SnapshotsInv, NEW c \in M!Call, M!Begin(c)
  PROVE  HistoryInv' /\ (calm /\ backend = "memory" => AllOf(history)' = Newest')
<1> DEFINE e == EntryOf(call', c)
           others == M!Others(history, Commits[c])
           q == Append(others, e)
<1>1. /\ clock' = clock + 1 /\ clock \in Nat
      /\ AskedOf(call') = AskedOf(call) \cup {e}
      /\ LatestOf(call', AskedBy(call')) =
              {x \in LatestOf(call, AskedBy(call)) : x.commit # Commits[c]} \cup {e}
      /\ Stamped(call') /\ c \in AskedBy(call')
      /\ \A d \in AskedBy(call) : call[d].capturedAt \in 0..clock
      /\ call'[c].capturedAt = clock + 1
  BY BeginFacts DEF SnapshotsInv, CallsInv
<1>2. e.commit = Commits[c] /\ e.capturedAt = clock + 1 /\ e \in EntrySet /\ e = [commit |-> Commits[c], capturedAt |-> clock']
  BY <1>1, CommitsType DEF EntryOf, EntrySet
<1>3. \A x \in AskedOf(call) : x \in EntrySet /\ x.capturedAt < e.capturedAt /\ x.capturedAt \in Nat
  <2>1. \A x \in AskedOf(call) : x.capturedAt \in 0..clock
    BY <1>1 DEF AskedOf, EntryOf
  <2>2. \A x \in AskedOf(call) : x.capturedAt < clock + 1
    BY <1>1, <2>1
  <2> QED BY <1>2, <2>1, <2>2, NewestFacts
<1>4. AskedOf(call)' = AskedOf(call') /\ Newest' = Top(LatestOf(call', AskedBy(call'))) /\ AllOf(history)' = AllOf(history')
  BY DEF AskedOf, AskedBy, EntryOf, Newest, LatestOf, LastOf, Top, NewerIn, AllOf
<1>5. /\ history \in Seq(AskedOf(call)) /\ Len(history) <= MaxSnapshots
      /\ \A i, k \in 1..Len(history) : i < k =>
           history[i].capturedAt < history[k].capturedAt /\ history[i].commit # history[k].commit
  BY DEF SnapshotsInv, HistoryInv
<1>6. CASE backend = "redis"
  <2>1. history' = history
    BY <1>6 DEF M!Begin
  <2>2. history \in Seq(AskedOf(call'))
    BY <1>1, <1>5
  <2> QED BY <1>4, <1>5, <1>6, <2>1, <2>2 DEF HistoryInv
<1>7. CASE backend # "redis"
  <2>1. history' = IF Len(q) > MaxSnapshots THEN SubSeq(q, Len(q) - MaxSnapshots + 1, Len(q)) ELSE q
    BY <1>2, <1>7 DEF M!Begin
  <2>2. PICK place : others \in Seq(AskedOf(call)) /\ Keeps(history, Commits[c], others, place)
    BY <1>5, OthersAre
  <2> HIDE DEF others, e
  <2> DEFINE n == Len(others)
  <2>3. /\ n \in Nat /\ n <= Len(history)
        /\ \A i \in 1..n : place[i] \in 1..Len(history) /\ others[i] = history[place[i]] /\ others[i].commit # Commits[c]
                           /\ others[i] \in AskedOf(call)
        /\ \A i, k \in 1..n : i < k => place[i] < place[k]
        /\ \A p \in 1..Len(history) : history[p].commit # Commits[c] => \E k \in 1..n : place[k] = p
    <3> DEFINE kept == {i \in 1..Len(history) : history[i].commit # Commits[c]}
    <3>1. /\ n \in 0..Len(history)
          /\ place \in [1..n -> kept]
          /\ \A i, k \in 1..n : i < k => place[i] < place[k]
          /\ \A p \in kept : \E k \in 1..n : place[k] = p
          /\ \A k \in 1..n : others[k] = history[place[k]]
      BY <2>2 DEF Keeps
    <3>2. \A i \in 1..n : others[i] \in AskedOf(call)
      BY <2>2
    <3>3. Len(history) \in Nat
      BY <1>5
    <3>4. n \in Nat /\ n <= Len(history)
      BY <3>1, <3>3
    <3> HIDE DEF n
    <3> QED BY <3>1, <3>2, <3>4
  <2>4. /\ Len(q) = n + 1 /\ q \in Seq(AskedOf(call'))
        /\ q[n + 1] = e /\ \A i \in 1..n : q[i] = others[i]
    BY <1>1, <2>2, <2>3
  <2> HIDE DEF q, n
  <2>5. \A i, k \in 1..Len(q) : i < k => q[i].capturedAt < q[k].capturedAt /\ q[i].commit # q[k].commit
    <3> SUFFICES ASSUME NEW i \in 1..Len(q), NEW k \in 1..Len(q), i < k
                 PROVE  q[i].capturedAt < q[k].capturedAt /\ q[i].commit # q[k].commit
      OBVIOUS
    <3>1. i \in 1..n /\ (k \in 1..n \/ k = n + 1)
      BY <2>3, <2>4
    <3>2. CASE k = n + 1
      BY <1>2, <1>3, <2>3, <2>4, <3>1, <3>2
    <3>3. CASE k \in 1..n
      <4>1. place[i] < place[k] /\ place[i] \in 1..Len(history) /\ place[k] \in 1..Len(history)
        BY <2>3, <3>1, <3>3
      <4>2. q[i] = history[place[i]] /\ q[k] = history[place[k]]
        BY <2>3, <2>4, <3>1, <3>3
      <4> QED BY <1>5, <4>1, <4>2
    <3> QED BY <3>1, <3>2, <3>3
  <2>6. q \in Seq(EntrySet)
    <3>1. AskedOf(call') \subseteq EntrySet
      BY <1>1, <1>2, <1>3
    <3> QED BY <2>4, <3>1
  <2>7. /\ history' \in Seq(EntrySet) /\ Len(history') <= MaxSnapshots
        /\ \E off \in Nat : Len(history') + off = Len(q) /\ \A i \in 1..Len(history') : history'[i] = q[i + off]
        /\ AllOf(history') = Top(AllOf(q))
    <3>1. Ascending(q)
      BY <2>5 DEF Ascending
    <3>2. history' = LastOnes(q)
      BY <2>1 DEF LastOnes
    <3>3. /\ LastOnes(q) \in Seq(EntrySet) /\ Len(LastOnes(q)) <= MaxSnapshots
          /\ \E off \in Nat : /\ Len(LastOnes(q)) + off = Len(q)
                               /\ \A i \in 1..Len(LastOnes(q)) : LastOnes(q)[i] = q[i + off]
          /\ AllOf(LastOnes(q)) = Top(AllOf(q))
      BY <2>6, <3>1, TailIsTop
    <3> QED BY <3>2, <3>3
  <2>8. HistoryInv'
    <3> DEFINE h == history'
               l == Len(h)
    <3>1. PICK off \in Nat : l + off = Len(q) /\ \A i \in 1..l : h[i] = q[i + off]
      BY <2>7
    <3>2. l \in Nat /\ Len(q) \in Nat /\ h \in Seq(EntrySet)
      BY <2>6, <2>7
    <3> HIDE DEF l
    <3>3. \A i \in 1..l : i + off \in 1..Len(q)
      BY <3>1, <3>2
    <3>4. \A i \in 1..l : h[i] \in AskedOf(call')
      BY <2>4, <3>1, <3>3
    <3>5. h \in Seq(AskedOf(call'))
      BY <3>2, <3>4 DEF l
    <3>6. \A i, k \in 1..l : i < k => h[i].capturedAt < h[k].capturedAt /\ h[i].commit # h[k].commit
      <4> SUFFICES ASSUME NEW i \in 1..l, NEW k \in 1..l, i < k
                   PROVE  h[i].capturedAt < h[k].capturedAt /\ h[i].commit # h[k].commit
        OBVIOUS
      <4>1. i + off < k + off /\ i + off \in 1..Len(q) /\ k + off \in 1..Len(q)
        BY <3>2, <3>3
      <4> QED BY <2>5, <3>1, <4>1
    <3> QED BY <1>4, <2>7, <3>5, <3>6 DEF HistoryInv, l
  <2>9. calm => AllOf(history)' = Newest'
    <3> SUFFICES ASSUME calm PROVE AllOf(history') = Top(LatestOf(call', AskedBy(call')))
      BY <1>4
    <3> DEFINE L == LatestOf(call, AskedBy(call))
    <3>1. AllOf(history) = Top(L)
      BY <1>7 DEF SnapshotsInv, CallsInv, CalmStores, Newest
    <3>2. /\ L \subseteq AskedOf(call) /\ IsFiniteSet(L)
          /\ \A x, y \in L : x.commit = y.commit => x = y
      <4>1. Stamped(call) /\ AskedBy(call) \in SUBSET AskedBy(call)
        BY DEF SnapshotsInv, CallsInv
      <4> QED BY <4>1, LatestFacts
    <3>3. AllOf(q) = {x \in AllOf(history) : x.commit # Commits[c]} \cup {e}
      <4>1. AllOf(q) = {q[i] : i \in 1..n} \cup {e}
        <5>1. 1..Len(q) = 1..n \cup {n + 1}
          BY <2>3, <2>4
        <5> QED BY <2>4, <5>1 DEF AllOf
      <4>2. {q[i] : i \in 1..n} = {x \in AllOf(history) : x.commit # Commits[c]}
        <5>1. \A i \in 1..n : q[i] \in AllOf(history) /\ q[i].commit # Commits[c]
          BY <2>3, <2>4 DEF AllOf
        <5>2. \A x \in AllOf(history) : x.commit # Commits[c] => \E i \in 1..n : q[i] = x
          BY <2>3, <2>4 DEF AllOf
        <5> QED BY <5>1, <5>2
      <4> QED BY <4>1, <4>2
    <3> HIDE DEF L
    <3>4. AllOf(q) = {x \in Top(L) : x.commit # e.commit} \cup {e}
      BY <1>2, <3>1, <3>3
    <3>5. L \subseteq EntrySet /\ \A x \in L : x.capturedAt < e.capturedAt
      BY <1>3, <3>2
    <3>6. Top({x \in Top(L) : x.commit # e.commit} \cup {e}) = Top({x \in L : x.commit # e.commit} \cup {e})
      BY <1>2, <3>2, <3>5, TopAfter
    <3>7. LatestOf(call', AskedBy(call')) = {x \in L : x.commit # e.commit} \cup {e}
      BY <1>1, <1>2 DEF L
    <3> QED BY <2>7, <3>4, <3>6, <3>7
  <2> QED BY <2>8, <2>9
<1> QED BY <1>6, <1>7

LEMMA BeginKept ==
  ASSUME SnapshotsInv, NEW c \in M!Call, M!Begin(c)
  PROVE  SnapshotsInv'
<1>1. CallsInv /\ UNCHANGED <<backend, hash>> /\ calm' = (calm /\ M!Busy = {})
  BY DEF SnapshotsInv, M!Begin
<1> DEFINE pc0 == IF backend = "redis" THEN "put" ELSE "list"
<1>2. /\ clock' = clock + 1 /\ call' \in [M!Call -> CallState]
      /\ \A d \in M!Call \ {c} : call'[d] = call[d]
      /\ call'[c].at = pc0
      /\ call'[c].capturedAt = clock + 1 /\ call'[c].known = call[c].known /\ call'[c].answer = call[c].answer
      /\ call[c].at = "idle" /\ Stamped(call')
      /\ AskedBy(call') = AskedBy(call) \cup {c} /\ c \notin AskedBy(call)
      /\ \A d \in AskedBy(call) : call'[d].capturedAt = call[d].capturedAt /\ call[d].capturedAt \in 0..clock
      /\ AskedOf(call) \subseteq AskedOf(call')
      /\ LatestOf(call', AskedBy(call') \ {c}) = LatestOf(call, AskedBy(call))
  BY BeginFacts
<1>3. call[c].answer = "none" /\ clock \in Nat
  BY <1>1, <1>2 DEF CallsInv
<1>4. CallsInv'
  <2>1. Stamped(call)'
    BY <1>2 DEF Stamped, AskedBy
  <2>2. pc0 \in {"put", "list"} /\ (pc0 = "put" => backend = "redis")
    OBVIOUS
  <2>3. clock' \in Nat /\ backend' \in {"redis", "memory"} /\ calm' \in BOOLEAN
    BY <1>1, <1>2, <1>3 DEF CallsInv
  <2> HIDE DEF pc0
  <2>4. ASSUME NEW d \in M!Call
        PROVE  /\ call'[d].at = "idle" <=> call'[d].capturedAt = 0
               /\ call'[d].capturedAt <= clock'
               /\ call'[d].at \in {"put", "trim", "delete"} => backend' = "redis"
               /\ call'[d].at # "done" => call'[d].answer = "none"
    <3>1. CASE d = c
      BY <1>1, <1>2, <1>3, <2>2, <3>1
    <3>2. CASE d # c
      <4>1. call[d].capturedAt \in Nat /\ call[d].capturedAt <= clock
        BY <1>1 DEF CallsInv, Stamped
      <4>2. call[d].capturedAt <= clock + 1
        BY <1>3, <4>1
      <4> QED BY <1>1, <1>2, <3>2, <4>2 DEF CallsInv
    <3> QED BY <3>1, <3>2
  <2> QED BY <1>2, <2>1, <2>3, <2>4 DEF CallsInv
<1>5. AskedOf(call)' = AskedOf(call') /\ AskedBy(call)' = AskedBy(call')
  BY DEF AskedOf, AskedBy, EntryOf
<1>6. HashInv'
  BY <1>1, <1>2, <1>5 DEF SnapshotsInv, HashInv
<1>7. HistoryInv'
  BY BeginHistory
<1>8. KnownInv'
  <2>1. \A d \in M!Call : call'[d].known = call[d].known
    BY <1>2
  <2>2. \A d \in M!Call : call[d].known \in Seq(AskedOf(call')) /\ GoodList(call[d].known)
    BY <1>2 DEF SnapshotsInv, KnownInv
  <2>3. \A d \in M!Call : call'[d].known \in Seq(AskedOf(call')) /\ GoodList(call'[d].known)
    BY <2>1, <2>2
  <2> QED BY <1>5, <2>3 DEF KnownInv, GoodList
<1>9. AnswersInv'
  <2>1. ASSUME NEW d \in M!Call
        PROVE  /\ call'[d].answer = "diff" =>
                    /\ call'[d].baseline # Commits[d]
                    /\ \E e \in M!Call : Commits[e] = call'[d].baseline /\ call'[e].capturedAt > 0
                    /\ call'[d].since # {} => call'[d].baseline \in call'[d].since
               /\ call'[d].answer = "only one" /\ calm' /\ MaxSnapshots > 1 =>
                    \A e \in AskedBy(call') : call'[e].capturedAt < call'[d].capturedAt => Commits[e] = Commits[d]
    <3>1. CASE d = c
      BY <1>2, <1>3, <3>1
    <3>2. CASE d # c
      <4>1. call'[d] = call[d]
        BY <1>2, <3>2
      <4>2. /\ call[d].answer = "diff" =>
                 /\ call[d].baseline # Commits[d]
                 /\ \E e \in M!Call : Commits[e] = call[d].baseline /\ call[e].capturedAt > 0
                 /\ call[d].since # {} => call[d].baseline \in call[d].since
            /\ call[d].answer = "only one" /\ calm /\ MaxSnapshots > 1 =>
                 \A e \in AskedBy(call) : call[e].capturedAt < call[d].capturedAt => Commits[e] = Commits[d]
        BY DEF SnapshotsInv, AnswersInv
      <4>3. \A e \in M!Call : call[e].capturedAt > 0 => call'[e].capturedAt > 0
        <5>1. \A e \in M!Call : call[e].capturedAt > 0 => e \in AskedBy(call)
          BY DEF AskedBy
        <5> QED BY <1>2, <5>1
      <4>4. ~(call'[c].capturedAt < call[d].capturedAt)
        <5>1. call[d].capturedAt \in Nat /\ call[d].capturedAt <= clock
          BY <1>1 DEF CallsInv, Stamped
        <5> QED BY <1>2, <1>3, <5>1
      <4> QED BY <1>1, <1>2, <4>1, <4>2, <4>3, <4>4
    <3> QED BY <3>1, <3>2
  <2> QED BY <1>5, <2>1 DEF AnswersInv
<1>10. CalmStores'
  <2> SUFFICES ASSUME calm' PROVE CalmStores'
    BY DEF CalmStores
  <2>1. calm /\ M!Busy = {} /\ CalmStores
    BY <1>1 DEF SnapshotsInv
  <2>2. \A d \in M!Call \ {c} : call'[d].at \in {"idle", "done"}
    BY <1>2, <2>1 DEF M!Busy
  <2>3. M!Busy' = {c}
    <3>1. call'[c].at \notin {"idle", "done"}
      BY <1>2
    <3> QED BY <2>2, <3>1 DEF M!Busy
  <2>4. backend' = "memory" => AllOf(history)' = Newest'
    BY <1>1, <2>1, BeginHistory
  <2>5. backend' = "redis" => call'[c].at = "put"
    BY <1>1, <1>2
  <2>6. call'[c].at = "put" => AtPut(c)'
    <3> SUFFICES ASSUME call'[c].at = "put" PROVE AtPut(c)'
      OBVIOUS
    <3>1. backend = "redis"
      BY <1>2
    <3>2. hash = Newest
      BY <2>1, <3>1 DEF CalmStores
    <3>3. hash' = Top(LatestOf(call', AskedBy(call') \ {c}))
      BY <1>1, <1>2, <3>2 DEF Newest
    <3>4. \A d \in AskedBy(call') \ {c} : call'[d].capturedAt < call'[c].capturedAt
      BY <1>2, <1>3
    <3>5. Top(LatestOf(call, AskedBy(call) \ {c}))' = Top(LatestOf(call', AskedBy(call') \ {c}))
      BY DEF Top, NewerIn, LatestOf, LastOf, EntryOf, AskedBy
    <3> QED BY <1>5, <3>3, <3>4, <3>5 DEF AtPut
  <2>7. call'[c].at \notin {"trim", "delete", "answer"}
    BY <1>2
  <2> QED BY <1>1, <2>2, <2>3, <2>4, <2>5, <2>6, <2>7 DEF CalmStores
<1> QED BY <1>4, <1>6, <1>7, <1>8, <1>9, <1>10 DEF SnapshotsInv

LEMMA SnapshotsStep == SnapshotsInv /\ [M!Next]_(M!memoryVars) => SnapshotsInv'
<1> SUFFICES ASSUME SnapshotsInv, [M!Next]_(M!memoryVars) PROVE SnapshotsInv'
  OBVIOUS
<1>1. ASSUME NEW c \in M!Call,
             \/ M!Begin(c) \/ M!HSet(c) \/ M!ReadToTrim(c) \/ M!HDel(c) \/ M!PutFails(c)
             \/ M!List(c) \/ \E since \in Sinces : M!Answer(c, since)
      PROVE  SnapshotsInv'
  BY <1>1, BeginKept, HSetKept, TrimKept, HDelKept, FailKept, ListKept, AnswerKept
<1>2. CASE UNCHANGED M!memoryVars
  <2>1. UNCHANGED <<backend, hash, history, clock, call, calm>>
    BY <1>2 DEF M!memoryVars
  <2>2. AskedOf(call)' = AskedOf(call) /\ AskedBy(call)' = AskedBy(call) /\ Newest' = Newest /\ M!Busy' = M!Busy
    BY <2>1 DEF AskedOf, AskedBy, EntryOf, Newest, LatestOf, LastOf, Top, NewerIn, M!Busy
  <2>3. CallsInv' /\ HashInv' /\ HistoryInv'
    BY <2>1, <2>2 DEF SnapshotsInv, CallsInv, HashInv, HistoryInv, Stamped
  <2>4. KnownInv' /\ AnswersInv'
    <3>1. AnswersInv'
      BY <2>1, <2>2 DEF SnapshotsInv, AnswersInv
    <3>2. \A c \in M!Call : call[c].known \in Seq(AskedOf(call)) /\ GoodList(call[c].known)
      BY DEF SnapshotsInv, KnownInv
    <3>3. \A c \in M!Call : call'[c].known \in Seq(AskedOf(call)') /\ GoodList(call'[c].known)
      BY <2>1, <2>2, <3>2
    <3>4. KnownInv'
      BY <3>3 DEF KnownInv, GoodList
    <3> QED BY <3>1, <3>4
  <2>5. CalmStores'
    <3>1. \A c \in M!Call : AtPut(c)' <=> AtPut(c)
      BY <2>1 DEF AtPut, LatestOf, LastOf, Top, NewerIn, EntryOf, AskedBy
    <3>2. AllOf(history)' = AllOf(history) /\ Top(hash)' = Top(hash) /\ \A c \in M!Call : AllOf(call[c].known)' = AllOf(call[c].known)
      BY <2>1 DEF AllOf, Top, NewerIn
    <3> QED BY <2>1, <2>2, <3>1, <3>2 DEF SnapshotsInv, CalmStores
  <2> QED BY <2>3, <2>4, <2>5 DEF SnapshotsInv
<1> QED BY <1>1, <1>2, ExpireKept DEF M!Next

\* The last time a commit was asked about is that of its latest call.
LEMMA LastAskedIs ==
  ASSUME SnapshotsInv, NEW d \in LastOf(call, AskedBy(call))
  PROVE  LET times == {call[c].capturedAt : c \in {e \in AskedBy(call) : Commits[e] = Commits[d]}}
         IN (CHOOSE x \in times : \A y \in times : y <= x) = call[d].capturedAt
<1> DEFINE times == {call[c].capturedAt : c \in {e \in AskedBy(call) : Commits[e] = Commits[d]}}
           x == call[d].capturedAt
<1>1. d \in AskedBy(call) /\ \A e \in AskedBy(call) : Commits[e] = Commits[d] => call[e].capturedAt <= x
  BY DEF LastOf
<1>2. \A e \in AskedBy(call) : call[e].capturedAt \in Nat
  BY DEF AskedBy, SnapshotsInv, CallsInv, Stamped
<1>3. x \in times /\ \A y \in times : y <= x
  BY <1>1
<1>4. times \subseteq Nat
  BY <1>2
<1> HIDE DEF times, x
<1>5. ASSUME NEW z \in times, \A y \in times : y <= z PROVE z = x
  <2>1. x <= z /\ z <= x /\ x \in Nat /\ z \in Nat
    BY <1>3, <1>4, <1>5
  <2> QED BY <2>1
<1>6. (CHOOSE z \in times : \A y \in times : y <= z) = x
  BY <1>3, <1>5
<1> QED BY <1>6 DEF times, x

\* The memory is honest: what is shown, what is kept, and what is answered.
LEMMA ShownIsBounded == SnapshotsInv => M!HistoryIsBounded
<1> SUFFICES ASSUME SnapshotsInv PROVE M!HistoryIsBounded
  OBVIOUS
<1>1. ASSUME NEW c \in M!Call
      PROVE  /\ Len(call[c].known) <= MaxSnapshots
             /\ \A i, k \in DOMAIN call[c].known :
                  i < k => M!Newer(call[c].known[i], call[c].known[k]) /\ call[c].known[i].commit # call[c].known[k].commit
  <2>1. call[c].known \in Seq(AskedOf(call)) /\ GoodList(call[c].known)
    BY DEF SnapshotsInv, KnownInv
  <2>2. DOMAIN call[c].known = 1..Len(call[c].known)
    BY <2>1
  <2> QED BY <2>1, <2>2 DEF GoodList
<1> QED BY <1>1 DEF M!HistoryIsBounded

LEMMA KeptIsNewest == SnapshotsInv => M!NewestAreKept
<1> SUFFICES ASSUME SnapshotsInv, calm, M!Busy = {} PROVE M!NewestAreKept
  BY DEF M!NewestAreKept
<1> DEFINE done == {c \in M!Call : M!At(c, "done")}
           Last(commit) == LET times == {call[c].capturedAt : c \in {d \in done : Commits[d] = commit}}
                           IN CHOOSE x \in times : \A y \in times : y <= x
           S == {[commit |-> k, capturedAt |-> Last(k)] : k \in {Commits[c] : c \in done}}
           L == LatestOf(call, AskedBy(call))
           newest == M!Shown(M!NewestFirst(S))
<1>1. done = AskedBy(call)
  <2>1. \A c \in M!Call : call[c].at = "idle" <=> call[c].capturedAt = 0
    BY DEF SnapshotsInv, CallsInv
  <2>2. \A c \in M!Call : call[c].capturedAt \in Nat
    BY DEF SnapshotsInv, CallsInv, Stamped
  <2>3. \A c \in M!Call : call[c].at \in {"idle", "done"}
    BY DEF M!Busy
  <2>4. \A c \in M!Call : call[c].at = "done" <=> call[c].capturedAt > 0
    BY <2>1, <2>2, <2>3
  <2> QED BY <2>4 DEF M!At, AskedBy
<1> HIDE DEF done
<1>2. \A d \in LastOf(call, AskedBy(call)) : Last(Commits[d]) = call[d].capturedAt
  BY <1>1, LastAskedIs
<1> HIDE DEF Last
<1>3. S = L
  <2>1. ASSUME NEW d \in AskedBy(call) PROVE [commit |-> Commits[d], capturedAt |-> Last(Commits[d])] \in L
    <3>1. PICK e \in LastOf(call, AskedBy(call)) : Commits[e] = Commits[d]
      BY HasLatest
    <3>2. [commit |-> Commits[d], capturedAt |-> Last(Commits[d])] = EntryOf(call, e)
      BY <1>2, <3>1 DEF EntryOf
    <3> QED BY <3>2 DEF LatestOf
  <2>2. ASSUME NEW d \in LastOf(call, AskedBy(call)) PROVE EntryOf(call, d) \in S
    <3>1. EntryOf(call, d) = [commit |-> Commits[d], capturedAt |-> Last(Commits[d])]
      BY <1>2 DEF EntryOf
    <3>2. d \in done
      BY <1>1 DEF LastOf
    <3> QED BY <3>1, <3>2
  <2>3. L \subseteq S
    BY <2>2 DEF LatestOf
  <2>4. S \subseteq L
    BY <1>1, <2>1
  <2> QED BY <2>3, <2>4
<1>4. L \subseteq EntrySet /\ IsFiniteSet(L)
  <2>1. Stamped(call) /\ AskedBy(call) \in SUBSET AskedBy(call)
    BY DEF SnapshotsInv, CallsInv
  <2> QED BY <2>1, LatestFacts
<1>5. {newest[i] : i \in DOMAIN newest} = Newest
  <2> DEFINE shown == M!Shown(M!NewestFirst(L))
  <2>1. shown \in Seq(L) /\ {shown[i] : i \in 1..Len(shown)} = Top(L)
    BY <1>4, ShownIs
  <2>2. newest = shown
    BY <1>3
  <2> HIDE DEF shown, L
  <2>3. DOMAIN shown = 1..Len(shown)
    BY <2>1
  <2> HIDE DEF newest
  <2> QED BY <2>1, <2>2, <2>3 DEF Newest, L
<1>6. (IF backend = "memory" THEN {history[i] : i \in DOMAIN history} ELSE hash) = Newest
  <2>1. DOMAIN history = 1..Len(history)
    BY DEF SnapshotsInv, HistoryInv
  <2>2. backend = "memory" => AllOf(history) = Newest
    BY DEF SnapshotsInv, CalmStores
  <2>3. backend = "redis" => hash = Newest
    BY DEF SnapshotsInv, CalmStores
  <2>4. backend \in {"redis", "memory"}
    BY DEF SnapshotsInv, CallsInv
  <2> QED BY <2>1, <2>2, <2>3, <2>4 DEF AllOf
<1>7. {newest[i] : i \in DOMAIN newest} = IF backend = "memory" THEN {history[i] : i \in DOMAIN history} ELSE hash
  BY <1>5, <1>6
<1> QED BY <1>7 DEF M!NewestAreKept, done, Last

LEMMA AnsweredIsMeant == SnapshotsInv => M!BaselineIsMeant
<1> SUFFICES ASSUME SnapshotsInv PROVE M!BaselineIsMeant
  OBVIOUS
<1>1. \A d \in M!Call : call[d].at = "done" => d \in AskedBy(call)
  <2>1. \A c \in M!Call : (call[c].at = "idle" <=> call[c].capturedAt = 0) /\ call[c].capturedAt \in Nat
    BY DEF SnapshotsInv, CallsInv, Stamped
  <2>2. \A c \in M!Call : call[c].at = "done" => call[c].capturedAt > 0
    BY <2>1
  <2> QED BY <2>2 DEF AskedBy
<1> QED BY <1>1 DEF SnapshotsInv, AnswersInv, M!BaselineIsMeant

\* That the comparison of two snapshots is exact is a fact about sets.
LEMMA ComparedExactly == M!DiffIsExact
<1> SUFFICES ASSUME NEW b \in M!Commit, NEW a \in M!Commit
             PROVE  LET before == Snapshots[b]
                        after == Snapshots[a]
                        diff == M!diffSnapshots(before, after)
                        back == M!diffSnapshots(after, before)
                    IN /\ (before.files \ diff.removedFiles) \cup diff.addedFiles = after.files
                       /\ (before.edges \ diff.removedEdges) \cup diff.addedEdges = after.edges
                       /\ (before.cycles \ diff.resolvedCycles) \cup diff.newCycles = after.cycles
                       /\ \A f \in after.files \cap before.files :
                            LET entries == {e \in diff.changedFiles : e.file = f}
                            IN IF entries = {} THEN M!Symbols(before, f) = M!Symbols(after, f)
                               ELSE \A e \in entries : (M!Symbols(before, f) \ e.removed) \cup e.added = M!Symbols(after, f)
                       /\ M!identical(diff) <=> M!identical(back)
                       /\ M!Citable(diff) \subseteq after.files
  BY DEF M!DiffIsExact
<1> DEFINE before == Snapshots[b]
           after == Snapshots[a]
           diff == M!diffSnapshots(before, after)
           back == M!diffSnapshots(after, before)
           Entry(x, y, f) == [file |-> f, added |-> M!Symbols(y, f) \ M!Symbols(x, f),
                              removed |-> M!Symbols(x, f) \ M!Symbols(y, f)]
           Changed(x, y) == {g \in y.files \cap x.files : M!Symbols(x, g) # M!Symbols(y, g)}
<1>1. /\ diff = [addedFiles |-> after.files \ before.files, removedFiles |-> before.files \ after.files,
                 changedFiles |-> {Entry(before, after, f) : f \in Changed(before, after)},
                 addedEdges |-> after.edges \ before.edges, removedEdges |-> before.edges \ after.edges,
                 newCycles |-> after.cycles \ before.cycles, resolvedCycles |-> before.cycles \ after.cycles]
      /\ back = [addedFiles |-> before.files \ after.files, removedFiles |-> after.files \ before.files,
                 changedFiles |-> {Entry(after, before, f) : f \in Changed(after, before)},
                 addedEdges |-> before.edges \ after.edges, removedEdges |-> after.edges \ before.edges,
                 newCycles |-> before.cycles \ after.cycles, resolvedCycles |-> after.cycles \ before.cycles]
  BY DEF M!diffSnapshots
<1> HIDE DEF diff, back, before, after
<1>2. (before.files \ diff.removedFiles) \cup diff.addedFiles = after.files
  BY <1>1
<1>3. (before.edges \ diff.removedEdges) \cup diff.addedEdges = after.edges
  BY <1>1
<1>4. (before.cycles \ diff.resolvedCycles) \cup diff.newCycles = after.cycles
  BY <1>1
<1>5. diff.changedFiles = {Entry(before, after, f) : f \in Changed(before, after)} /\ diff.addedFiles = after.files \ before.files
  BY <1>1
<1>6. \A f : /\ Entry(before, after, f).file = f
             /\ Entry(before, after, f).added = M!Symbols(after, f) \ M!Symbols(before, f)
             /\ Entry(before, after, f).removed = M!Symbols(before, f) \ M!Symbols(after, f)
  OBVIOUS
<1> HIDE DEF Entry
<1>7. ASSUME NEW f \in after.files \cap before.files
      PROVE  LET entries == {e \in diff.changedFiles : e.file = f}
             IN IF entries = {} THEN M!Symbols(before, f) = M!Symbols(after, f)
                ELSE \A e \in entries : (M!Symbols(before, f) \ e.removed) \cup e.added = M!Symbols(after, f)
  <2>1. CASE f \in Changed(before, after)
    <3>1. {e \in diff.changedFiles : e.file = f} = {Entry(before, after, f)}
      BY <1>5, <1>6, <2>1
    <3> QED BY <1>6, <3>1
  <2>2. CASE f \notin Changed(before, after)
    <3>1. {e \in diff.changedFiles : e.file = f} = {}
      BY <1>5, <1>6, <2>2
    <3> QED BY <2>2, <3>1
  <2> QED BY <2>1, <2>2
<1>8. M!identical(diff) <=> M!identical(back)
  <2>1. /\ diff.changedFiles = {} <=> Changed(before, after) = {}
        /\ back.changedFiles = {} <=> Changed(after, before) = {}
        /\ Changed(before, after) = Changed(after, before)
    BY <1>1
  <2> DEFINE parts == {"addedFiles", "removedFiles", "changedFiles", "addedEdges", "removedEdges",
                       "newCycles", "resolvedCycles"}
  <2>2. DOMAIN diff = parts /\ DOMAIN back = parts
    BY <1>1
  <2>3. M!identical(diff) <=> \A x \in parts : diff[x] = {}
    BY <2>2 DEF M!identical
  <2>4. M!identical(back) <=> \A x \in parts : back[x] = {}
    BY <2>2 DEF M!identical
  <2>5. /\ diff.addedFiles = back.removedFiles /\ diff.removedFiles = back.addedFiles
        /\ diff.addedEdges = back.removedEdges /\ diff.removedEdges = back.addedEdges
        /\ diff.newCycles = back.resolvedCycles /\ diff.resolvedCycles = back.newCycles
    BY <1>1
  <2> HIDE DEF Changed
  <2> QED BY <2>1, <2>3, <2>4, <2>5
<1>9. M!Citable(diff) \subseteq after.files
  BY <1>5, <1>6 DEF M!Citable
<1> QED BY <1>2, <1>3, <1>4, <1>7, <1>8, <1>9 DEF diff, back, before, after

LEMMA SnapshotsEnough == SnapshotsInv => M!RepoMemoryIsHonest
  BY ShownIsBounded, KeptIsNewest, AnsweredIsMeant, ComparedExactly DEF M!RepoMemoryIsHonest

(***************************************************************************)
(* Traces: the spans of a run say what its events said, one span to a      *)
(* stage, and are as long as the run.                                      *)
(***************************************************************************)

LEMMA TotalSame == \A f : T!TotalOf(f) = TotalOf(f) /\ \A S : T!Cardinality(S) = Cardinality(S)
<1>1. \A f : T!Units(f) = Units(f)
  BY DEF T!Units, Units
<1>2. \A S : T!Cardinality(S) = Cardinality(S)
  BY DEF T!Cardinality, Cardinality
<1> QED BY <1>1, <1>2 DEF T!TotalOf, TotalOf

\* A sum does not depend on what its elements are called.
LEMMA TotalRenamed ==
  ASSUME NEW S, NEW U, IsFiniteSet(S), NEW f \in [S -> U], NEW g \in [U -> Nat], NEW h \in [S -> Nat],
         \A x, y \in S : f[x] = f[y] => x = y, \A y \in U : \E x \in S : f[x] = y,
         \A x \in S : h[x] = g[f[x]]
  PROVE  TotalOf(h) = TotalOf(g)
<1> DEFINE A == Units(h)
           B == Units(g)
           move == [p \in A |-> <<f[p[1]], p[2]>>]
<1>1. IsFiniteSet(A)
  BY UnitsFinite
<1>2. \A p : p \in A <=> \E x \in S : \E k \in 1..h[x] : p = <<x, k>>
  BY DEF Units
<1>3. \A p : p \in B <=> \E x \in U : \E k \in 1..g[x] : p = <<x, k>>
  BY DEF Units
<1> HIDE DEF A, B
<1>4. move \in [A -> B]
  <2> SUFFICES ASSUME NEW p \in A PROVE <<f[p[1]], p[2]>> \in B
    OBVIOUS
  <2>1. PICK x \in S : \E k \in 1..h[x] : p = <<x, k>>
    BY <1>2
  <2> QED BY <1>3, <2>1
<1>5. \A p, q \in A : move[p] = move[q] => p = q
  <2> SUFFICES ASSUME NEW p \in A, NEW q \in A, move[p] = move[q] PROVE p = q
    OBVIOUS
  <2>1. PICK x \in S : \E k \in 1..h[x] : p = <<x, k>>
    BY <1>2
  <2>2. PICK y \in S : \E l \in 1..h[y] : q = <<y, l>>
    BY <1>2
  <2>3. PICK k \in 1..h[x] : p = <<x, k>>
    BY <2>1
  <2>4. PICK l \in 1..h[y] : q = <<y, l>>
    BY <2>2
  <2>5. f[x] = f[y] /\ k = l
    BY <2>3, <2>4
  <2> QED BY <2>3, <2>4, <2>5
<1>6. \A q \in B : \E p \in A : move[p] = q
  <2> SUFFICES ASSUME NEW q \in B PROVE \E p \in A : move[p] = q
    OBVIOUS
  <2>1. PICK y \in U : \E k \in 1..g[y] : q = <<y, k>>
    BY <1>3
  <2>2. PICK x \in S : f[x] = y
    BY <2>1
  <2>3. PICK k \in 1..g[y] : q = <<y, k>>
    BY <2>1
  <2>4. <<x, k>> \in A
    BY <1>2, <2>2, <2>3
  <2> QED BY <2>2, <2>3, <2>4
<1> HIDE DEF move
<1>7. Cardinality(B) = Cardinality(A)
  BY <1>1, <1>4, <1>5, <1>6, SameCount
<1> QED BY <1>7 DEF TotalOf, A, B

\* A sum of less is less.
LEMMA TotalLess ==
  ASSUME NEW D, IsFiniteSet(D), NEW f \in [D -> Nat], NEW g \in [D -> Nat], \A x \in D : f[x] <= g[x]
  PROVE  TotalOf(f) <= TotalOf(g)
<1>1. Units(f) \subseteq Units(g)
  BY DEF Units
<1>2. IsFiniteSet(Units(g))
  BY UnitsFinite
<1> QED BY <1>1, <1>2, FS_Subset DEF TotalOf

\* What is nothing may be left out of a sum.
LEMMA TotalPart ==
  ASSUME NEW D, NEW S \in SUBSET D, NEW f \in [D -> Nat], NEW g \in [S -> Nat],
         \A x \in S : g[x] = f[x], \A x \in D \ S : f[x] = 0
  PROVE  TotalOf(f) = TotalOf(g)
<1>1. Units(f) = Units(g)
  BY DEF Units
<1> QED BY <1>1 DEF TotalOf

LEMMA OneTotal ==
  ASSUME NEW x, NEW n \in Nat
  PROVE  TotalOf([y \in {x} |-> n]) = n
<1>1. Units([y \in {x} |-> n]) = {x} \X (1..n)
  BY DEF Units
<1> QED BY <1>1, OneUnits DEF TotalOf

\* Counting what is in a set.
LEMMA OnesTotal ==
  ASSUME NEW D, NEW P \in SUBSET D, IsFiniteSet(P), NEW f \in [D -> Nat], \A x \in D : f[x] = IF x \in P THEN 1 ELSE 0
  PROVE  TotalOf(f) = Cardinality(P)
<1> DEFINE B == Units(f)
           one == [x \in P |-> <<x, 1>>]
<1>1. \A p : p \in B <=> \E x \in P : p = <<x, 1>>
  BY DEF Units
<1> HIDE DEF B
<1>2. one \in [P -> B] /\ \A x, y \in P : one[x] = one[y] => x = y
  BY <1>1
<1>3. \A p \in B : \E x \in P : one[x] = p
  BY <1>1
<1> HIDE DEF one
<1>4. Cardinality(B) = Cardinality(P)
  BY <1>2, <1>3, SameCount
<1> QED BY <1>4 DEF TotalOf, B

UsageSet == [input : Nat, output : Nat, cacheRead : Nat \cup {-1}, measured : BOOLEAN]

LEMMA SumType ==
  ASSUME NEW D, IsFiniteSet(D), NEW u \in [D -> UsageSet]
  PROVE  /\ T!SumOfUsages(u) \in UsageSet
         /\ T!SumOfUsages(u).input = TotalOf([x \in D |-> u[x].input])
         /\ T!SumOfUsages(u).output = TotalOf([x \in D |-> u[x].output])
         /\ T!Read(T!SumOfUsages(u).cacheRead) = TotalOf([x \in D |-> T!Read(u[x].cacheRead)])
         /\ T!SumOfUsages(u).measured = \A x \in D : u[x].measured
<1> DEFINE in == [x \in D |-> u[x].input]
           out == [x \in D |-> u[x].output]
           cached == [x \in D |-> T!Read(u[x].cacheRead)]
           none == \A x \in D : u[x].cacheRead = -1
           sum == T!SumOfUsages(u)
<1>1. DOMAIN u = D /\ \A x \in D : u[x] \in UsageSet
  OBVIOUS
<1>2. in \in [D -> Nat] /\ out \in [D -> Nat]
  BY <1>1 DEF UsageSet
<1>3. \A x \in D : u[x].cacheRead \in Nat \cup {-1}
  BY <1>1 DEF UsageSet
<1>4. \A x \in D : T!Read(u[x].cacheRead) \in Nat
  BY <1>3 DEF T!Read, T!Absent
<1>5. cached \in [D -> Nat]
  BY <1>4
<1>6. none => \A x \in D : cached[x] = 0
  BY DEF T!Read, T!Absent
<1>7. sum = [input |-> TotalOf(in), output |-> TotalOf(out),
             cacheRead |-> IF none THEN -1 ELSE TotalOf(cached), measured |-> \A x \in D : u[x].measured]
  BY <1>1, TotalSame DEF T!SumOfUsages, T!Absent
<1> HIDE DEF in, out, cached, none, sum
<1>8. TotalOf(in) \in Nat /\ TotalOf(out) \in Nat /\ TotalOf(cached) \in Nat
  BY <1>2, <1>5, UnitsFinite
<1>9. none => TotalOf(cached) = 0
  BY <1>5, <1>6, NothingTotals
<1>10. T!Read(-1) = 0 /\ \A k \in Nat : T!Read(k) = k
  BY DEF T!Read, T!Absent
<1>11. (\A x \in D : u[x].measured) \in BOOLEAN
  OBVIOUS
<1>12. sum \in UsageSet
  BY <1>7, <1>8, <1>11 DEF UsageSet
<1>13. T!Read(sum.cacheRead) = TotalOf(cached)
  BY <1>7, <1>8, <1>9, <1>10
<1> QED BY <1>7, <1>12, <1>13 DEF in, out, cached, sum

Usage == Seq(UsageSet)
ModelSet(r) == {Stages[r][x] : x \in T!Stage(r)} \cup {"none"}
SpanSet(r) ==
  [name : T!Stage(r) \cup {"run"}, parent : {0, 1}, start : Nat, end : Nat \cup {-1},
   status : {"unset", "ok", "error"}, usage : Usage, model : ModelSet(r)]

\* The spans of a run whose stages reported `rep`, at a time, in a phase.
SpansInv(r, tr, rep, now, ph) ==
  /\ tr \in Seq(SpanSet(r)) /\ Len(tr) >= 1
  /\ rep \in [T!Stage(r) -> Usage] /\ now \in Nat /\ ph \in {"running", "exporting", "ended"}
  /\ tr[1].name = "run" /\ tr[1].parent = 0 /\ tr[1].start = 0 /\ tr[1].usage = <<>>
  /\ \A i \in 2..Len(tr) :
       /\ tr[i].name \in T!Stage(r) /\ tr[i].parent = 1 /\ tr[i].usage = rep[tr[i].name]
       /\ tr[i].usage # <<>> => tr[i].model = Stages[r][tr[i].name]
  /\ \A i, k \in 1..Len(tr) : tr[i].name = tr[k].name => i = k
  /\ \A x \in T!Stage(r) : rep[x] # <<>> => \E i \in 2..Len(tr) : tr[i].name = x
  /\ \A i \in 1..Len(tr) : tr[i].start <= now /\ (tr[i].end # -1 => tr[i].start <= tr[i].end /\ tr[i].end <= now)
  /\ ph = "running" => tr[1].end = -1
  /\ ph # "running" => tr[1].end = now /\ \A i \in 1..Len(tr) : tr[i].end # -1

LEMMA StageNames == \A r \in Traced : \A x \in T!Stage(r) : x # "run"
  BY StoresAssumption DEF T!Stage

\* What the spans of a run are at a time when a stage's is open.
OpenAt(r, tr, rep, now, i, x) ==
  /\ tr \in Seq(SpanSet(r)) /\ Len(tr) >= 1
  /\ rep \in [T!Stage(r) -> Usage] /\ now \in Nat
  /\ tr[1].name = "run" /\ tr[1].parent = 0 /\ tr[1].start = 0 /\ tr[1].usage = <<>> /\ tr[1].end = -1
  /\ \A k \in 2..Len(tr) :
       /\ tr[k].name \in T!Stage(r) /\ tr[k].parent = 1 /\ tr[k].usage = rep[tr[k].name]
       /\ tr[k].usage # <<>> => tr[k].model = Stages[r][tr[k].name]
  /\ \A h, k \in 1..Len(tr) : tr[h].name = tr[k].name => h = k
  /\ \A y \in T!Stage(r) : rep[y] # <<>> => \E k \in 2..Len(tr) : tr[k].name = y
  /\ \A k \in 1..Len(tr) : tr[k].start <= now /\ (tr[k].end # -1 => tr[k].start <= tr[k].end /\ tr[k].end <= now)
  /\ i \in 2..Len(tr) /\ x \in T!Stage(r) /\ tr[i].name = x /\ tr[i].end = -1

LEMMA StageOpens ==
  ASSUME NEW r \in Traced, SpansInv(r, trace[r], reported[r], ticks[r], "running"),
         NEW x \in T!Stage(r), ~T!Done(r, x), NEW at \in {ticks[r], ticks[r] + 1}
  PROVE  OpenAt(r, T!Opened(r, x, at), reported[r], at, T!IndexOf(r, x), x)
<1> DEFINE tr == trace[r]
           rep == reported[r]
           now == ticks[r]
           n == Len(tr)
           open == T!OpenSpan(r, x)
           opened == T!Opened(r, x, at)
           i0 == T!IndexOf(r, x)
<1>1. /\ tr \in Seq(SpanSet(r)) /\ n >= 1 /\ n \in Nat
      /\ rep \in [T!Stage(r) -> Usage] /\ now \in Nat
      /\ tr[1].name = "run" /\ tr[1].parent = 0 /\ tr[1].start = 0 /\ tr[1].usage = <<>> /\ tr[1].end = -1
  BY DEF SpansInv
<1>2. \A i \in 2..n : /\ tr[i].name \in T!Stage(r) /\ tr[i].parent = 1 /\ tr[i].usage = rep[tr[i].name]
                      /\ tr[i].usage # <<>> => tr[i].model = Stages[r][tr[i].name]
  BY DEF SpansInv
<1>3. \A i, k \in 1..n : tr[i].name = tr[k].name => i = k
  BY DEF SpansInv
<1>4. \A y \in T!Stage(r) : rep[y] # <<>> => \E i \in 2..n : tr[i].name = y
  BY DEF SpansInv
<1>5. \A i \in 1..n : tr[i].start <= now /\ (tr[i].end # -1 => tr[i].start <= tr[i].end /\ tr[i].end <= now)
  BY DEF SpansInv
<1>6. \A i \in 1..n : tr[i].start \in Nat /\ tr[i].end \in Nat \cup {-1}
  <2>1. \A i \in 1..n : tr[i] \in SpanSet(r)
    BY <1>1
  <2> QED BY <2>1 DEF SpanSet
<1>7. at \in Nat /\ now <= at
  BY <1>1
<1>8. \A i \in 1..n : tr[i].start <= at /\ (tr[i].end # -1 => tr[i].start <= tr[i].end /\ tr[i].end <= at)
  BY <1>1, <1>5, <1>6, <1>7
<1>9. DOMAIN tr = 1..n
  BY <1>1
<1>10. open = {i \in 1..n : tr[i].name = x /\ tr[i].end = -1}
  BY <1>9 DEF T!OpenSpan, T!Absent
<1>11. \A i \in 1..n : tr[i].name = x => tr[i].end = -1
  BY <1>9 DEF T!Done, T!Absent
<1>12. x # "run"
  BY StageNames
<1>13. opened = (IF open = {} THEN Append(tr, T!Span(x, 1, at)) ELSE tr) /\ i0 = (IF open = {} THEN n + 1 ELSE CHOOSE i \in open : TRUE)
  BY DEF T!Opened, T!IndexOf
<1> HIDE DEF open, opened, i0, tr, rep, now, n
<1>14. CASE open = {}
  <2> DEFINE span == T!Span(x, 1, at)
  <2>1. opened = Append(tr, span) /\ i0 = n + 1
    BY <1>13, <1>14
  <2>2. \A i \in 1..n : tr[i].name # x
    BY <1>10, <1>11, <1>14
  <2>3. rep[x] = <<>>
    <3>1. \A i \in 2..n : i \in 1..n
      BY <1>1
    <3> QED BY <1>4, <2>2, <3>1
  <2>4. /\ span.name = x /\ span.parent = 1 /\ span.start = at /\ span.end = -1 /\ span.usage = <<>>
        /\ span \in SpanSet(r)
    <3>1. <<>> \in Usage
      BY DEF Usage
    <3>2. span = [name |-> x, parent |-> 1, start |-> at, end |-> -1, status |-> "unset", usage |-> <<>>, model |-> "none"]
      BY DEF T!Span, T!Absent, T!None
    <3> QED BY <1>7, <3>1, <3>2 DEF SpanSet, ModelSet
  <2> HIDE DEF span
  <2>5. /\ opened \in Seq(SpanSet(r)) /\ Len(opened) = n + 1 /\ opened[n + 1] = span
        /\ \A i \in 1..n : opened[i] = tr[i]
    BY <1>1, <2>1, <2>4 DEF n
  <2>6. n \in Nat /\ n >= 1
    BY <1>1
  <2>7. \A i \in 1..(n + 1) : i \in 1..n \/ i = n + 1
    BY <2>6
  <2>8. \A i \in 2..(n + 1) : i \in 2..n \/ i = n + 1
    BY <2>6
  <2>9. \A h, k \in 1..(n + 1) : opened[h].name = opened[k].name => h = k
    BY <1>3, <2>2, <2>4, <2>5, <2>7
  <2>10. \A k \in 2..(n + 1) :
           /\ opened[k].name \in T!Stage(r) /\ opened[k].parent = 1 /\ opened[k].usage = rep[opened[k].name]
           /\ opened[k].usage # <<>> => opened[k].model = Stages[r][opened[k].name]
    <3> SUFFICES ASSUME NEW k \in 2..(n + 1)
                 PROVE  /\ opened[k].name \in T!Stage(r) /\ opened[k].parent = 1 /\ opened[k].usage = rep[opened[k].name]
                        /\ opened[k].usage # <<>> => opened[k].model = Stages[r][opened[k].name]
      OBVIOUS
    <3>1. CASE k = n + 1
      BY <2>3, <2>4, <2>5, <3>1
    <3>2. CASE k \in 2..n
      <4>1. k \in 1..n
        BY <2>6, <3>2
      <4> QED BY <1>2, <2>5, <3>2, <4>1
    <3> QED BY <2>8, <3>1, <3>2
  <2>11. \A y \in T!Stage(r) : rep[y] # <<>> => \E k \in 2..(n + 1) : opened[k].name = y
    <3>1. \A k \in 2..n : k \in 2..(n + 1) /\ k \in 1..n
      BY <2>6
    <3> QED BY <1>4, <2>5, <3>1
  <2>12. \A k \in 1..(n + 1) : opened[k].start <= at /\ (opened[k].end # -1 => opened[k].start <= opened[k].end /\ opened[k].end <= at)
    BY <1>7, <1>8, <2>4, <2>5, <2>7
  <2>13. 1 \in 1..n /\ n + 1 \in 2..(n + 1) /\ n + 1 >= 1
    BY <2>6
  <2>14. opened[1] = tr[1]
    BY <2>5, <2>13
  <2>15. OpenAt(r, opened, rep, at, i0, x)
    BY <1>1, <1>7, <2>1, <2>4, <2>5, <2>9, <2>10, <2>11, <2>12, <2>13, <2>14 DEF OpenAt
  <2> QED BY <2>15 DEF opened, rep, i0
<1>15. CASE open # {}
  <2>1. opened = tr /\ i0 \in open
    BY <1>13, <1>15
  <2>2. i0 \in 1..n /\ tr[i0].name = x /\ tr[i0].end = -1
    BY <1>10, <2>1
  <2>3. i0 # 1
    BY <1>1, <1>12, <2>2
  <2>4. i0 \in 2..n
    BY <1>1, <2>2, <2>3
  <2>5. OpenAt(r, opened, rep, at, i0, x)
    BY <1>1, <1>2, <1>3, <1>4, <1>7, <1>8, <2>1, <2>2, <2>4 DEF OpenAt, n
  <2> QED BY <2>5 DEF opened, rep, i0
<1> QED BY <1>14, <1>15

\* What a span that is told more becomes.
ToldMore(r, old, new, now) ==
  /\ new \in SpanSet(r) /\ new.name = old.name /\ new.parent = old.parent /\ new.start = old.start
  /\ new.usage # <<>> => new.model = Stages[r][old.name]
  /\ new.end \in {-1, now}

LEMMA SpanTold ==
  ASSUME NEW r \in Traced, NEW tr, NEW rep, NEW now, NEW i, NEW x, OpenAt(r, tr, rep, now, i, x),
         NEW new, ToldMore(r, tr[i], new, now)
  PROVE  SpansInv(r, [tr EXCEPT ![i] = new], [rep EXCEPT ![x] = new.usage], now, "running")
<1> DEFINE tr2 == [tr EXCEPT ![i] = new]
           rep2 == [rep EXCEPT ![x] = new.usage]
           n == Len(tr)
<1>1. /\ tr \in Seq(SpanSet(r)) /\ n \in Nat /\ n >= 1
      /\ rep \in [T!Stage(r) -> Usage] /\ now \in Nat
      /\ tr[1].name = "run" /\ tr[1].parent = 0 /\ tr[1].start = 0 /\ tr[1].usage = <<>> /\ tr[1].end = -1
      /\ i \in 2..n /\ x \in T!Stage(r) /\ tr[i].name = x /\ tr[i].end = -1
  BY DEF OpenAt
<1>2. \A k \in 2..n : /\ tr[k].name \in T!Stage(r) /\ tr[k].parent = 1 /\ tr[k].usage = rep[tr[k].name]
                      /\ tr[k].usage # <<>> => tr[k].model = Stages[r][tr[k].name]
  BY DEF OpenAt
<1>3. \A h, k \in 1..n : tr[h].name = tr[k].name => h = k
  BY DEF OpenAt
<1>4. \A y \in T!Stage(r) : rep[y] # <<>> => \E k \in 2..n : tr[k].name = y
  BY DEF OpenAt
<1>5. \A k \in 1..n : tr[k].start <= now /\ (tr[k].end # -1 => tr[k].start <= tr[k].end /\ tr[k].end <= now)
  BY DEF OpenAt
<1>6. /\ new \in SpanSet(r) /\ new.name = x /\ new.parent = 1 /\ new.start = tr[i].start
      /\ new.usage # <<>> => new.model = Stages[r][x]
      /\ new.end \in {-1, now}
  BY <1>1, <1>2 DEF ToldMore
<1>7. new.usage \in Usage
  BY <1>6 DEF SpanSet
<1> HIDE DEF n
<1>8. i \in 1..n /\ 1 \in 1..n /\ i # 1
  BY <1>1
<1>9. /\ tr2 \in Seq(SpanSet(r)) /\ Len(tr2) = n /\ tr2[i] = new
      /\ \A k \in 1..n : k # i => tr2[k] = tr[k]
  BY <1>1, <1>6, <1>8 DEF n
<1>10. /\ rep2 \in [T!Stage(r) -> Usage] /\ rep2[x] = new.usage
       /\ \A y \in T!Stage(r) : y # x => rep2[y] = rep[y]
  BY <1>1, <1>7
<1> HIDE DEF tr2, rep2
<1>11. \A k \in 1..n : tr2[k].name = tr[k].name /\ tr2[k].start = tr[k].start
  BY <1>1, <1>6, <1>9
<1>12. \A h, k \in 1..n : tr2[h].name = tr2[k].name => h = k
  BY <1>3, <1>11
<1>13. ASSUME NEW k \in 2..n
       PROVE  /\ tr2[k].name \in T!Stage(r) /\ tr2[k].parent = 1 /\ tr2[k].usage = rep2[tr2[k].name]
              /\ tr2[k].usage # <<>> => tr2[k].model = Stages[r][tr2[k].name]
  <2>1. CASE k = i
    BY <1>1, <1>6, <1>9, <1>10, <2>1
  <2>2. CASE k # i
    <3>1. k \in 1..n
      BY <1>1
    <3>2. tr2[k] = tr[k] /\ tr[k].name # x
      BY <1>1, <1>3, <1>8, <1>9, <2>2, <3>1
    <3> QED BY <1>2, <1>10, <3>2
  <2> QED BY <2>1, <2>2
<1>14. \A y \in T!Stage(r) : rep2[y] # <<>> => \E k \in 2..n : tr2[k].name = y
  <2>1. \A k \in 2..n : tr2[k].name = tr[k].name
    <3>1. \A k \in 2..n : k \in 1..n
      BY <1>1
    <3> QED BY <1>11, <3>1
  <2> QED BY <1>1, <1>4, <1>10, <2>1
<1>15. \A k \in 1..n : tr2[k].start <= now /\ (tr2[k].end # -1 => tr2[k].start <= tr2[k].end /\ tr2[k].end <= now)
  BY <1>1, <1>5, <1>6, <1>9, <1>11
<1>16. tr2[1] = tr[1]
  BY <1>8, <1>9
<1>17. SpansInv(r, tr2, rep2, now, "running")
  BY <1>1, <1>9, <1>10, <1>12, <1>13, <1>14, <1>15, <1>16 DEF SpansInv
<1> QED BY <1>17 DEF tr2, rep2

\* The buffer counts every run that ended, and keeps a few of them.
Over == {r \in Traced : phase[r] # "running"}
BufferInv ==
  /\ buffer.retained \in Seq(Traced) /\ buffer.exported \in Nat /\ buffer.dropped \in Nat
  /\ Len(buffer.retained) <= MaxReports
  /\ buffer.exported = Len(buffer.retained) + buffer.dropped
  /\ IsFiniteSet(Over) /\ Cardinality(Over) = buffer.exported

OfTraced(f) == f = [r \in Traced |-> f[r]]

TracesInv ==
  /\ OfTraced(trace) /\ OfTraced(reported) /\ OfTraced(ticks)
  /\ phase \in [Traced -> {"running", "exporting", "ended"}]
  /\ \A r \in Traced : SpansInv(r, trace[r], reported[r], ticks[r], phase[r])
  /\ BufferInv

LEMMA TracesStart == T!Init => TracesInv
<1> SUFFICES ASSUME T!Init PROVE TracesInv
  OBVIOUS
<1>1. ASSUME NEW r \in Traced PROVE SpansInv(r, trace[r], reported[r], ticks[r], phase[r])
  <2> DEFINE span == [name |-> "run", parent |-> 0, start |-> 0, end |-> -1, status |-> "unset",
                      usage |-> <<>>, model |-> "none"]
  <2>1. trace[r] = <<span>> /\ reported[r] = [x \in T!Stage(r) |-> <<>>] /\ ticks[r] = 0 /\ phase[r] = "running"
    BY DEF T!Init, T!Span, T!Absent, T!None
  <2>2. <<>> \in Usage
    BY DEF Usage
  <2>3. span \in SpanSet(r)
    BY <2>2 DEF SpanSet, ModelSet
  <2>4. span.name = "run" /\ span.parent = 0 /\ span.start = 0 /\ span.usage = <<>> /\ span.end = -1
    OBVIOUS
  <2> HIDE DEF span
  <2>5. trace[r] \in Seq(SpanSet(r)) /\ Len(trace[r]) = 1 /\ trace[r][1] = span
    BY <2>1, <2>3
  <2>6. 2..1 = {} /\ \A i, k \in 1..1 : i = k
    OBVIOUS
  <2>7. reported[r] \in [T!Stage(r) -> Usage] /\ \A x \in T!Stage(r) : reported[r][x] = <<>>
    BY <2>1, <2>2
  <2> QED BY <2>1, <2>4, <2>5, <2>6, <2>7 DEF SpansInv
<1>2. /\ OfTraced(trace) /\ OfTraced(reported) /\ OfTraced(ticks)
      /\ phase \in [Traced -> {"running", "exporting", "ended"}]
  BY DEF T!Init, OfTraced
<1>3. BufferInv
  <2>1. Over = {} /\ buffer = [retained |-> <<>>, exported |-> 0, dropped |-> 0]
    BY DEF T!Init, Over
  <2>2. IsFiniteSet({}) /\ Cardinality({}) = 0
    BY FS_EmptySet
  <2>3. <<>> \in Seq(Traced) /\ Len(<<>>) = 0
    OBVIOUS
  <2> QED BY <2>1, <2>2, <2>3, StoresAssumption DEF BufferInv
<1> QED BY <1>1, <1>2, <1>3 DEF TracesInv

\* A step of one run leaves the others as they are.
LEMMA OneRunMoves ==
  ASSUME TracesInv, NEW r \in Traced, NEW tr, NEW rep, NEW now, NEW ph, SpansInv(r, tr, rep, now, ph),
         trace' = [trace EXCEPT ![r] = tr], reported' = [reported EXCEPT ![r] = rep],
         ticks' = [ticks EXCEPT ![r] = now], phase' = [phase EXCEPT ![r] = ph], BufferInv'
  PROVE  TracesInv'
<1>1. /\ DOMAIN trace = Traced /\ DOMAIN reported = Traced /\ DOMAIN ticks = Traced
      /\ phase \in [Traced -> {"running", "exporting", "ended"}]
      /\ ph \in {"running", "exporting", "ended"}
  BY DEF TracesInv, SpansInv, OfTraced
<1>2. /\ OfTraced(trace') /\ OfTraced(reported') /\ OfTraced(ticks')
      /\ phase' \in [Traced -> {"running", "exporting", "ended"}]
      /\ trace'[r] = tr /\ reported'[r] = rep /\ ticks'[r] = now /\ phase'[r] = ph
      /\ \A q \in Traced \ {r} : trace'[q] = trace[q] /\ reported'[q] = reported[q] /\ ticks'[q] = ticks[q] /\ phase'[q] = phase[q]
  BY <1>1 DEF OfTraced
<1>3. ASSUME NEW q \in Traced PROVE SpansInv(q, trace'[q], reported'[q], ticks'[q], phase'[q])
  <2>1. CASE q = r
    BY <1>2, <2>1
  <2>2. CASE q # r
    <3>1. SpansInv(q, trace[q], reported[q], ticks[q], phase[q])
      BY DEF TracesInv
    <3> QED BY <1>2, <2>2, <3>1
  <2> QED BY <2>1, <2>2
<1>4. ASSUME NEW q \in Traced PROVE SpansInv(q, trace[q], reported[q], ticks[q], phase[q])'
  BY <1>3 DEF SpansInv
<1> QED BY <1>2, <1>4 DEF TracesInv, OfTraced

LEMMA BufferStays ==
  ASSUME BufferInv, UNCHANGED buffer, \A r \in Traced : (phase'[r] # "running") <=> (phase[r] # "running")
  PROVE  BufferInv'
<1>1. Over' = Over
  BY DEF Over
<1> QED BY <1>1 DEF BufferInv

LEMMA InterimKept ==
  ASSUME TracesInv, NEW r \in Traced, NEW x \in T!Stage(r), T!Interim(r, x)
  PROVE  TracesInv'
<1>1. /\ phase[r] = "running" /\ ~T!Done(r, x) /\ UNCHANGED <<phase, buffer>>
  BY DEF T!Interim
<1>2. PICK u \in Usages, at \in {ticks[r], ticks[r] + 1} :
        /\ ticks' = [ticks EXCEPT ![r] = at]
        /\ trace' = [trace EXCEPT ![r] = [T!Opened(r, x, at) EXCEPT
                       ![T!IndexOf(r, x)].usage = Append(T!Opened(r, x, at)[T!IndexOf(r, x)].usage, u),
                       ![T!IndexOf(r, x)].model = Stages[r][x]]]
        /\ reported' = [reported EXCEPT ![r] = [reported[r] EXCEPT ![x] = Append(reported[r][x], u)]]
  BY DEF T!Interim, TracesInv, OfTraced
<1> DEFINE tr == T!Opened(r, x, at)
           rep == reported[r]
           i0 == T!IndexOf(r, x)
           new == [tr[i0] EXCEPT !.usage = Append(tr[i0].usage, u), !.model = Stages[r][x]]
<1>3. SpansInv(r, trace[r], reported[r], ticks[r], "running")
  BY <1>1 DEF TracesInv
<1>4. OpenAt(r, tr, rep, at, i0, x)
  BY <1>1, <1>3, StageOpens
<1> HIDE DEF tr, i0
<1>5. /\ tr \in Seq(SpanSet(r)) /\ i0 \in 2..Len(tr) /\ tr[i0].name = x /\ tr[i0].end = -1 /\ tr[i0].usage = rep[x]
      /\ rep \in [T!Stage(r) -> Usage]
  BY <1>4 DEF OpenAt
<1>6. tr[i0] \in SpanSet(r) /\ DOMAIN tr = 1..Len(tr) /\ i0 \in DOMAIN tr
  BY <1>5
<1>7. u \in UsageSet
  BY StoresAssumption DEF UsageSet
<1>8. Append(rep[x], u) \in Usage /\ Append(rep[x], u) # <<>>
  <2>1. rep[x] \in Seq(UsageSet)
    BY <1>5 DEF Usage
  <2> HIDE DEF rep
  <2>2. Append(rep[x], u) \in Seq(UsageSet) /\ Len(Append(rep[x], u)) = Len(rep[x]) + 1 /\ Len(rep[x]) \in Nat
    BY <1>7, <2>1
  <2>3. Len(<<>>) = 0
    OBVIOUS
  <2> QED BY <2>2, <2>3 DEF Usage
<1>9. ToldMore(r, tr[i0], new, at) /\ new.usage = Append(rep[x], u)
  <2>1. Stages[r][x] \in ModelSet(r)
    BY DEF ModelSet
  <2> QED BY <1>5, <1>6, <1>8, <2>1 DEF ToldMore, SpanSet
<1>10. trace' = [trace EXCEPT ![r] = [tr EXCEPT ![i0] = new]]
  <2>1. [tr EXCEPT ![i0].usage = Append(tr[i0].usage, u), ![i0].model = Stages[r][x]] = [tr EXCEPT ![i0] = new]
    BY <1>6
  <2> QED BY <1>2, <2>1 DEF tr, i0
<1> HIDE DEF new
<1>11. SpansInv(r, [tr EXCEPT ![i0] = new], [rep EXCEPT ![x] = new.usage], at, "running")
  BY <1>4, <1>9, SpanTold
<1>12. reported' = [reported EXCEPT ![r] = [rep EXCEPT ![x] = new.usage]]
  BY <1>2, <1>9
<1>13. phase' = [phase EXCEPT ![r] = "running"]
  BY <1>1 DEF TracesInv
<1>14. BufferInv'
  BY <1>1, BufferStays DEF TracesInv
<1> HIDE DEF rep
<1> QED BY <1>2, <1>10, <1>11, <1>12, <1>13, <1>14, OneRunMoves

LEMMA TerminalKept ==
  ASSUME TracesInv, NEW r \in Traced, NEW x \in T!Stage(r), T!Terminal(r, x)
  PROVE  TracesInv'
<1> DEFINE rep == reported[r]
           i0 == T!IndexOf(r, x)
<1>1. /\ phase[r] = "running" /\ ~T!Done(r, x) /\ UNCHANGED <<phase, buffer>>
  BY DEF T!Terminal
<1>2. SpansInv(r, trace[r], reported[r], ticks[r], "running")
  BY <1>1 DEF TracesInv
<1>3. rep \in [T!Stage(r) -> Usage]
  BY <1>2 DEF SpansInv
<1> HIDE DEF rep
<1>4. PICK outcome \in {"completed", "failed"}, at \in {ticks[r], ticks[r] + 1} :
        \E usage \in IF outcome # "completed" \/ Stages[r][x] = T!None THEN {<<>>}
                     ELSE IF calls[r][x] > 0 THEN {<<T!SumOfUsages(rep[x])>>}
                     ELSE {<<>>} \cup {<<u>> : u \in Usages} :
          /\ ticks' = [ticks EXCEPT ![r] = at]
          /\ LET span == T!Opened(r, x, at)[i0]
                 told == [span EXCEPT !.usage = span.usage \o usage,
                                      !.model = IF usage # <<>> THEN Stages[r][x] ELSE span.model]
             IN trace' = [trace EXCEPT ![r] = [T!Opened(r, x, at) EXCEPT
                            ![i0] = T!Ended(told, IF outcome = "failed" THEN "error" ELSE "unset", at)]]
          /\ reported' = [reported EXCEPT ![r] = [rep EXCEPT ![x] = rep[x] \o usage]]
  BY DEF T!Terminal, TracesInv, OfTraced, rep
<1> DEFINE tr == T!Opened(r, x, at)
           status == IF outcome = "failed" THEN "error" ELSE "unset"
<1>5. PICK usage : /\ usage \in IF outcome # "completed" \/ Stages[r][x] = T!None THEN {<<>>}
                                ELSE IF calls[r][x] > 0 THEN {<<T!SumOfUsages(rep[x])>>}
                                ELSE {<<>>} \cup {<<u>> : u \in Usages}
                   /\ ticks' = [ticks EXCEPT ![r] = at]
                   /\ LET told == [tr[i0] EXCEPT !.usage = tr[i0].usage \o usage,
                                                 !.model = IF usage # <<>> THEN Stages[r][x] ELSE tr[i0].model]
                      IN trace' = [trace EXCEPT ![r] = [tr EXCEPT ![i0] = T!Ended(told, status, at)]]
                   /\ reported' = [reported EXCEPT ![r] = [rep EXCEPT ![x] = rep[x] \o usage]]
  BY <1>4
<1> DEFINE told == [tr[i0] EXCEPT !.usage = tr[i0].usage \o usage,
                                  !.model = IF usage # <<>> THEN Stages[r][x] ELSE tr[i0].model]
           new == T!Ended(told, status, at)
<1>6. OpenAt(r, tr, rep, at, i0, x)
  BY <1>1, <1>2, StageOpens DEF rep
<1>7. status \in {"error", "unset"}
  OBVIOUS
<1>8. trace' = [trace EXCEPT ![r] = [tr EXCEPT ![i0] = new]]
  BY <1>5
<1> HIDE DEF tr, i0, status
<1>9. /\ tr \in Seq(SpanSet(r)) /\ i0 \in 2..Len(tr) /\ tr[i0].name = x /\ tr[i0].end = -1 /\ tr[i0].usage = rep[x]
      /\ at \in Nat /\ (tr[i0].usage # <<>> => tr[i0].model = Stages[r][x])
  BY <1>6 DEF OpenAt
<1>10. tr[i0] \in SpanSet(r)
  BY <1>9
<1>11. rep[x] \in Seq(UsageSet)
  BY <1>3 DEF Usage
<1>12. usage \in Seq(UsageSet)
  <2>1. T!SumOfUsages(rep[x]) \in UsageSet
    <3> DEFINE l == Len(rep[x])
    <3>1. rep[x] \in [1..l -> UsageSet] /\ l \in Nat
      BY <1>11
    <3> HIDE DEF l
    <3>2. IsFiniteSet(1..l)
      BY <3>1, FS_Interval
    <3> QED BY <3>1, <3>2, SumType
  <2>2. \A u \in Usages : u \in UsageSet
    BY StoresAssumption DEF UsageSet
  <2>3. \A u \in UsageSet : <<u>> \in Seq(UsageSet)
    OBVIOUS
  <2>4. <<>> \in Seq(UsageSet)
    OBVIOUS
  <2> QED BY <1>5, <2>1, <2>2, <2>3, <2>4
<1>13. rep[x] \o usage \in Seq(UsageSet) /\ (usage = <<>> => rep[x] \o usage = rep[x])
  BY <1>11, <1>12
<1> DEFINE model == IF usage # <<>> THEN Stages[r][x] ELSE tr[i0].model
           sum == rep[x] \o usage
<1>14. model \in ModelSet(r) /\ (sum # <<>> => model = Stages[r][x])
  <2>1. tr[i0].model \in ModelSet(r)
    BY <1>10 DEF SpanSet
  <2>2. Stages[r][x] \in ModelSet(r)
    BY DEF ModelSet
  <2>3. sum # <<>> => model = Stages[r][x]
    BY <1>9, <1>13
  <2> QED BY <2>1, <2>2, <2>3
<1>15. sum \in Usage
  BY <1>13 DEF Usage
<1>16. told = [tr[i0] EXCEPT !.usage = sum, !.model = model]
  BY <1>9
<1> HIDE DEF told, model, sum
<1>17. /\ told \in SpanSet(r) /\ told.name = x /\ told.parent = tr[i0].parent /\ told.start = tr[i0].start
       /\ told.usage = sum /\ told.model = model /\ told.end = -1
  BY <1>9, <1>10, <1>14, <1>15, <1>16 DEF SpanSet
<1>18. \E z \in {"ok", "error"} : new = [told EXCEPT !.end = at, !.status = z]
  <2>1. told.status \in {"unset", "ok", "error"}
    BY <1>17 DEF SpanSet
  <2> DEFINE z == IF status # "unset" THEN status ELSE IF told.status = "unset" THEN "ok" ELSE told.status
  <2>2. z \in {"ok", "error"}
    BY <1>7, <2>1
  <2>3. new = [told EXCEPT !.end = at, !.status = z]
    BY <1>17 DEF T!Ended, T!Absent
  <2> HIDE DEF z, new
  <2> QED BY <2>2, <2>3
<1> HIDE DEF new
<1>19. /\ new \in SpanSet(r) /\ new.name = x /\ new.parent = tr[i0].parent /\ new.start = tr[i0].start
       /\ new.usage = sum /\ new.model = model /\ new.end = at
  BY <1>9, <1>17, <1>18 DEF SpanSet
<1>20. ToldMore(r, tr[i0], new, at)
  BY <1>9, <1>14, <1>19 DEF ToldMore
<1>21. SpansInv(r, [tr EXCEPT ![i0] = new], [rep EXCEPT ![x] = new.usage], at, "running")
  BY <1>6, <1>20, SpanTold
<1>22. reported' = [reported EXCEPT ![r] = [rep EXCEPT ![x] = new.usage]]
  BY <1>5, <1>19 DEF sum
<1>23. phase' = [phase EXCEPT ![r] = "running"]
  BY <1>1 DEF TracesInv
<1>24. BufferInv'
  BY <1>1, BufferStays DEF TracesInv
<1> QED BY <1>5, <1>8, <1>21, <1>22, <1>23, <1>24, OneRunMoves

\* What ends a span ends it now, unless it has ended.
EndedAt(r, span, new, now) ==
  /\ new \in SpanSet(r)
  /\ new.name = span.name /\ new.parent = span.parent /\ new.start = span.start
  /\ new.usage = span.usage /\ new.model = span.model
  /\ new.end = IF span.end = -1 THEN now ELSE span.end

LEMMA EndedIs ==
  ASSUME NEW r, NEW span \in SpanSet(r), NEW status \in {"unset", "ok", "error"}, NEW now \in Nat
  PROVE  EndedAt(r, span, T!Ended(span, status, now), now)
<1> DEFINE z == IF status # "unset" THEN status ELSE IF span.status = "unset" THEN "ok" ELSE span.status
           e == IF span.end = -1 THEN now ELSE span.end
           new == T!Ended(span, status, now)
<1>1. z \in {"unset", "ok", "error"} /\ e \in Nat \cup {-1}
  BY DEF SpanSet
<1>2. new = [span EXCEPT !.end = e, !.status = z]
  BY DEF T!Ended, T!Absent
<1> HIDE DEF z, new
<1>3. new.end = e
  BY <1>2 DEF SpanSet
<1>4. new \in SpanSet(r)
  BY <1>1, <1>2 DEF SpanSet
<1>5. /\ new.name = span.name /\ new.parent = span.parent /\ new.start = span.start
      /\ new.usage = span.usage /\ new.model = span.model
  BY <1>2 DEF SpanSet
<1> QED BY <1>3, <1>4, <1>5 DEF new, e, EndedAt

\* The buffer takes one more run.
LEMMA BufferTakes ==
  ASSUME TracesInv, NEW r \in Traced, phase[r] = "running", phase' = [phase EXCEPT ![r] = "exporting"],
         LET retained == Append(buffer.retained, r)
             over == IF Len(retained) > MaxReports THEN Len(retained) - MaxReports ELSE 0
         IN buffer' = [retained |-> SubSeq(retained, over + 1, Len(retained)),
                       exported |-> buffer.exported + 1, dropped |-> buffer.dropped + over]
  PROVE  BufferInv'
<1> DEFINE q == Append(buffer.retained, r)
           n == Len(buffer.retained)
           over == IF Len(q) > MaxReports THEN Len(q) - MaxReports ELSE 0
           kept == SubSeq(q, over + 1, Len(q))
<1>1. /\ buffer.retained \in Seq(Traced) /\ buffer.exported \in Nat /\ buffer.dropped \in Nat
      /\ n \in Nat /\ n <= MaxReports /\ buffer.exported = n + buffer.dropped
      /\ IsFiniteSet(Over) /\ Cardinality(Over) = buffer.exported
  BY DEF TracesInv, BufferInv
<1>2. MaxReports \in Nat
  BY StoresAssumption
<1>3. q \in Seq(Traced) /\ Len(q) = n + 1
  BY <1>1
<1>4. buffer'.retained = kept /\ buffer'.exported = buffer.exported + 1 /\ buffer'.dropped = buffer.dropped + over
  OBVIOUS
<1> HIDE DEF q, n
<1>5. over \in {0, 1} /\ over \in Nat /\ n + 1 - over <= MaxReports
  BY <1>1, <1>2, <1>3
<1> HIDE DEF over
<1>6. kept \in Seq(Traced) /\ Len(kept) = n + 1 - over
  <2>1. over + 1 \in 1..(Len(q) + 1) /\ Len(q) \in Nat
    BY <1>1, <1>3, <1>5
  <2>2. Len(kept) = Len(q) - (over + 1) + 1
    BY <1>1, <1>3, <1>5, <2>1
  <2>5. Len(kept) = n + 1 - over
    BY <1>1, <1>3, <1>5, <2>2
  <2>6. kept \in Seq(Traced)
    BY <1>3, <2>1, <1>5
  <2> QED BY <2>5, <2>6
<1> HIDE DEF kept
<1>7. Over' = Over \cup {r} /\ r \notin Over
  BY DEF Over, TracesInv
<1>8. IsFiniteSet(Over \cup {r}) /\ Cardinality(Over \cup {r}) = Cardinality(Over) + 1
  BY <1>1, <1>7, FS_AddElement
<1> DEFINE e == buffer.exported
           d == buffer.dropped
           l == Len(kept)
<1>9. /\ buffer'.retained = kept /\ buffer'.exported = e + 1 /\ buffer'.dropped = d + over
  BY <1>4
<1>10. e \in Nat /\ d \in Nat /\ e = n + d /\ l = n + 1 - over /\ Cardinality(Over) = e
  BY <1>1, <1>6
<1> HIDE DEF e, d, l
<1>11. l <= MaxReports /\ e + 1 = l + (d + over) /\ e + 1 \in Nat /\ d + over \in Nat
  BY <1>1, <1>5, <1>10
<1>12. IsFiniteSet(Over') /\ Cardinality(Over') = e + 1
  BY <1>7, <1>8, <1>10
<1>13. IsFiniteSet(Over)' /\ Cardinality(Over)' = e + 1
  BY <1>12
<1> QED BY <1>6, <1>9, <1>11, <1>13 DEF BufferInv, l

LEMMA FinishKept ==
  ASSUME TracesInv, NEW r \in Traced, T!FinishTrace(r)
  PROVE  TracesInv'
<1> DEFINE tr == trace[r]
           rep == reported[r]
           now == ticks[r]
           n == Len(tr)
<1>1. /\ phase[r] = "running" /\ UNCHANGED <<ticks, reported>>
      /\ phase' = [phase EXCEPT ![r] = "exporting"]
      /\ LET retained == Append(buffer.retained, r)
             over == IF Len(retained) > MaxReports THEN Len(retained) - MaxReports ELSE 0
         IN buffer' = [retained |-> SubSeq(retained, over + 1, Len(retained)),
                       exported |-> buffer.exported + 1, dropped |-> buffer.dropped + over]
  BY DEF T!FinishTrace
<1>2. BufferInv'
  BY <1>1, BufferTakes
<1>3. SpansInv(r, tr, rep, now, "running")
  BY <1>1 DEF TracesInv
<1>4. PICK status \in {"ok", "error"} :
        trace' = [trace EXCEPT ![r] =
                    [i \in DOMAIN tr |->
                       IF i = 1 THEN T!Ended(tr[i], status, now)
                       ELSE IF tr[i].end = T!Absent THEN T!Ended(tr[i], "unset", now) ELSE tr[i]]]
  BY DEF T!FinishTrace
<1> DEFINE tr2 == [i \in DOMAIN tr |->
                       IF i = 1 THEN T!Ended(tr[i], status, now)
                       ELSE IF tr[i].end = T!Absent THEN T!Ended(tr[i], "unset", now) ELSE tr[i]]
<1>5. trace' = [trace EXCEPT ![r] = tr2]
  BY <1>4
<1>6. /\ tr \in Seq(SpanSet(r)) /\ n >= 1 /\ n \in Nat /\ DOMAIN tr = 1..n
      /\ rep \in [T!Stage(r) -> Usage] /\ now \in Nat
      /\ tr[1].name = "run" /\ tr[1].parent = 0 /\ tr[1].start = 0 /\ tr[1].usage = <<>> /\ tr[1].end = -1
  BY <1>3 DEF SpansInv
<1>7. \A i \in 2..n : /\ tr[i].name \in T!Stage(r) /\ tr[i].parent = 1 /\ tr[i].usage = rep[tr[i].name]
                      /\ tr[i].usage # <<>> => tr[i].model = Stages[r][tr[i].name]
  BY <1>3 DEF SpansInv
<1>8. \A i, k \in 1..n : tr[i].name = tr[k].name => i = k
  BY <1>3 DEF SpansInv
<1>9. \A y \in T!Stage(r) : rep[y] # <<>> => \E i \in 2..n : tr[i].name = y
  BY <1>3 DEF SpansInv
<1>10. \A i \in 1..n : tr[i].start <= now /\ (tr[i].end # -1 => tr[i].start <= tr[i].end /\ tr[i].end <= now)
  BY <1>3 DEF SpansInv
<1> HIDE DEF tr, rep, now, n
<1>11. ASSUME NEW i \in 1..n
       PROVE  /\ tr2[i] \in SpanSet(r) /\ tr2[i].name = tr[i].name /\ tr2[i].parent = tr[i].parent
              /\ tr2[i].start = tr[i].start /\ tr2[i].usage = tr[i].usage /\ tr2[i].model = tr[i].model
              /\ tr2[i].end = IF tr[i].end = -1 THEN now ELSE tr[i].end
  <2>1. tr[i] \in SpanSet(r)
    BY <1>6
  <2>2. CASE i = 1
    <3>1. tr2[i] = T!Ended(tr[i], status, now)
      BY <1>6, <2>2
    <3> HIDE DEF tr2
    <3>2. status \in {"unset", "ok", "error"} /\ now \in Nat
      BY <1>6
    <3>3. EndedAt(r, tr[i], tr2[i], now)
      BY <2>1, <3>1, <3>2, EndedIs
    <3> QED BY <3>3 DEF EndedAt
  <2>3. CASE i # 1 /\ tr[i].end = -1
    <3>1. tr2[i] = T!Ended(tr[i], "unset", now)
      BY <1>6, <2>3 DEF T!Absent
    <3> HIDE DEF tr2
    <3>2. "unset" \in {"unset", "ok", "error"} /\ now \in Nat
      BY <1>6
    <3>3. EndedAt(r, tr[i], tr2[i], now)
      BY <2>1, <3>1, <3>2, EndedIs
    <3> QED BY <3>3 DEF EndedAt
  <2>4. CASE i # 1 /\ tr[i].end # -1
    <3>1. tr2[i] = tr[i]
      BY <1>6, <2>4 DEF T!Absent
    <3> HIDE DEF tr2
    <3> QED BY <2>1, <2>4, <3>1
  <2> QED BY <2>2, <2>3, <2>4
<1>12. tr2 \in Seq(SpanSet(r)) /\ Len(tr2) = n
  <2>1. tr2 = [i \in 1..n |-> tr2[i]]
    BY <1>6
  <2> HIDE DEF tr2
  <2> QED BY <1>6, <1>11, <2>1
<1> HIDE DEF tr2
<1>13. 1 \in 1..n /\ \A i \in 2..n : i \in 1..n
  BY <1>6
<1>14. \A i \in 1..n : tr[i].start \in Nat /\ tr[i].end \in Nat \cup {-1}
  <2>1. \A i \in 1..n : tr[i] \in SpanSet(r)
    BY <1>6
  <2> QED BY <2>1 DEF SpanSet
<1>15. \A i \in 1..n : /\ tr2[i].start <= now /\ tr2[i].start <= tr2[i].end /\ tr2[i].end <= now /\ tr2[i].end # -1
  <2> SUFFICES ASSUME NEW i \in 1..n
               PROVE  tr2[i].start <= now /\ tr2[i].start <= tr2[i].end /\ tr2[i].end <= now /\ tr2[i].end # -1
    OBVIOUS
  <2>1. tr2[i].start = tr[i].start /\ tr2[i].end = IF tr[i].end = -1 THEN now ELSE tr[i].end
    BY <1>11
  <2>2. now \in Nat /\ tr[i].start \in Nat /\ tr[i].start <= now
    BY <1>6, <1>10, <1>14
  <2>3. tr[i].end # -1 => tr[i].start <= tr[i].end /\ tr[i].end <= now /\ tr[i].end \in Nat
    BY <1>10, <1>14
  <2> QED BY <2>1, <2>2, <2>3
<1>16. \A i, k \in 1..n : tr2[i].name = tr2[k].name => i = k
  BY <1>8, <1>11
<1>17. ASSUME NEW i \in 2..n
       PROVE  /\ tr2[i].name \in T!Stage(r) /\ tr2[i].parent = 1 /\ tr2[i].usage = rep[tr2[i].name]
              /\ tr2[i].usage # <<>> => tr2[i].model = Stages[r][tr2[i].name]
  BY <1>7, <1>11, <1>13
<1>18. \A y \in T!Stage(r) : rep[y] # <<>> => \E i \in 2..n : tr2[i].name = y
  BY <1>9, <1>11, <1>13
<1>19. SpansInv(r, tr2, rep, now, "exporting")
  BY <1>6, <1>11, <1>12, <1>13, <1>15, <1>16, <1>17, <1>18 DEF SpansInv
<1>20. reported' = [reported EXCEPT ![r] = rep] /\ ticks' = [ticks EXCEPT ![r] = now]
  <2>1. reported' = reported /\ ticks' = ticks
    BY <1>1
  <2>2. OfTraced(reported) /\ OfTraced(ticks)
    BY DEF TracesInv
  <2>3. reported' = [reported EXCEPT ![r] = reported[r]]
    BY <2>1, <2>2 DEF OfTraced
  <2>4. ticks' = [ticks EXCEPT ![r] = ticks[r]]
    BY <2>1, <2>2 DEF OfTraced
  <2> QED BY <2>3, <2>4 DEF rep, now
<1> QED BY <1>1, <1>2, <1>5, <1>19, <1>20, OneRunMoves

LEMMA SettleKept ==
  ASSUME TracesInv, NEW r \in Traced, T!RemoteSettles(r)
  PROVE  TracesInv'
<1>1. phase[r] = "exporting" /\ phase' = [phase EXCEPT ![r] = "ended"] /\ UNCHANGED <<trace, ticks, buffer, reported>>
  BY DEF T!RemoteSettles
<1>2. SpansInv(r, trace[r], reported[r], ticks[r], "ended")
  <2>1. SpansInv(r, trace[r], reported[r], ticks[r], "exporting")
    BY <1>1 DEF TracesInv
  <2> QED BY <2>1 DEF SpansInv
<1>3. \A q \in Traced : (phase'[q] # "running") <=> (phase[q] # "running")
  BY <1>1 DEF TracesInv
<1>4. BufferInv'
  BY <1>1, <1>3, BufferStays DEF TracesInv
<1>5. phase' \in [Traced -> {"running", "exporting", "ended"}] /\ phase'[r] = "ended" /\ \A q \in Traced \ {r} : phase'[q] = phase[q]
  BY <1>1 DEF TracesInv
<1>6. ASSUME NEW q \in Traced PROVE SpansInv(q, trace[q], reported[q], ticks[q], phase'[q])
  <2>1. CASE q = r
    BY <1>2, <1>5, <2>1
  <2>2. CASE q # r
    BY <1>5, <2>2 DEF TracesInv
  <2> QED BY <2>1, <2>2
<1>7. ASSUME NEW q \in Traced PROVE SpansInv(q, trace[q], reported[q], ticks[q], phase[q])'
  <2>1. SpansInv(q, trace'[q], reported'[q], ticks'[q], phase'[q])
    BY <1>1, <1>6
  <2> QED BY <2>1 DEF SpansInv
<1> QED BY <1>1, <1>4, <1>5, <1>7 DEF TracesInv

LEMMA TracesStep == TracesInv /\ [T!Next]_(T!traceVars) => TracesInv'
<1> SUFFICES ASSUME TracesInv, [T!Next]_(T!traceVars) PROVE TracesInv'
  OBVIOUS
<1>1. CASE T!Next
  <2>1. PICK r \in Traced : \/ T!FinishTrace(r) \/ T!RemoteSettles(r)
                            \/ \E x \in T!Stage(r) : T!Interim(r, x) \/ T!Terminal(r, x)
    BY <1>1 DEF T!Next
  <2> QED BY <2>1, FinishKept, SettleKept, InterimKept, TerminalKept
<1>2. CASE UNCHANGED T!traceVars
  <2>1. UNCHANGED <<trace, ticks, phase, buffer, reported>>
    BY <1>2 DEF T!traceVars
  <2>2. BufferInv'
    BY <2>1, BufferStays DEF TracesInv
  <2>3. ASSUME NEW q \in Traced PROVE SpansInv(q, trace[q], reported[q], ticks[q], phase[q])'
    <3>1. SpansInv(q, trace'[q], reported'[q], ticks'[q], phase'[q])
      BY <2>1 DEF TracesInv
    <3> QED BY <3>1 DEF SpansInv
  <2> QED BY <2>1, <2>2, <2>3 DEF TracesInv
<1> QED BY <1>1, <1>2

(***************************************************************************)
(* What the report over such spans adds up to.                             *)
(***************************************************************************)

Charged(tr) == {i \in 1..Len(tr) : tr[i].usage # <<>>}
Names(tr) == {tr[i].name : i \in 1..Len(tr)}
Told(r, rep) == {x \in T!Stage(r) : rep[x] # <<>>}

LEMMA SeqSum == \A q \in Usage : T!SumOfUsages(q) \in UsageSet
<1> SUFFICES ASSUME NEW q \in Usage PROVE T!SumOfUsages(q) \in UsageSet
  OBVIOUS
<1> DEFINE l == Len(q)
<1>1. q \in [1..l -> UsageSet] /\ l \in Nat
  BY DEF Usage
<1> HIDE DEF l
<1>2. IsFiniteSet(1..l)
  BY <1>1, FS_Interval
<1> QED BY <1>1, <1>2, SumType

LEMMA NothingUsed == T!SumOfUsages(<<>>).input = 0
<1> DEFINE D == {}
           u == <<>>
           f == [x \in D |-> u[x].input]
<1>1. u \in [D -> UsageSet]
  OBVIOUS
<1>2. IsFiniteSet(D)
  BY FS_EmptySet
<1>3. f \in [D -> Nat] /\ \A x \in D : f[x] = 0
  OBVIOUS
<1> HIDE DEF D, u
<1>4. T!SumOfUsages(u).input = TotalOf(f)
  BY <1>1, <1>2, SumType
<1> HIDE DEF f
<1>5. TotalOf(f) = 0
  BY <1>3, NothingTotals
<1> QED BY <1>4, <1>5 DEF u

LEMMA SpanUsage ==
  ASSUME NEW r, NEW tr, NEW rep, NEW now, NEW ph, SpansInv(r, tr, rep, now, ph)
  PROVE  /\ Len(tr) \in Nat /\ DOMAIN tr = 1..Len(tr) /\ IsFiniteSet(1..Len(tr)) /\ Cardinality(1..Len(tr)) = Len(tr)
         /\ IsFiniteSet(Charged(tr))
         /\ \A i \in 1..Len(tr) : T!UsageOf(tr[i]) \in UsageSet /\ (i \notin Charged(tr) => T!UsageOf(tr[i]).input = 0)
         /\ \A i \in Charged(tr) :
              /\ i \in 2..Len(tr) /\ tr[i].name \in Told(r, rep) /\ tr[i].model = Stages[r][tr[i].name]
              /\ T!UsageOf(tr[i]) = T!SumOfUsages(rep[tr[i].name])
         /\ \A x \in Told(r, rep) : \E i \in Charged(tr) : tr[i].name = x
<1> DEFINE n == Len(tr)
<1>1. tr \in Seq(SpanSet(r)) /\ n \in Nat /\ DOMAIN tr = 1..n /\ rep \in [T!Stage(r) -> Usage] /\ tr[1].usage = <<>>
  BY DEF SpansInv
<1>2. \A i \in 2..n : /\ tr[i].name \in T!Stage(r) /\ tr[i].usage = rep[tr[i].name]
                      /\ tr[i].usage # <<>> => tr[i].model = Stages[r][tr[i].name]
  BY DEF SpansInv
<1>3. \A x \in T!Stage(r) : rep[x] # <<>> => \E i \in 2..n : tr[i].name = x
  BY DEF SpansInv
<1>0. n \in Nat
  BY <1>1
<1> HIDE DEF n
<1>4. IsFiniteSet(1..n) /\ Cardinality(1..n) = n
  BY <1>0, FS_Interval
<1>5. Charged(tr) = {i \in 1..n : tr[i].usage # <<>>}
  BY DEF Charged, n
<1>6. IsFiniteSet(Charged(tr))
  BY <1>4, <1>5, FS_Subset
<1>7. ASSUME NEW i \in 1..n PROVE T!UsageOf(tr[i]) \in UsageSet /\ (i \notin Charged(tr) => T!UsageOf(tr[i]).input = 0)
  <2>1. tr[i].usage \in Usage
    <3>1. tr[i] \in SpanSet(r)
      BY <1>1
    <3> QED BY <3>1 DEF SpanSet
  <2>2. T!UsageOf(tr[i]) = T!SumOfUsages(tr[i].usage)
    BY DEF T!UsageOf
  <2> QED BY <1>5, <2>1, <2>2, SeqSum, NothingUsed
<1>8. ASSUME NEW i \in Charged(tr)
      PROVE  /\ i \in 2..n /\ tr[i].name \in Told(r, rep) /\ tr[i].model = Stages[r][tr[i].name]
             /\ T!UsageOf(tr[i]) = T!SumOfUsages(rep[tr[i].name])
  <2>1. i \in 2..n
    BY <1>1, <1>5
  <2> QED BY <1>2, <1>5, <2>1 DEF T!UsageOf, Told
<1>9. ASSUME NEW x \in Told(r, rep) PROVE \E i \in Charged(tr) : tr[i].name = x
  <2>1. PICK i \in 2..n : tr[i].name = x
    BY <1>3 DEF Told
  <2>2. i \in 1..n /\ tr[i].usage # <<>>
    BY <1>1, <1>2, <2>1 DEF Told
  <2> QED BY <1>5, <2>1, <2>2
<1> QED BY <1>1, <1>4, <1>6, <1>7, <1>8, <1>9 DEF n

\* A sum over the spans that cost is one over the stages that reported.
LEMMA ChargedTotal ==
  ASSUME NEW r, NEW tr, NEW rep, NEW now, NEW ph, SpansInv(r, tr, rep, now, ph), NEW g \in [Told(r, rep) -> Nat]
  PROVE  TotalOf([i \in Charged(tr) |-> g[tr[i].name]]) = TotalOf(g)
<1> DEFINE D == Charged(tr)
           U == Told(r, rep)
           f == [i \in D |-> tr[i].name]
           h == [i \in D |-> g[tr[i].name]]
<1>1. IsFiniteSet(D)
  BY SpanUsage
<1>2. \A i, k \in D : tr[i].name = tr[k].name => i = k
  BY DEF SpansInv, Charged
<1>3. \A i \in D : tr[i].name \in U
  BY SpanUsage
<1>4. \A x \in U : \E i \in D : tr[i].name = x
  BY SpanUsage
<1>0. g \in [U -> Nat]
  OBVIOUS
<1> HIDE DEF D, U
<1>5. f \in [D -> U] /\ h \in [D -> Nat] /\ \A i \in D : h[i] = g[f[i]]
  BY <1>0, <1>3
<1>6. (\A i, k \in D : f[i] = f[k] => i = k) /\ (\A x \in U : \E i \in D : f[i] = x)
  BY <1>2, <1>4
<1> HIDE DEF f
<1>7. TotalOf(h) = TotalOf(g)
  <2> HIDE DEF h
  <2> QED BY <1>0, <1>1, <1>5, <1>6, TotalRenamed
<1> QED BY <1>7 DEF D

\* And one over all spans is one over their names.
LEMMA NamesTotal ==
  ASSUME NEW r, NEW tr, NEW rep, NEW now, NEW ph, SpansInv(r, tr, rep, now, ph), NEW g \in [Names(tr) -> Nat]
  PROVE  TotalOf([i \in 1..Len(tr) |-> g[tr[i].name]]) = TotalOf(g)
<1> DEFINE D == 1..Len(tr)
           f == [i \in D |-> tr[i].name]
           h == [i \in D |-> g[tr[i].name]]
<1>1. IsFiniteSet(D)
  BY SpanUsage
<1>2. \A i, k \in D : tr[i].name = tr[k].name => i = k
  BY DEF SpansInv
<1>3. \A i \in D : tr[i].name \in Names(tr)
  BY DEF Names
<1>4. \A x \in Names(tr) : \E i \in D : tr[i].name = x
  BY DEF Names
<1> HIDE DEF D
<1>5. f \in [D -> Names(tr)] /\ h \in [D -> Nat] /\ \A i \in D : h[i] = g[f[i]]
  BY <1>3
<1>6. (\A i, k \in D : f[i] = f[k] => i = k) /\ (\A x \in Names(tr) : \E i \in D : f[i] = x)
  BY <1>2, <1>4
<1> HIDE DEF f
<1>7. TotalOf(h) = TotalOf(g)
  <2> HIDE DEF h
  <2> QED BY <1>1, <1>5, <1>6, TotalRenamed
<1> QED BY <1>7 DEF D

LEMMA Products ==
  ASSUME NEW a \in Nat, NEW b \in Nat, NEW c \in Nat, NEW d \in Nat
  PROVE  /\ a * b \in Nat
         /\ b <= a => (a - b) * c \in Nat /\ (a - b) * c + b * c = a * c
         /\ d <= c => b * d <= b * c
  OBVIOUS

PriceSet == [input : Nat, output : Nat, cacheRead : Nat \cup {-1}]

\* What is used costs at most what it would without a cache.
LEMMA CostIs ==
  ASSUME NEW u \in UsageSet, NEW price \in PriceSet, price.cacheRead <= price.input
  PROVE  /\ T!CostOf(u, price) \in Nat /\ u.input * price.input + u.output * price.output \in Nat
         /\ T!Read(u.cacheRead) <= u.input =>
              T!CostOf(u, price) <= u.input * price.input + u.output * price.output
<1>1. /\ u.input \in Nat /\ u.output \in Nat /\ T!Read(u.cacheRead) \in Nat
      /\ price.input \in Nat /\ price.output \in Nat
  BY DEF UsageSet, PriceSet, T!Read, T!Absent
<1> DEFINE pc0 == IF price.cacheRead = -1 THEN price.input ELSE price.cacheRead
<1>2. pc0 \in Nat /\ pc0 <= price.input
  BY <1>1 DEF PriceSet
<1>3. PICK a, b, c, d, e, o : /\ a = u.input /\ b = T!Read(u.cacheRead) /\ c = price.input /\ d = pc0
                              /\ e = price.output /\ o = u.output
  OBVIOUS
<1>4. a \in Nat /\ b \in Nat /\ c \in Nat /\ d \in Nat /\ e \in Nat /\ o \in Nat /\ d <= c
  BY <1>1, <1>2, <1>3
<1>5. T!CostOf(u, price) = (IF a > b THEN a - b ELSE 0) * c + o * e + b * d
  BY <1>3 DEF T!CostOf, T!Absent
<1>6. o * e \in Nat /\ b * d \in Nat /\ a * c \in Nat /\ b * c \in Nat /\ b * d <= b * c
  BY <1>4, Products
<1>7. CASE a > b
  <2>1. b <= a
    BY <1>4, <1>7
  <2>2. (a - b) * c \in Nat /\ (a - b) * c + b * c = a * c
    BY <1>4, <2>1, Products
  <2>3. T!CostOf(u, price) = (a - b) * c + o * e + b * d
    BY <1>5, <1>7
  <2>4. PICK w, x, y, z, v : w = (a - b) * c /\ x = o * e /\ y = b * d /\ z = b * c /\ v = a * c
    OBVIOUS
  <2>5. w + x + y \in Nat /\ w + x + y <= v + x /\ v + x \in Nat
    BY <1>6, <2>2, <2>4
  <2> QED BY <1>3, <2>3, <2>4, <2>5
<1>8. CASE ~(a > b)
  <2>1. 0 * c = 0
    BY <1>4
  <2>2. T!CostOf(u, price) = 0 + o * e + b * d
    BY <1>5, <1>8, <2>1
  <2>3. b <= a => a = b
    BY <1>4, <1>8
  <2>4. PICK x, y, z, v : x = o * e /\ y = b * d /\ z = b * c /\ v = a * c
    OBVIOUS
  <2>5. 0 + x + y \in Nat /\ v + x \in Nat /\ (b <= a => 0 + x + y <= v + x)
    BY <1>6, <2>3, <2>4
  <2> QED BY <1>3, <2>2, <2>4, <2>5
<1> QED BY <1>7, <1>8

LEMMA Prices == \A model \in DOMAIN Pricing : Pricing[model] \in PriceSet /\ Pricing[model].cacheRead <= Pricing[model].input
  BY StoresAssumption DEF PriceSet

\* What the spans of a run cost is what its stages said.
CostExplained(r, tr, rep) ==
  LET cost == T!computeCost(tr)
      U == Told(r, rep)
      total == [x \in U |-> T!SumOfUsages(rep[x])]
  IN /\ cost.input = TotalOf([x \in U |-> total[x].input]) /\ cost.output = TotalOf([x \in U |-> total[x].output])
     /\ cost.cacheRead = TotalOf([x \in U |-> T!Read(total[x].cacheRead)])
     /\ cost.measured = \A x \in U : total[x].measured
     /\ (cost.usd = -1) <=> \E x \in U : Stages[r][x] \notin DOMAIN Pricing
     /\ cost.usd # -1 /\ (\A x \in U : T!Read(total[x].cacheRead) <= total[x].input) =>
          cost.usd <= TotalOf([x \in U |-> total[x].input * Pricing[Stages[r][x]].input
                                             + total[x].output * Pricing[Stages[r][x]].output])
     /\ cost.input = TotalOf([i \in Charged(tr) |-> T!UsageOf(tr[i]).input])

LEMMA CostOfSpans ==
  ASSUME NEW r, NEW tr, NEW rep, NEW now, NEW ph, SpansInv(r, tr, rep, now, ph)
  PROVE  CostExplained(r, tr, rep)
<1> DEFINE D == Charged(tr)
           U == Told(r, rep)
           u == [i \in D |-> T!UsageOf(tr[i])]
           total == [x \in U |-> T!SumOfUsages(rep[x])]
           sum == T!SumOfUsages(u)
           cost == T!computeCost(tr)
           w == [i \in D |-> T!CostOf(u[i], Pricing[tr[i].model])]
           in == [x \in U |-> total[x].input]
           out == [x \in U |-> total[x].output]
           cached == [x \in U |-> T!Read(total[x].cacheRead)]
           v == [x \in U |-> total[x].input * Pricing[Stages[r][x]].input + total[x].output * Pricing[Stages[r][x]].output]
<1>1. /\ DOMAIN tr = 1..Len(tr) /\ IsFiniteSet(D)
      /\ \A i \in 1..Len(tr) : T!UsageOf(tr[i]) \in UsageSet
  BY SpanUsage
<1>0. \A i \in D : i \in 1..Len(tr)
  BY DEF Charged
<1>2. \A i \in D : /\ tr[i].name \in U /\ tr[i].model = Stages[r][tr[i].name]
                   /\ T!UsageOf(tr[i]) = T!SumOfUsages(rep[tr[i].name])
  BY SpanUsage
<1>3. \A x \in U : \E i \in D : tr[i].name = x
  BY SpanUsage
<1>4. u \in [D -> UsageSet] /\ \A i \in D : u[i] = total[tr[i].name]
  BY <1>0, <1>1, <1>2
<1>5. total \in [U -> UsageSet]
  <2> SUFFICES ASSUME NEW x \in U PROVE T!SumOfUsages(rep[x]) \in UsageSet
    OBVIOUS
  <2>1. PICK i \in D : tr[i].name = x
    BY <1>3
  <2> QED BY <1>0, <1>1, <1>2, <2>1
<1>6. D = {i \in DOMAIN tr : tr[i].usage # <<>>}
  BY <1>1 DEF Charged
<1>7. \A g \in [U -> Nat] : TotalOf([i \in D |-> g[tr[i].name]]) = TotalOf(g)
  BY ChargedTotal
<1> DEFINE unpriced == {tr[i].model : i \in D} \ DOMAIN Pricing
<1>8. /\ cost.input = sum.input /\ cost.output = sum.output /\ cost.cacheRead = T!Read(sum.cacheRead)
      /\ cost.measured = sum.measured
      /\ cost.usd = IF unpriced # {} THEN -1 ELSE T!TotalOf([i \in D |-> T!CostOf(T!UsageOf(tr[i]), Pricing[tr[i].model])])
  BY <1>6 DEF T!computeCost, T!Absent
<1>9. [i \in D |-> T!CostOf(T!UsageOf(tr[i]), Pricing[tr[i].model])] = w
  OBVIOUS
<1>10. cost.usd = IF unpriced # {} THEN -1 ELSE TotalOf(w)
  BY <1>8, <1>9, TotalSame
<1>11. /\ sum.input = TotalOf([i \in D |-> u[i].input]) /\ sum.output = TotalOf([i \in D |-> u[i].output])
       /\ T!Read(sum.cacheRead) = TotalOf([i \in D |-> T!Read(u[i].cacheRead)])
       /\ sum.measured = \A i \in D : u[i].measured
  <2> HIDE DEF D, u
  <2> QED BY <1>1, <1>4, SumType
<1>12. sum.input = TotalOf([i \in D |-> T!UsageOf(tr[i]).input])
  <2>1. [i \in D |-> T!UsageOf(tr[i]).input] = [i \in D |-> u[i].input]
    OBVIOUS
  <2> QED BY <1>11, <2>1
<1> HIDE DEF D, U, u, total, sum, cost
<1>13. in \in [U -> Nat] /\ out \in [U -> Nat] /\ cached \in [U -> Nat]
  <2>1. \A x \in U : total[x] \in UsageSet
    BY <1>5
  <2>2. \A x \in U : total[x].input \in Nat /\ total[x].output \in Nat /\ T!Read(total[x].cacheRead) \in Nat
    BY <2>1 DEF UsageSet, T!Read, T!Absent
  <2> QED BY <2>2
<1>14. /\ [i \in D |-> u[i].input] = [i \in D |-> in[tr[i].name]]
       /\ [i \in D |-> u[i].output] = [i \in D |-> out[tr[i].name]]
       /\ [i \in D |-> T!Read(u[i].cacheRead)] = [i \in D |-> cached[tr[i].name]]
  BY <1>2, <1>4
<1>15. cost.input = TotalOf(in) /\ cost.output = TotalOf(out) /\ cost.cacheRead = TotalOf(cached)
  <2> HIDE DEF in, out, cached
  <2> QED BY <1>7, <1>8, <1>11, <1>13, <1>14
<1>16. (\A i \in D : u[i].measured) <=> \A x \in U : total[x].measured
  BY <1>2, <1>3, <1>4
<1>17. cost.measured = \A x \in U : total[x].measured
  BY <1>8, <1>11, <1>16
<1>18. unpriced # {} <=> \E x \in U : Stages[r][x] \notin DOMAIN Pricing
  BY <1>2, <1>3
<1>19. ASSUME unpriced = {}
       PROVE  /\ w \in [D -> Nat] /\ v \in [U -> Nat]
              /\ \A i \in D : T!Read(u[i].cacheRead) <= u[i].input => w[i] <= v[tr[i].name]
  <2>1. \A x \in U : Stages[r][x] \in DOMAIN Pricing
    BY <1>18, <1>19
  <2>2. ASSUME NEW x \in U
        PROVE  /\ T!CostOf(total[x], Pricing[Stages[r][x]]) \in Nat /\ v[x] \in Nat
               /\ T!Read(total[x].cacheRead) <= total[x].input => T!CostOf(total[x], Pricing[Stages[r][x]]) <= v[x]
    <3>1. total[x] \in UsageSet
      BY <1>5
    <3>2. Pricing[Stages[r][x]] \in PriceSet /\ Pricing[Stages[r][x]].cacheRead <= Pricing[Stages[r][x]].input
      BY <2>1, Prices
    <3>3. v[x] = total[x].input * Pricing[Stages[r][x]].input + total[x].output * Pricing[Stages[r][x]].output
      OBVIOUS
    <3> HIDE DEF v
    <3> QED BY <3>1, <3>2, <3>3, CostIs
  <2>3. \A i \in D : w[i] = T!CostOf(total[tr[i].name], Pricing[Stages[r][tr[i].name]])
    BY <1>2, <1>4
  <2>4. DOMAIN w = D /\ w = [i \in D |-> w[i]] /\ DOMAIN v = U /\ v = [x \in U |-> v[x]]
    OBVIOUS
  <2> HIDE DEF w, v
  <2>5. w \in [D -> Nat] /\ v \in [U -> Nat]
    BY <1>2, <2>2, <2>3, <2>4
  <2> QED BY <1>2, <1>4, <2>2, <2>3, <2>5
<1>20. unpriced = {} => TotalOf(w) \in Nat
  <2> HIDE DEF w, v, unpriced
  <2> QED BY <1>1, <1>19, UnitsFinite
<1>21. (cost.usd = -1) <=> \E x \in U : Stages[r][x] \notin DOMAIN Pricing
  <2> HIDE DEF w, v, unpriced
  <2> QED BY <1>10, <1>18, <1>20
<1>22. cost.usd # -1 /\ (\A x \in U : T!Read(total[x].cacheRead) <= total[x].input) => cost.usd <= TotalOf(v)
  <2> SUFFICES ASSUME cost.usd # -1, \A x \in U : T!Read(total[x].cacheRead) <= total[x].input
               PROVE  cost.usd <= TotalOf(v)
    OBVIOUS
  <2> DEFINE h == [i \in D |-> v[tr[i].name]]
  <2> HIDE DEF w, v, unpriced
  <2>1. unpriced = {} /\ cost.usd = TotalOf(w)
    BY <1>10
  <2>2. h \in [D -> Nat] /\ \A i \in D : w[i] <= h[i]
    BY <1>2, <1>4, <1>19, <2>1
  <2>3. TotalOf(h) = TotalOf(v)
    BY <1>7, <1>19, <2>1
  <2> HIDE DEF h
  <2>4. TotalOf(w) <= TotalOf(h)
    BY <1>1, <1>19, <2>1, <2>2, TotalLess
  <2> QED BY <2>1, <2>3, <2>4
<1>23. cost.input = TotalOf([i \in D |-> T!UsageOf(tr[i]).input])
  BY <1>8, <1>12
<1> HIDE DEF in, out, cached, v
<1> QED BY <1>15, <1>17, <1>21, <1>22, <1>23 DEF CostExplained, D, U, total, cost, in, out, cached, v

LEMMA BillEnough == TracesInv => T!BillIsHonest
<1> SUFFICES ASSUME TracesInv, NEW r \in Traced, phase[r] # "running"
             PROVE  LET cost == T!buildReport(trace[r]).cost
                        total == [x \in T!Reported(r) |-> T!SumOfUsages(reported[r][x])]
                        price == [x \in T!Reported(r) |-> Pricing[Stages[r][x]]]
                    IN /\ cost.input = T!TotalOf([x \in T!Reported(r) |-> total[x].input])
                       /\ cost.output = T!TotalOf([x \in T!Reported(r) |-> total[x].output])
                       /\ cost.cacheRead = T!TotalOf([x \in T!Reported(r) |-> T!Read(total[x].cacheRead)])
                       /\ cost.measured = \A x \in T!Reported(r) : total[x].measured
                       /\ (cost.usd = T!Absent) <=> \E x \in T!Reported(r) : Stages[r][x] \notin DOMAIN Pricing
                       /\ cost.usd # T!Absent /\ (\A x \in T!Reported(r) : T!Read(total[x].cacheRead) <= total[x].input) =>
                            cost.usd <= T!TotalOf([x \in T!Reported(r) |-> total[x].input * price[x].input
                                                                             + total[x].output * price[x].output])
  BY DEF T!BillIsHonest
<1> DEFINE U == Told(r, reported[r])
           cost == T!computeCost(trace[r])
           total == [x \in U |-> T!SumOfUsages(reported[r][x])]
           price == [x \in U |-> Pricing[Stages[r][x]]]
           v == [x \in U |-> total[x].input * Pricing[Stages[r][x]].input + total[x].output * Pricing[Stages[r][x]].output]
<1>1. T!Reported(r) = U
  BY DEF T!Reported, Told
<1>2. T!buildReport(trace[r]).cost = cost
  BY DEF T!buildReport
<1>3. SpansInv(r, trace[r], reported[r], ticks[r], phase[r])
  BY DEF TracesInv
<1>4. /\ cost.input = TotalOf([x \in U |-> total[x].input]) /\ cost.output = TotalOf([x \in U |-> total[x].output])
      /\ cost.cacheRead = TotalOf([x \in U |-> T!Read(total[x].cacheRead)])
      /\ cost.measured = \A x \in U : total[x].measured
      /\ (cost.usd = -1) <=> \E x \in U : Stages[r][x] \notin DOMAIN Pricing
      /\ cost.usd # -1 /\ (\A x \in U : T!Read(total[x].cacheRead) <= total[x].input) => cost.usd <= TotalOf(v)
  <2>1. CostExplained(r, trace[r], reported[r])
    BY <1>3, CostOfSpans
  <2> QED BY <2>1 DEF CostExplained
<1>5. v = [x \in U |-> total[x].input * price[x].input + total[x].output * price[x].output]
  OBVIOUS
<1>6. T!Absent = -1 /\ \A f : T!TotalOf(f) = TotalOf(f)
  BY TotalSame DEF T!Absent
<1> HIDE DEF U, cost
<1> QED BY <1>1, <1>2, <1>4, <1>5, <1>6

LEMMA BufferEnough == TracesInv => T!BufferIsHonest
<1> SUFFICES ASSUME TracesInv PROVE T!BufferIsHonest
  OBVIOUS
<1>1. BufferInv /\ T!Cardinality(Over) = Cardinality(Over)
  BY TotalSame DEF TracesInv
<1> QED BY <1>1 DEF BufferInv, T!BufferIsHonest, Over

\* What the graph says of one span.
LEMMA OneTally ==
  ASSUME NEW tr, NEW i, T!UsageOf(tr[i]) \in UsageSet
  PROVE  /\ T!Tally(tr, {i}).calls = 1
         /\ T!Tally(tr, {i}).usage.input = T!UsageOf(tr[i]).input
         /\ T!Tally(tr, {i}).errors = IF i \in T!Failed(tr) THEN 1 ELSE 0
<1> DEFINE u == [k \in {i} |-> T!UsageOf(tr[k])]
           n == T!UsageOf(tr[i]).input
<1>1. IsFiniteSet({i}) /\ Cardinality({i}) = 1 /\ Cardinality({}) = 0
  BY FS_Singleton, FS_EmptySet
<1>2. /\ T!Tally(tr, {i}).calls = Cardinality({i})
      /\ T!Tally(tr, {i}).usage = T!SumOfUsages(u)
      /\ T!Tally(tr, {i}).errors = Cardinality({i} \cap T!Failed(tr))
  BY TotalSame DEF T!Tally
<1>3. u \in [{i} -> UsageSet] /\ n \in Nat /\ [k \in {i} |-> u[k].input] = [k \in {i} |-> n]
  BY DEF UsageSet
<1> HIDE DEF u, n
<1>4. T!SumOfUsages(u).input = TotalOf([k \in {i} |-> u[k].input])
  BY <1>1, <1>3, SumType
<1>5. TotalOf([k \in {i} |-> n]) = n
  BY <1>3, OneTotal
<1>6. {i} \cap T!Failed(tr) = IF i \in T!Failed(tr) THEN {i} ELSE {}
  OBVIOUS
<1> QED BY <1>1, <1>2, <1>3, <1>4, <1>5, <1>6 DEF n

NodesAddUp(tr) ==
  LET nodes == T!buildInteractionGraph(tr).nodes
  IN /\ TotalOf([x \in DOMAIN nodes |-> nodes[x].calls]) = Len(tr)
     /\ TotalOf([x \in DOMAIN nodes |-> nodes[x].usage.input]) = T!computeCost(tr).input
     /\ TotalOf([x \in DOMAIN nodes |-> nodes[x].errors]) = Cardinality(T!Failed(tr))

LEMMA Nodes ==
  ASSUME NEW r, NEW tr, NEW rep, NEW now, NEW ph, SpansInv(r, tr, rep, now, ph)
  PROVE  NodesAddUp(tr)
<1> DEFINE n == Len(tr)
           I == 1..n
           D == Charged(tr)
           P == T!Failed(tr)
           N == Names(tr)
           nodes == T!buildInteractionGraph(tr).nodes
           ofCalls == [x \in N |-> nodes[x].calls]
           ofInput == [x \in N |-> nodes[x].usage.input]
           ofErrors == [x \in N |-> nodes[x].errors]
           ones == [i \in I |-> 1]
           inputs == [i \in I |-> T!UsageOf(tr[i]).input]
           costs == [i \in D |-> T!UsageOf(tr[i]).input]
           errors == [i \in I |-> IF i \in P THEN 1 ELSE 0]
<1>1. n \in Nat /\ DOMAIN tr = I /\ IsFiniteSet(I) /\ Cardinality(I) = n
  BY SpanUsage
<1>2. \A i \in I : T!UsageOf(tr[i]) \in UsageSet /\ (i \notin D => T!UsageOf(tr[i]).input = 0)
  BY SpanUsage
<1>3. D \subseteq I
  BY DEF Charged
<1>4. P \subseteq I
  BY <1>1 DEF T!Failed
<1>5. \A i, k \in I : tr[i].name = tr[k].name => i = k
  BY DEF SpansInv
<1>6. N = {tr[i].name : i \in I}
  BY DEF Names
<1>7. \A g \in [N -> Nat] : TotalOf([i \in I |-> g[tr[i].name]]) = TotalOf(g)
  BY NamesTotal
<1>8. nodes = [x \in {tr[i].name : i \in DOMAIN tr} |-> T!Tally(tr, {i \in DOMAIN tr : tr[i].name = x})]
  BY DEF T!buildInteractionGraph
<1>9. T!computeCost(tr).input = TotalOf(costs)
  BY CostOfSpans DEF CostExplained
<1> HIDE DEF n, I, D, P, N, nodes
<1>10. DOMAIN nodes = N /\ \A x \in N : nodes[x] = T!Tally(tr, {i \in I : tr[i].name = x})
  BY <1>1, <1>6, <1>8
<1>11. ASSUME NEW i \in I
       PROVE  /\ tr[i].name \in N /\ ofCalls[tr[i].name] = 1 /\ ofInput[tr[i].name] = T!UsageOf(tr[i]).input
              /\ ofErrors[tr[i].name] = IF i \in P THEN 1 ELSE 0
  <2>1. tr[i].name \in N
    BY <1>6
  <2>2. {k \in I : tr[k].name = tr[i].name} = {i}
    BY <1>5
  <2>3. nodes[tr[i].name] = T!Tally(tr, {i})
    BY <1>10, <2>1, <2>2
  <2>4. /\ T!Tally(tr, {i}).calls = 1
        /\ T!Tally(tr, {i}).usage.input = T!UsageOf(tr[i]).input
        /\ T!Tally(tr, {i}).errors = IF i \in P THEN 1 ELSE 0
    BY <1>2, OneTally DEF P
  <2> QED BY <2>1, <2>3, <2>4
<1>12. \A i \in I : T!UsageOf(tr[i]).input \in Nat
  BY <1>2 DEF UsageSet
<1>13. ofCalls \in [N -> Nat] /\ ofInput \in [N -> Nat] /\ ofErrors \in [N -> Nat]
  <2>1. ASSUME NEW x \in N PROVE ofCalls[x] \in Nat /\ ofInput[x] \in Nat /\ ofErrors[x] \in Nat
    <3>1. PICK i \in I : tr[i].name = x
      BY <1>6
    <3> HIDE DEF ofCalls, ofInput, ofErrors
    <3> QED BY <1>11, <1>12, <3>1
  <2>2. ofCalls = [x \in N |-> ofCalls[x]] /\ ofInput = [x \in N |-> ofInput[x]] /\ ofErrors = [x \in N |-> ofErrors[x]]
    OBVIOUS
  <2> HIDE DEF ofCalls, ofInput, ofErrors
  <2> QED BY <2>1, <2>2
<1>14. ones \in [I -> Nat] /\ inputs \in [I -> Nat] /\ costs \in [D -> Nat] /\ errors \in [I -> Nat]
  BY <1>3, <1>12
<1> HIDE DEF ofCalls, ofInput, ofErrors
<1>15. /\ [i \in I |-> ofCalls[tr[i].name]] = ones /\ [i \in I |-> ofInput[tr[i].name]] = inputs
       /\ [i \in I |-> ofErrors[tr[i].name]] = errors
  BY <1>11
<1>16. TotalOf(ofCalls) = TotalOf(ones) /\ TotalOf(ofInput) = TotalOf(inputs) /\ TotalOf(ofErrors) = TotalOf(errors)
  <2> HIDE DEF ones, inputs, errors
  <2> QED BY <1>7, <1>13, <1>15
<1>17. TotalOf(ones) = n
  <2>1. I \in SUBSET I /\ \A i \in I : ones[i] = IF i \in I THEN 1 ELSE 0
    OBVIOUS
  <2> HIDE DEF ones
  <2> QED BY <1>1, <1>14, <2>1, OnesTotal
<1>18. TotalOf(inputs) = TotalOf(costs)
  <2>1. (\A i \in D : costs[i] = inputs[i]) /\ \A i \in I \ D : inputs[i] = 0
    BY <1>2, <1>3
  <2> HIDE DEF inputs, costs
  <2> QED BY <1>3, <1>14, <2>1, TotalPart
<1>19. TotalOf(errors) = Cardinality(P)
  <2>1. \A i \in I : errors[i] = IF i \in P THEN 1 ELSE 0
    OBVIOUS
  <2>2. IsFiniteSet(P)
    BY <1>1, <1>4, FS_Subset
  <2> HIDE DEF errors
  <2> QED BY <1>4, <1>14, <2>1, <2>2, OnesTotal
<1>20. /\ ofCalls = [x \in DOMAIN nodes |-> nodes[x].calls] /\ ofInput = [x \in DOMAIN nodes |-> nodes[x].usage.input]
       /\ ofErrors = [x \in DOMAIN nodes |-> nodes[x].errors]
  BY <1>10 DEF ofCalls, ofInput, ofErrors
<1> HIDE DEF ones, inputs, errors, costs
<1> QED BY <1>9, <1>16, <1>17, <1>18, <1>19, <1>20 DEF NodesAddUp, n, P, nodes

LEMMA Edges ==
  ASSUME NEW r, NEW tr, NEW rep, NEW now, NEW ph, SpansInv(r, tr, rep, now, ph)
  PROVE  LET edges == T!buildInteractionGraph(tr).edges
         IN TotalOf([e \in DOMAIN edges |-> edges[e].calls]) = Len(tr) - 1
<1> DEFINE n == Len(tr)
           C == 2..n
           Edge(i) == <<tr[tr[i].parent].name, tr[i].name>>
           E == {Edge(i) : i \in C}
           f == [i \in C |-> Edge(i)]
           h == [i \in C |-> 1]
           edges == T!buildInteractionGraph(tr).edges
           g == [e \in E |-> edges[e].calls]
<1>1. n \in Nat /\ DOMAIN tr = 1..n
  BY SpanUsage
<1>2. n >= 1 /\ tr[1].parent = 0
  BY DEF SpansInv
<1>3. \A i \in C : tr[i].parent = 1
  BY DEF SpansInv
<1>4. \A i, k \in 1..n : tr[i].name = tr[k].name => i = k
  BY DEF SpansInv
<1> HIDE DEF n
<1>5. n \in Int /\ 2 \in Int
  BY <1>1
<1>6. IsFiniteSet(C) /\ Cardinality(C) = n - 1
  BY <1>2, <1>5, FS_Interval
<1>7. {i \in DOMAIN tr : tr[i].parent # 0} = C
  <2>1. \A i : i \in 1..n <=> i = 1 \/ i \in C
    BY <1>1, <1>2
  <2> HIDE DEF C
  <2> QED BY <1>1, <1>2, <1>3, <2>1
<1>8. C \subseteq 1..n
  BY <1>1
<1> HIDE DEF C
<1>9. edges = [e \in E |-> T!Tally(tr, {i \in C : Edge(i) = e})]
  BY <1>7 DEF T!buildInteractionGraph
<1>10. \A i, k \in C : Edge(i) = Edge(k) => i = k
  BY <1>4, <1>8
<1>11. f \in [C -> E] /\ (\A i, k \in C : f[i] = f[k] => i = k) /\ (\A e \in E : \E i \in C : f[i] = e)
  BY <1>10
<1>12. DOMAIN edges = E
  BY <1>9
<1> HIDE DEF edges
<1>13. ASSUME NEW i \in C PROVE g[f[i]] = 1
  <2>1. f[i] \in E /\ f[i] = Edge(i)
    OBVIOUS
  <2>2. {k \in C : Edge(k) = f[i]} = {i}
    BY <1>10, <2>1
  <2>3. edges[f[i]] = T!Tally(tr, {i})
    BY <1>9, <2>1, <2>2
  <2>4. T!UsageOf(tr[i]) \in UsageSet
    BY <1>8, SpanUsage DEF n
  <2>5. T!Tally(tr, {i}).calls = 1
    BY <2>4, OneTally
  <2> QED BY <2>1, <2>3, <2>5
<1>14. g \in [E -> Nat]
  <2>1. ASSUME NEW e \in E PROVE g[e] \in Nat
    <3> HIDE DEF f, g
    <3>1. PICK i \in C : f[i] = e
      BY <1>11
    <3>2. g[f[i]] = 1
      BY <1>13
    <3> QED BY <3>1, <3>2
  <2>2. g = [e \in E |-> g[e]]
    OBVIOUS
  <2> HIDE DEF g
  <2> QED BY <2>1, <2>2
<1>15. h \in [C -> Nat] /\ (\A i \in C : h[i] = g[f[i]]) /\ (\A i \in C : h[i] = IF i \in C THEN 1 ELSE 0)
  BY <1>13
<1>16. g = [e \in DOMAIN edges |-> edges[e].calls]
  BY <1>12
<1> HIDE DEF E, f, g, h
<1>17. TotalOf(h) = TotalOf(g)
  BY <1>6, <1>11, <1>14, <1>15, TotalRenamed
<1>18. TotalOf(h) = Cardinality(C)
  BY <1>6, <1>15, OnesTotal
<1> QED BY <1>6, <1>16, <1>17, <1>18 DEF n, edges

LEMMA ReportEnough == TracesInv => T!ReportAddsUp
<1> SUFFICES ASSUME TracesInv, NEW r \in Traced, phase[r] # "running"
             PROVE  LET report == T!buildReport(trace[r])
                        nodes == report.interactions.nodes
                        edges == report.interactions.edges
                    IN /\ report.complete
                       /\ \A i \in DOMAIN report.spans :
                            /\ report.spans[i].start <= report.spans[i].end
                            /\ report.spans[i].end <= report.spans[1].start + report.duration
                       /\ T!TotalOf([n \in DOMAIN nodes |-> nodes[n].calls]) = Len(report.spans)
                       /\ T!TotalOf([e \in DOMAIN edges |-> edges[e].calls]) = Len(report.spans) - 1
                       /\ T!TotalOf([n \in DOMAIN nodes |-> nodes[n].usage.input]) = report.cost.input
                       /\ T!TotalOf([n \in DOMAIN nodes |-> nodes[n].errors]) = report.errors
  BY DEF T!ReportAddsUp
<1> DEFINE tr == trace[r]
           now == ticks[r]
           report == T!buildReport(tr)
           graph == T!buildInteractionGraph(tr)
<1>1. SpansInv(r, tr, reported[r], now, phase[r])
  BY DEF TracesInv
<1>2. /\ report.spans = tr /\ report.duration = tr[1].end - tr[1].start /\ report.cost = T!computeCost(tr)
      /\ report.interactions = graph /\ report.errors = T!Cardinality(T!Failed(tr))
      /\ report.complete = \A i \in DOMAIN tr : tr[i].end # -1
  BY DEF T!buildReport, T!Absent
<1>3. NodesAddUp(tr)
  BY <1>1, Nodes
<1>4. TotalOf([e \in DOMAIN graph.edges |-> graph.edges[e].calls]) = Len(tr) - 1
  BY <1>1, Edges
<1>5. (\A f : T!TotalOf(f) = TotalOf(f)) /\ T!Cardinality(T!Failed(tr)) = Cardinality(T!Failed(tr))
  BY TotalSame
<1>6. DOMAIN tr = 1..Len(tr)
  BY <1>1, SpanUsage
<1>7. /\ now \in Nat /\ tr[1].start = 0 /\ tr[1].end = now
      /\ \A i \in 1..Len(tr) : tr[i].end # -1 /\ tr[i].start <= tr[i].end /\ tr[i].end <= now
  BY <1>1 DEF SpansInv
<1> HIDE DEF tr, report, graph
<1>8. report.spans[1].start + report.duration = now
  <2>1. tr[1].start + (tr[1].end - tr[1].start) = now
    BY <1>7
  <2> QED BY <1>2, <2>1
<1>9. report.complete /\ \A i \in DOMAIN report.spans :
                            /\ report.spans[i].start <= report.spans[i].end
                            /\ report.spans[i].end <= report.spans[1].start + report.duration
  BY <1>2, <1>6, <1>7, <1>8
<1>10. /\ T!TotalOf([n \in DOMAIN graph.nodes |-> graph.nodes[n].calls]) = Len(tr)
       /\ T!TotalOf([n \in DOMAIN graph.nodes |-> graph.nodes[n].usage.input]) = report.cost.input
       /\ T!TotalOf([n \in DOMAIN graph.nodes |-> graph.nodes[n].errors]) = report.errors
       /\ T!TotalOf([e \in DOMAIN graph.edges |-> graph.edges[e].calls]) = Len(tr) - 1
  BY <1>2, <1>3, <1>4, <1>5 DEF NodesAddUp, graph
<1> QED BY <1>2, <1>9, <1>10 DEF tr, report

LEMMA TracesEnough == TracesInv => T!TraceIsHonest
  BY BillEnough, ReportEnough, BufferEnough DEF T!TraceIsHonest

\* What is kept is what was meant to be, and is served for what it is
\* (StoresAreHonest): the split of a result and what a reader gets of it
\* (resultStore.ts), a repository's history and its differences
\* (sessionMemory.ts), the bill and the report of a run (tracer.ts,
\* memoryExporter.ts), and a job's record (jobs.ts), for any results, limits,
\* histories, runs, prices and requests.
THEOREM StoresHonest == StoresSpec => []StoresAreHonest
<1> DEFINE Inv == ResultsInv /\ SnapshotsInv /\ TracesInv /\ RecordsInv
<1>1. StoresInit => Inv
  BY ResultsStart, SnapshotsStart, TracesStart, RecordsStart DEF StoresInit
<1>2. Inv /\ [StoresNext]_<<part, vars, s, m, t, j>> => Inv'
  <2> SUFFICES ASSUME Inv, [StoresNext]_<<part, vars, s, m, t, j>> PROVE Inv'
    OBVIOUS
  <2>1. [R!Next]_(R!storeVars)
    BY DEF StoresNext, s, R!storeVars
  <2>2. [M!Next]_(M!memoryVars)
    BY DEF StoresNext, m, M!memoryVars
  <2>3. [T!Next]_(T!traceVars)
    BY DEF StoresNext, t, T!traceVars
  <2>4. [J!Next]_(J!recordVars)
    BY DEF StoresNext, j, J!recordVars
  <2> QED BY <2>1, <2>2, <2>3, <2>4, ResultsStep, SnapshotsStep, TracesStep, RecordsStep
<1>3. Inv => StoresAreHonest
  BY ResultsEnough, SnapshotsEnough, TracesEnough, RecordsEnough DEF StoresAreHonest
<1> QED BY <1>1, <1>2, <1>3, PTL DEF StoresSpec
=============================================================================
