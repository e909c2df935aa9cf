---------------------------- MODULE FanOutProofs ----------------------------
(***************************************************************************)
(* What the agents' stage reports and what it costs, for any communities,  *)
(* lenses, caps and numbers of runners, and calls that fail at any time:   *)
(* ReportsAreTrue, SpendIsExplained and ExhaustedStops.                    *)
(***************************************************************************)
EXTENDS FanOut, FiniteSetTheorems, WellFoundedInduction, TLAPS

(***************************************************************************)
(* Orders.  The place of an element is the number of those before it.      *)
(***************************************************************************)

StrictOrder(S, Before) ==
  /\ \A x \in S : <<x, x>> \notin Before
  /\ \A x, y \in S : x # y => <<x, y>> \in Before \/ <<y, x>> \in Before
  /\ \A x, y, z \in S : <<x, y>> \in Before /\ <<y, z>> \in Before => <<x, z>> \in Before

\* Fewer are before an element than before a later one.
LEMMA FewerBefore ==
  ASSUME NEW S, IsFiniteSet(S), NEW Before, StrictOrder(S, Before),
         NEW x \in S, NEW y \in S, <<x, y>> \in Before
  PROVE  /\ Cardinality({z \in S : <<z, x>> \in Before}) \in Nat
         /\ Cardinality({z \in S : <<z, y>> \in Before}) \in 1..(Cardinality(S) - 1)
         /\ Cardinality({z \in S : <<z, x>> \in Before}) < Cardinality({z \in S : <<z, y>> \in Before})
<1> DEFINE U(e) == {z \in S : <<z, e>> \in Before}
<1>1. U(x) \subseteq U(y) /\ x \in U(y) /\ x \notin U(x) /\ y \notin U(y)
  BY DEF StrictOrder
<1>2. IsFiniteSet(U(x)) /\ IsFiniteSet(U(y))
  BY FS_Subset
<1>3. Cardinality(U(x)) \in Nat /\ Cardinality(U(y)) \in Nat /\ Cardinality(S) \in Nat
  BY <1>2, FS_CardinalityType
<1>4. Cardinality(U(x)) <= Cardinality(U(y)) /\ Cardinality(U(x)) # Cardinality(U(y))
  BY <1>1, <1>2, FS_Subset
<1>5. Cardinality(U(y)) <= Cardinality(S) /\ Cardinality(U(y)) # Cardinality(S)
  BY <1>1, FS_Subset
<1> QED BY <1>3, <1>4, <1>5

\* The elements of S by their places.
ByPlace(S, Before) ==
  [i \in 1..Cardinality(S) |->
     CHOOSE e \in S : Cardinality({z \in S : <<z, e>> \in Before}) = i - 1]

\* Every element of a finite set has a place of its own, and every place one.
LEMMA Placed ==
  ASSUME NEW S, IsFiniteSet(S), NEW Before, StrictOrder(S, Before)
  PROVE  /\ ByPlace(S, Before) \in [1..Cardinality(S) -> S]
         /\ \A i, k \in 1..Cardinality(S) : i < k =>
              <<ByPlace(S, Before)[i], ByPlace(S, Before)[k]>> \in Before
<1> DEFINE n == Cardinality(S)
           Below(e) == Cardinality({z \in S : <<z, e>> \in Before})
           place == [e \in S |-> Below(e) + 1]
           list == [i \in 1..n |-> CHOOSE e \in S : Below(e) = i - 1]
<1>1. n \in Nat /\ IsFiniteSet(1..n) /\ Cardinality(1..n) = n
  BY FS_CardinalityType, FS_Interval
<1>2. ASSUME NEW e \in S PROVE Below(e) \in 0..(n - 1)
  <2> DEFINE B == {z \in S : <<z, e>> \in Before}
  <2>2. B \in SUBSET S /\ B # S
    BY DEF StrictOrder
  <2>3. IsFiniteSet(B) /\ Cardinality(B) <= n /\ Cardinality(B) # n
    <3> HIDE DEF B
    <3> QED BY <2>2, FS_Subset
  <2>4. Cardinality(B) \in Nat
    <3> HIDE DEF B
    <3> QED BY <2>3, FS_CardinalityType
  <2> QED BY <2>3, <2>4, <1>1
<1>3. \A x, y \in S : <<x, y>> \in Before => Below(x) < Below(y)
  BY FewerBefore
<1>4. \A x, y \in S : x # y => Below(x) # Below(y)
  <2> SUFFICES ASSUME NEW x \in S, NEW y \in S, x # y PROVE Below(x) # Below(y)
    OBVIOUS
  <2> HIDE DEF Below
  <2>1. <<x, y>> \in Before \/ <<y, x>> \in Before
    BY DEF StrictOrder
  <2>2. Below(x) \in Int /\ Below(y) \in Int
    BY <1>2, <1>1
  <2>3. (<<x, y>> \in Before => Below(x) < Below(y)) /\ (<<y, x>> \in Before => Below(y) < Below(x))
    BY <1>3
  <2> QED BY <2>1, <2>2, <2>3
<1> HIDE DEF Below
<1>5. place \in [S -> 1..n]
  BY <1>1, <1>2
<1>6. place \in Injection(S, 1..n)
  <2>1. \A x, y \in S : x # y => place[x] # place[y]
    BY <1>1, <1>2, <1>4
  <2> QED BY <1>5, <2>1 DEF Injection, IsInjective
<1>7. place \in Surjection(S, 1..n)
  BY <1>1, <1>6, FS_Injection
<1>8. \A i \in 1..n : \E e \in S : Below(e) = i - 1
  <2> SUFFICES ASSUME NEW i \in 1..n PROVE \E e \in S : Below(e) = i - 1
    OBVIOUS
  <2>1. PICK e \in S : place[e] = i
    BY <1>7 DEF Surjection
  <2> QED BY <2>1, <1>1, <1>2
<1>10. \A i \in 1..n : list[i] \in S /\ Below(list[i]) = i - 1
  BY <1>8
<1>11. list \in [1..n -> S]
  BY <1>10
<1>13. ASSUME NEW i \in 1..n, NEW k \in 1..n, i < k PROVE <<list[i], list[k]>> \in Before
  <2>1. list[i] \in S /\ list[k] \in S /\ Below(list[i]) = i - 1 /\ Below(list[k]) = k - 1
    BY <1>10
  <2>2. i - 1 < k - 1 /\ i - 1 # k - 1 /\ ~(k - 1 < i - 1)
    BY <1>1, <1>13
  <2>3. list[i] # list[k] /\ ~(Below(list[k]) < Below(list[i]))
    BY <2>1, <2>2
  <2> QED BY <2>1, <2>3, <1>3 DEF StrictOrder
<1> HIDE DEF list
<1>14. list = ByPlace(S, Before)
  BY DEF list, Below, ByPlace
<1> QED BY <1>11, <1>13, <1>14

\* A sequence in a strict order has every element once.
InSequence(s, S, Before) ==
  /\ s \in [1..Cardinality(S) -> S]
  /\ \A i, k \in 1..Cardinality(S) : i < k => <<s[i], s[k]>> \in Before

LEMMA SortedIsOnce ==
  ASSUME NEW S, IsFiniteSet(S), NEW Before, StrictOrder(S, Before),
         NEW s, InSequence(s, S, Before)
  PROVE  /\ \A e \in S : \E i \in 1..Cardinality(S) : s[i] = e
         /\ \A i, k \in 1..Cardinality(S) : s[i] = s[k] => i = k
<1> DEFINE n == Cardinality(S)
<1>0. s \in [1..n -> S] /\ \A i, k \in 1..n : i < k => <<s[i], s[k]>> \in Before
  BY DEF InSequence
<1>1. n \in Nat /\ IsFiniteSet(1..n) /\ Cardinality(1..n) = n
  BY FS_CardinalityType, FS_Interval
<1>2. ASSUME NEW i \in 1..n, NEW k \in 1..n, s[i] = s[k] PROVE i = k
  <2>1. s[i] \in S /\ <<s[i], s[i]>> \notin Before /\ <<s[i], s[k]>> \notin Before /\ <<s[k], s[i]>> \notin Before
    BY <1>0, <1>2 DEF StrictOrder
  <2>2. ~(i < k) /\ ~(k < i)
    BY <1>0, <2>1
  <2> QED BY <2>2, <1>1
<1>3. s \in Surjection(1..n, S)
  <2>1. s \in Injection(1..n, S)
    BY <1>0, <1>2 DEF Injection, IsInjective
  <2> QED BY <2>1, <1>1, FS_Injection
<1>4. \A e \in S : \E i \in 1..n : s[i] = e
  BY <1>3 DEF Surjection
<1> QED BY <1>2, <1>4

\* A finite set has a sequence in any strict order of its elements.
LEMMA Ordered ==
  ASSUME NEW S, IsFiniteSet(S), NEW Before, StrictOrder(S, Before)
  PROVE  /\ InOrder(S, Before) \in [1..Cardinality(S) -> S]
         /\ \A e \in S : \E i \in 1..Cardinality(S) : InOrder(S, Before)[i] = e
         /\ \A i, k \in 1..Cardinality(S) : InOrder(S, Before)[i] = InOrder(S, Before)[k] => i = k
<1> DEFINE n == Cardinality(S)
           res == InOrder(S, Before)
<1>1. \E s \in [1..n -> S] : \A i, k \in 1..n : i < k => <<s[i], s[k]>> \in Before
  <2>1. /\ ByPlace(S, Before) \in [1..n -> S]
        /\ \A i, k \in 1..n : i < k => <<ByPlace(S, Before)[i], ByPlace(S, Before)[k]>> \in Before
    BY Placed
  <2> QED BY <2>1
<1>2. res \in [1..n -> S] /\ \A i, k \in 1..n : i < k => <<res[i], res[k]>> \in Before
  BY <1>1 DEF InOrder
<1> HIDE DEF res
<1>3. (\A e \in S : \E i \in 1..n : res[i] = e) /\ \A i, k \in 1..n : res[i] = res[k] => i = k
  <2>1. InSequence(res, S, Before)
    BY <1>2 DEF InSequence
  <2> QED BY <2>1, SortedIsOnce
<1> QED BY <1>2, <1>3 DEF res

\* A finite set of numbers has a greatest element.
LEMMA HasGreatest ==
  ASSUME NEW n \in Nat, NEW S \in SUBSET (1..n), S # {}
  PROVE  Max(S) \in S /\ \A x \in S : x <= Max(S)
<1> DEFINE T == {n - x : x \in S}
<1>1. T \subseteq Nat /\ T # {}
  <2>1. \A x \in S : n - x \in Nat
    OBVIOUS
  <2> QED BY <2>1
<1>2. PICK z \in T : \A y \in T : ~(<<y, z>> \in OpToRel(<, Nat))
  <2> HIDE DEF T
  <2> QED BY <1>1, WFMin, NatLessThanWellFounded
<1>3. PICK x \in S : z = n - x
  BY <1>2
<1>4. ASSUME NEW y \in S PROVE x >= y
  <2>1. n - y \in Nat /\ n - x \in Nat /\ n - y \in T
    BY <1>4
  <2>2. ~(n - y < n - x)
    BY <2>1, <1>2, <1>3 DEF OpToRel
  <2> QED BY <2>2, <1>4
<1>5. \E w \in S : \A y \in S : w >= y
  BY <1>4
<1>6. Max(S) \in S /\ \A y \in S : Max(S) >= y
  BY <1>5 DEF Max
<1> QED BY <1>6

(***************************************************************************)
(* Routing                                                                 *)
(***************************************************************************)

LEMMA HarderOrders == StrictOrder(Communities, Harder)
<1>1. Communities \subseteq Int /\ \A c \in Communities : Complexity[c] \in Int
  BY FanOutAssumption
<1>2. ASSUME NEW x \in Communities, NEW y \in Communities
      PROVE  <<x, y>> \in Harder <=> \/ Complexity[x] > Complexity[y]
                                     \/ Complexity[x] = Complexity[y] /\ x < y
  BY DEF Harder
<1>3. \A x \in Communities : <<x, x>> \notin Harder
  BY <1>1, <1>2
<1>4. \A x, y \in Communities : x # y => <<x, y>> \in Harder \/ <<y, x>> \in Harder
  BY <1>1, <1>2
<1>5. \A x, y, z \in Communities : <<x, y>> \in Harder /\ <<y, z>> \in Harder => <<x, z>> \in Harder
  BY <1>1, <1>2
<1> QED BY <1>3, <1>4, <1>5 DEF StrictOrder

LEMMA JobsFinite == IsFiniteSet(JobSet) /\ IsFiniteSet(Selected) /\ Selected \subseteq Communities
<1>1. Selected \subseteq Communities /\ IsFiniteSet(Selected)
  BY FanOutAssumption, FS_Subset DEF Selected
<1>2. IsFiniteSet(Selected \X Lenses)
  BY <1>1, FanOutAssumption, FS_Product
<1> DEFINE f == [p \in Selected \X Lenses |-> [cluster |-> p[1], lens |-> p[2], samples |-> SamplesOf(p[1])]]
<1>3. f \in Surjection(Selected \X Lenses, JobSet)
  BY DEF Surjection, JobSet
<1> HIDE DEF f
<1> QED BY <1>1, <1>2, <1>3, FS_Surjection

LEMMA JobFields ==
  ASSUME NEW e \in JobSet
  PROVE  /\ e.cluster \in Selected /\ e.lens \in Lenses /\ e.samples = SamplesOf(e.cluster)
         /\ e.samples \in 1..Samples
         /\ \A d \in JobSet : d.cluster = e.cluster /\ d.lens = e.lens => d = e
<1>1. PICK p \in Selected \X Lenses : e = [cluster |-> p[1], lens |-> p[2], samples |-> SamplesOf(p[1])]
  BY DEF JobSet
<1>2. e.cluster = p[1] /\ e.lens = p[2] /\ e.samples = SamplesOf(p[1])
  BY <1>1
<1>3. e.samples \in 1..Samples
  BY <1>2, FanOutAssumption DEF SamplesOf
<1>4. ASSUME NEW d \in JobSet, d.cluster = e.cluster, d.lens = e.lens PROVE d = e
  <2>1. PICK q \in Selected \X Lenses : d = [cluster |-> q[1], lens |-> q[2], samples |-> SamplesOf(q[1])]
    BY DEF JobSet
  <2> QED BY <1>1, <1>4, <2>1
<1> QED BY <1>2, <1>3, <1>4

LEMMA SoonerOrders == StrictOrder(JobSet, Sooner)
<1>1. Lenses \subseteq Int
  BY FanOutAssumption
<1>2. ASSUME NEW x \in JobSet, NEW y \in JobSet
      PROVE  <<x, y>> \in Sooner <=> \/ <<x.cluster, y.cluster>> \in Harder
                                     \/ x.cluster = y.cluster /\ x.lens < y.lens
  BY DEF Sooner
<1>3. \A x \in JobSet : x.cluster \in Communities /\ x.lens \in Int
  BY <1>1, JobFields, JobsFinite
<1>4. ASSUME NEW x \in JobSet PROVE <<x, x>> \notin Sooner
  <2>1. <<x.cluster, x.cluster>> \notin Harder
    BY <1>3, HarderOrders DEF StrictOrder
  <2>2. ~(x.lens < x.lens)
    BY <1>3
  <2> QED BY <1>2, <2>1, <2>2
<1>5. \A x, y \in JobSet : x # y => <<x, y>> \in Sooner \/ <<y, x>> \in Sooner
  <2> SUFFICES ASSUME NEW x \in JobSet, NEW y \in JobSet, x # y PROVE <<x, y>> \in Sooner \/ <<y, x>> \in Sooner
    OBVIOUS
  <2>1. CASE x.cluster = y.cluster
    <3>1. x.lens # y.lens
      BY <2>1, JobFields
    <3>2. x.lens < y.lens \/ y.lens < x.lens
      BY <3>1, <1>3
    <3> QED BY <1>2, <2>1, <3>2
  <2>2. CASE x.cluster # y.cluster
    BY <1>2, <1>3, <2>2, HarderOrders DEF StrictOrder
  <2> QED BY <2>1, <2>2
<1>6. \A x, y, z \in JobSet : <<x, y>> \in Sooner /\ <<y, z>> \in Sooner => <<x, z>> \in Sooner
  <2> SUFFICES ASSUME NEW x \in JobSet, NEW y \in JobSet, NEW z \in JobSet,
                      <<x, y>> \in Sooner, <<y, z>> \in Sooner
               PROVE  <<x, z>> \in Sooner
    OBVIOUS
  <2>1. /\ <<x.cluster, y.cluster>> \in Harder \/ (x.cluster = y.cluster /\ x.lens < y.lens)
        /\ <<y.cluster, z.cluster>> \in Harder \/ (y.cluster = z.cluster /\ y.lens < z.lens)
    BY <1>2
  <2>2. <<x.cluster, z.cluster>> \in Harder \/ (x.cluster = z.cluster /\ x.lens < z.lens)
    BY <1>3, <2>1, HarderOrders DEF StrictOrder
  <2> QED BY <1>2, <2>2
<1> QED BY <1>4, <1>5, <1>6 DEF StrictOrder

\* The jobs are one for each lens of each selected community.
LEMMA JobsAre ==
  /\ Len(Jobs) = Cardinality(JobSet) /\ Len(Jobs) \in Nat
  /\ Jobs \in [1..Len(Jobs) -> JobSet]
  /\ \A e \in JobSet : \E i \in 1..Len(Jobs) : Jobs[i] = e
  /\ \A i, k \in 1..Len(Jobs) : Jobs[i] = Jobs[k] => i = k
<1> DEFINE n == Cardinality(JobSet)
<1>1. n \in Nat
  BY JobsFinite, FS_CardinalityType
<1>2. /\ Jobs \in [1..n -> JobSet]
      /\ \A e \in JobSet : \E i \in 1..n : Jobs[i] = e
      /\ \A i, k \in 1..n : Jobs[i] = Jobs[k] => i = k
  BY JobsFinite, SoonerOrders, Ordered DEF Jobs
<1>3. Len(Jobs) = n
  BY <1>1, <1>2
<1> QED BY <1>1, <1>2, <1>3

----------------------------------------------------------------------------

RunnerPc == {"free", "check", "call", "record"}

\* A runner that is not free has a job, and asks for one of its samples.
RunnerShape(x) ==
  /\ DOMAIN x = {"pc", "job", "sample", "got"} /\ x.pc \in RunnerPc /\ x.got \subseteq 1..MaxScore
  /\ x.pc # "free" => x.job \in 1..Len(Jobs)
  /\ x.pc \in {"free", "check"} => x.sample = 0 /\ x.got = {}
  /\ x.pc \in {"call", "record"} => x.sample \in 1..Jobs[x.job].samples

Ready == {"start", "open"}
Concluding == {"gate", "supervise", "derive", "conclude"}
OfJob(x) == [cluster |-> x.cluster, lens |-> x.lens]
Begun == {runner[r].job : r \in Busy}
Finished == (1..cursor) \ Begun

EntrySet ==
  [cluster : Communities, lens : Lenses, status : Statuses, score : Int, got : SUBSET (1..MaxScore)]

StageInv ==
  /\ pc \in Ready \cup {"pool", "ended"} \cup Concluding
  /\ cursor \in 0..Len(Jobs) /\ exhausted \in BOOLEAN
  /\ DOMAIN runner = Runners /\ \A r \in Runners : RunnerShape(runner[r])
  /\ pc # "pool" => Busy = {}
  /\ pc \in Ready => cursor = 0
  /\ cached \in {"none", "supervisor"} /\ outcome \in {"", "supervisor", "fallback"}
  /\ pc \in {"supervise", "derive"} => ~exhausted
  /\ spent \in Nat /\ billed \in Nat /\ unheard \in Nat /\ runs \in Nat

\* Of the jobs that were taken, each is begun by one runner or reported once.
TakenInv ==
  /\ \A r \in Busy : runner[r].job <= cursor
  /\ \A r, q \in Busy : runner[r].job = runner[q].job => r = q
  /\ entries \in Seq(EntrySet)
  /\ {OfJob(entries[i]) : i \in DOMAIN entries} = {OfJob(Jobs[k]) : k \in Finished}
  /\ \A i, k \in DOMAIN entries : OfJob(entries[i]) = OfJob(entries[k]) => i = k

BoardInv ==
  /\ pc \in Ready => board.versions = <<>>
  /\ pc = "pool" => board.versions = << <<>> >>
  /\ pc \in Concluding => board.versions # <<>>

ReportInv == StageInv /\ TakenInv /\ BoardInv /\ EveryLensReports /\ BestIsKept /\ DegradedIsNotFrozen

(***************************************************************************)
(* Money.  A sample that a runner has not yet put behind it is owed; a     *)
(* taken job's other samples are settled.                                  *)
(***************************************************************************)

Settled ==
  {p \in (1..cursor) \X (1..Samples) :
     /\ p[2] <= Jobs[p[1]].samples
     /\ \A r \in Busy : runner[r].job = p[1] => p[2] < runner[r].sample}
First == {p \in Settled : p[2] = 1}
Extra == {p \in Settled : p[2] # 1}

Paying == {r \in Runners : runner[r].pc = "record"}
Owed ==
  {p \in Runners \X (1..Samples) :
     /\ runner[p[1]].pc \in {"call", "record"}
     /\ p[2] \in runner[p[1]].sample .. Jobs[runner[p[1]].job].samples}
Ceiling == IF Limit = 0 THEN 0 ELSE Limit - 1 + Max({1, Cardinality(Runners) * Samples})

TallyInv ==
  /\ DOMAIN tally = {"usage", "calls", "extra"}
  /\ tally.usage \in Nat /\ tally.calls \in Nat /\ tally.extra \in Nat
  /\ tally.calls - tally.extra <= Cardinality(First)
  /\ tally.extra <= Cardinality(Extra)
  /\ pc \in Ready \cup {"pool", "gate", "supervise"} => tally.usage = tally.calls + Cardinality(Paying)
  /\ pc \in {"derive", "conclude", "ended"} => tally.usage - tally.calls \in 0..1

\* What the provider charged for the replies that the stage heard.
Heard == billed - unheard

PaidInv ==
  "budget" \notin Faults =>
    /\ Heard = spent + Cardinality(Paying) + (IF pc = "derive" THEN 1 ELSE 0)
    /\ spent + Cardinality(Owed) <= Ceiling
    /\ pc \in {"supervise", "derive"} => spent + 1 <= Limit

FanInv == ReportInv /\ TallyInv /\ PaidInv

----------------------------------------------------------------------------
(* Steps of a runner                                                        *)

\* A step of one runner is no step of another.
LEMMA RunnerMoves ==
  ASSUME StageInv, NEW r \in Runners, NEW e, RunnerShape(e), runner' = [runner EXCEPT ![r] = e]
  PROVE  /\ DOMAIN runner' = Runners /\ runner'[r] = e
         /\ \A q \in Runners : q # r => runner'[q] = runner[q]
         /\ \A q \in Runners : RunnerShape(runner'[q])
BY DEF StageInv

LEMMA FreeShape == RunnerShape(Free) /\ Free.pc = "free"
BY DEF RunnerShape, Free, RunnerPc

\* A job is known by its community and its lens.
LEMMA JobsDiffer ==
  ASSUME NEW k \in 1..Len(Jobs)
  PROVE  /\ Jobs[k] \in JobSet /\ Jobs[k].cluster \in Communities /\ Jobs[k].cluster \in Selected
         /\ Jobs[k].lens \in Lenses /\ Jobs[k].samples \in 1..Samples
         /\ \A m \in 1..Len(Jobs) : OfJob(Jobs[m]) = OfJob(Jobs[k]) => m = k
<1>1. Jobs[k] \in JobSet
  BY JobsAre
<1>2. ASSUME NEW m \in 1..Len(Jobs), OfJob(Jobs[m]) = OfJob(Jobs[k]) PROVE m = k
  <2>1. Jobs[m] \in JobSet
    BY JobsAre
  <2>2. Jobs[m].cluster = Jobs[k].cluster /\ Jobs[m].lens = Jobs[k].lens
    BY <1>2 DEF OfJob
  <2>3. Jobs[m] = Jobs[k]
    BY <1>1, <2>1, <2>2, JobFields
  <2> QED BY <2>3, JobsAre
<1> QED BY <1>1, <1>2, JobFields, JobsFinite

\* A report more is about one job more.
LEMMA OneMoreReport ==
  ASSUME TakenInv, NEW k \in 1..Len(Jobs), k \notin Finished, Finished \subseteq 1..Len(Jobs),
         NEW entry \in EntrySet, OfJob(entry) = OfJob(Jobs[k]),
         entries' = Append(entries, entry), Finished' = Finished \cup {k}
  PROVE  /\ entries' \in Seq(EntrySet)
         /\ {OfJob(entries'[i]) : i \in DOMAIN entries'} = {OfJob(Jobs[p]) : p \in Finished'}
         /\ \A i, p \in DOMAIN entries' : OfJob(entries'[i]) = OfJob(entries'[p]) => i = p
<1> DEFINE n == Len(entries)
<1>1. /\ entries \in Seq(EntrySet) /\ n \in Nat /\ DOMAIN entries = 1..n
      /\ {OfJob(entries[i]) : i \in DOMAIN entries} = {OfJob(Jobs[p]) : p \in Finished}
      /\ \A i, p \in DOMAIN entries : OfJob(entries[i]) = OfJob(entries[p]) => i = p
  <2>1. entries \in Seq(EntrySet)
    BY DEF TakenInv
  <2>2. n \in Nat /\ DOMAIN entries = 1..n
    BY <2>1
  <2> HIDE DEF n
  <2> QED BY <2>1, <2>2 DEF TakenInv
<1>2. /\ entries' \in Seq(EntrySet) /\ DOMAIN entries' = 1..(n + 1) /\ entries'[n + 1] = entry
      /\ \A i \in 1..n : entries'[i] = entries[i]
  BY <1>1
<1>3. {OfJob(entries'[i]) : i \in DOMAIN entries'} = {OfJob(entries[i]) : i \in DOMAIN entries} \cup {OfJob(entry)}
  <2>1. DOMAIN entries' = DOMAIN entries \cup {n + 1}
    BY <1>1, <1>2
  <2> QED BY <1>1, <1>2, <2>1
<1>4. {OfJob(Jobs[p]) : p \in Finished'} = {OfJob(Jobs[p]) : p \in Finished} \cup {OfJob(Jobs[k])}
  OBVIOUS
<1>5. ASSUME NEW i \in 1..n PROVE OfJob(entries[i]) # OfJob(entry)
  <2>1. PICK p \in Finished : OfJob(entries[i]) = OfJob(Jobs[p])
    <3>1. i \in DOMAIN entries
      BY <1>1
    <3>2. OfJob(entries[i]) \in {OfJob(Jobs[p]) : p \in Finished}
      BY <1>1, <3>1
    <3> QED BY <3>2
  <2>2. p # k /\ p \in 1..Len(Jobs)
    BY <2>1
  <2> QED BY <2>1, <2>2, JobsDiffer
<1>6. ASSUME NEW i \in 1..(n + 1), NEW p \in 1..(n + 1), OfJob(entries'[i]) = OfJob(entries'[p]) PROVE i = p
  <2>1. CASE i = n + 1 /\ p = n + 1
    BY <2>1
  <2>2. CASE i # n + 1 /\ p # n + 1
    BY <1>1, <1>2, <1>6, <2>2
  <2>3. CASE i # n + 1 /\ p = n + 1
    BY <1>1, <1>2, <1>5, <1>6, <2>3
  <2>4. CASE i = n + 1 /\ p # n + 1
    BY <1>1, <1>2, <1>5, <1>6, <2>4
  <2> QED BY <2>1, <2>2, <2>3, <2>4
<1>7. {OfJob(entries'[i]) : i \in DOMAIN entries'} = {OfJob(Jobs[p]) : p \in Finished'}
  BY <1>1, <1>3, <1>4
<1> HIDE DEF n
<1> QED BY <1>2, <1>6, <1>7

\* The best of the samples is what an entry of a job that has any reports.
LEMMA EntryIs ==
  ASSUME NEW k \in 1..Len(Jobs), NEW status \in Statuses, NEW got \in SUBSET (1..MaxScore),
         status = "ok" <=> got # {}
  PROVE  /\ Entry(Jobs[k], status, got) \in EntrySet
         /\ OfJob(Entry(Jobs[k], status, got)) = OfJob(Jobs[k])
         /\ Entry(Jobs[k], status, got).got # {} =>
              /\ Entry(Jobs[k], status, got).status = "ok"
              /\ \A z \in Entry(Jobs[k], status, got).got : z <= Entry(Jobs[k], status, got).score
<1> DEFINE score == IF status = "ok" THEN Max(got) ELSE 0
           x == [cluster |-> Jobs[k].cluster, lens |-> Jobs[k].lens, status |-> status, score |-> score, got |-> got]
<1>1. Entry(Jobs[k], status, got) = x
  BY DEF Entry
<1>2. MaxScore \in Nat
  BY FanOutAssumption
<1>3. got # {} => Max(got) \in got /\ \A z \in got : z <= Max(got)
  BY <1>2, HasGreatest
<1>4. score \in Int /\ (got # {} => \A z \in got : z <= score)
  <2>1. CASE got = {}
    BY <2>1
  <2>2. CASE got # {}
    <3>1. score = Max(got) /\ Max(got) \in 1..MaxScore
      BY <1>3, <2>2
    <3> HIDE DEF score
    <3> QED BY <1>2, <1>3, <3>1, <2>2
  <2> QED BY <2>1, <2>2
<1> HIDE DEF score
<1>5. x \in EntrySet
  BY <1>4, JobsDiffer DEF EntrySet
<1>6. OfJob(x) = OfJob(Jobs[k])
  BY DEF OfJob
<1>7. x.got = got /\ x.status = status /\ x.score = score
  OBVIOUS
<1> HIDE DEF x
<1> QED BY <1>1, <1>4, <1>5, <1>6, <1>7

\* What an entry reports stays true as others are added.
LEMMA BestStays ==
  ASSUME TakenInv, BestIsKept, NEW entry \in EntrySet, entries' = Append(entries, entry),
         entry.got # {} => entry.status = "ok" /\ \A z \in entry.got : z <= entry.score
  PROVE  BestIsKept'
<1>1. /\ entries \in Seq(EntrySet) /\ Len(entries) \in Nat /\ DOMAIN entries = 1..Len(entries)
  BY DEF TakenInv
<1>2. /\ DOMAIN entries' = 1..(Len(entries) + 1) /\ entries'[Len(entries) + 1] = entry
      /\ \A i \in 1..Len(entries) : entries'[i] = entries[i]
  BY <1>1
<1>3. ASSUME NEW i \in DOMAIN entries', entries'[i].got # {}
      PROVE  entries'[i].status = "ok" /\ \A z \in entries'[i].got : z <= entries'[i].score
  <2>1. CASE i = Len(entries) + 1
    BY <1>2, <1>3, <2>1
  <2>2. CASE i # Len(entries) + 1
    <3>1. i \in DOMAIN entries /\ entries'[i] = entries[i]
      BY <1>1, <1>2, <2>2
    <3> QED BY <1>3, <3>1 DEF BestIsKept
  <2> QED BY <2>1, <2>2
<1> QED BY <1>3 DEF BestIsKept

LEMMA CursorType == ASSUME StageInv PROVE cursor \in Nat /\ Len(Jobs) \in Nat /\ cursor <= Len(Jobs)
<1>1. Len(Jobs) \in Nat
  BY JobsAre
<1>2. cursor \in 0..Len(Jobs)
  BY DEF StageInv
<1> QED BY <1>1, <1>2

\* What a runner is doing while the pool works.
LEMMA AtWork ==
  ASSUME StageInv, NEW r \in Runners, runner[r].pc # "free"
  PROVE  /\ pc = "pool" /\ r \in Busy /\ RunnerShape(runner[r])
         /\ runner[r].job \in 1..Len(Jobs) /\ runner[r].job \in Begun
BY DEF StageInv, Busy, Begun, RunnerShape

\* A runner that stays with its job leaves the others what they were.
LEMMA StaysBusy ==
  ASSUME StageInv, TakenInv, NEW r \in Runners, runner[r].pc # "free",
         NEW e, RunnerShape(e), e.pc # "free", e.job = runner[r].job,
         runner' = [runner EXCEPT ![r] = e], UNCHANGED <<cursor, entries>>
  PROVE  TakenInv' /\ Busy' = Busy /\ Begun' = Begun
<1>1. /\ DOMAIN runner' = Runners /\ runner'[r] = e
      /\ \A q \in Runners : q # r => runner'[q] = runner[q]
  BY RunnerMoves
<1>2. \A q \in Runners : (runner'[q].pc # "free" <=> runner[q].pc # "free") /\ runner'[q].job = runner[q].job
  BY <1>1
<1>3. Busy' = Busy /\ \A q \in Busy : runner'[q].job = runner[q].job
  BY <1>2 DEF Busy
<1>4. Begun' = Begun
  BY <1>3 DEF Begun
<1>5. Finished' = Finished
  BY <1>4 DEF Finished
<1>6. /\ entries' \in Seq(EntrySet)
      /\ \A i, k \in DOMAIN entries' : OfJob(entries'[i]) = OfJob(entries'[k]) => i = k
  BY DEF TakenInv
<1>7. {OfJob(entries'[i]) : i \in DOMAIN entries'} = {OfJob(Jobs[k]) : k \in Finished'}
  BY <1>5 DEF TakenInv
<1>8. /\ \A q \in Busy' : runner'[q].job <= cursor'
      /\ \A q, p \in Busy' : runner'[q].job = runner'[p].job => q = p
  BY <1>3 DEF TakenInv
<1> QED BY <1>3, <1>4, <1>6, <1>7, <1>8 DEF TakenInv

\* A runner that reports its job is free.
LEMMA Reports ==
  ASSUME StageInv, TakenInv, BestIsKept, NEW r \in Runners, runner[r].pc # "free", UNCHANGED cursor,
         NEW status \in Statuses, NEW got \in SUBSET (1..MaxScore), status = "ok" <=> got # {},
         Finish(r, Entry(Jobs[runner[r].job], status, got))
  PROVE  TakenInv' /\ BestIsKept'
<1> DEFINE k == runner[r].job
           entry == Entry(Jobs[k], status, got)
<1>1. k \in 1..Len(Jobs) /\ k \in Begun /\ r \in Busy
  BY AtWork
<1>2. /\ entry \in EntrySet /\ OfJob(entry) = OfJob(Jobs[k])
      /\ entry.got # {} => entry.status = "ok" /\ \A z \in entry.got : z <= entry.score
  BY <1>1, EntryIs
<1>3. entries' = Append(entries, entry) /\ runner' = [runner EXCEPT ![r] = Free]
  BY DEF Finish
<1>4. /\ DOMAIN runner' = Runners /\ runner'[r] = Free
      /\ \A q \in Runners : q # r => runner'[q] = runner[q]
  BY <1>3, FreeShape, RunnerMoves
<1>5. Busy' = Busy \ {r} /\ \A q \in Busy' : runner'[q].job = runner[q].job
  BY <1>4, FreeShape DEF Busy
<1>6. Begun' = Begun \ {k}
  <2>1. \A q \in Busy : q # r => runner[q].job # k
    BY <1>1 DEF TakenInv
  <2>2. Begun' = {runner[q].job : q \in Busy \ {r}}
    BY <1>5 DEF Begun
  <2> QED BY <2>1, <2>2, <1>1 DEF Begun
<1>7. k \in 1..cursor
  BY <1>1 DEF TakenInv
<1>8. k \notin Finished /\ Finished' = Finished \cup {k} /\ Finished \subseteq 1..Len(Jobs)
  <2>1. Finished \subseteq 1..Len(Jobs)
    BY CursorType DEF Finished
  <2> QED BY <1>1, <1>6, <1>7, <2>1 DEF Finished
<1>9. \A q \in Busy' : runner'[q].job <= cursor'
  BY <1>5 DEF TakenInv
<1>10. \A q, p \in Busy' : runner'[q].job = runner'[p].job => q = p
  BY <1>5 DEF TakenInv
<1> HIDE DEF entry, k
<1>11. /\ entries' \in Seq(EntrySet)
       /\ {OfJob(entries'[i]) : i \in DOMAIN entries'} = {OfJob(Jobs[p]) : p \in Finished'}
       /\ \A i, p \in DOMAIN entries' : OfJob(entries'[i]) = OfJob(entries'[p]) => i = p
  BY <1>1, <1>2, <1>3, <1>8, OneMoreReport
<1>12. BestIsKept'
  BY <1>2, <1>3, BestStays
<1> QED BY <1>9, <1>10, <1>11, <1>12 DEF TakenInv

\* After a sample there is the next one, or the end of the job.
Onward(r, e) ==
  /\ RunnerShape(e) /\ runner' = [runner EXCEPT ![r] = e]
  /\ \/ e.pc = "free"
     \/ e.pc = "call" /\ e.job = runner[r].job /\ e.sample = runner[r].sample + 1

LEMMA Concludes ==
  ASSUME StageInv, TakenInv, BestIsKept, NEW r \in Runners, runner[r].pc # "free", UNCHANGED cursor,
         NEW got \in SUBSET (1..MaxScore), NEW refused \in BOOLEAN, NEW over \in BOOLEAN,
         Conclude(r, got, refused, over)
  PROVE  TakenInv' /\ BestIsKept' /\ Onward(r, Free)
<1> DEFINE status == IF got # {} THEN "ok" ELSE IF refused THEN "refused"
                     ELSE IF over THEN "skipped-budget" ELSE "failed"
<1>1. status \in Statuses /\ (status = "ok" <=> got # {})
  BY DEF Statuses
<1>2. Finish(r, Entry(Jobs[runner[r].job], status, got))
  BY DEF Conclude
<1>3. runner' = [runner EXCEPT ![r] = Free]
  BY <1>2 DEF Finish
<1> HIDE DEF status
<1> QED BY <1>1, <1>2, <1>3, Reports, FreeShape DEF Onward

LEMMA GoesOn ==
  ASSUME StageInv, TakenInv, BestIsKept, NEW r \in Runners, runner[r].pc \in {"call", "record"},
         UNCHANGED cursor, NEW got \in SUBSET (1..MaxScore), NextSample(r, got)
  PROVE  TakenInv' /\ BestIsKept' /\ \E e : Onward(r, e)
<1> DEFINE x == runner[r]
           more == x.sample < Jobs[x.job].samples
           e == [x EXCEPT !.pc = "call", !.sample = @ + 1, !.got = got]
<1>1. /\ RunnerShape(x) /\ x.job \in 1..Len(Jobs) /\ x.sample \in 1..Jobs[x.job].samples
      /\ x.pc # "free" /\ Jobs[x.job].samples \in Nat /\ exhausted \in BOOLEAN
  <2>1. RunnerShape(x) /\ x.job \in 1..Len(Jobs) /\ x.pc # "free"
    BY AtWork
  <2>2. Jobs[x.job].samples \in 1..Samples
    BY <2>1, JobsDiffer
  <2>3. x.sample \in 1..Jobs[x.job].samples /\ exhausted \in BOOLEAN
    BY <2>1 DEF RunnerShape, StageInv
  <2> QED BY <2>1, <2>2, <2>3
<1>2. CASE more
  <2>1. runner' = [runner EXCEPT ![r] = e] /\ UNCHANGED entries
    BY <1>2 DEF NextSample
  <2>2. DOMAIN e = DOMAIN x /\ e.pc = "call" /\ e.sample = x.sample + 1 /\ e.got = got /\ e.job = x.job
    BY <1>1 DEF RunnerShape
  <2>3. x.sample + 1 \in 1..Jobs[x.job].samples
    BY <1>1, <1>2
  <2> HIDE DEF e
  <2>4. RunnerShape(e)
    BY <1>1, <2>2, <2>3 DEF RunnerShape, RunnerPc
  <2>5. Onward(r, e)
    BY <2>1, <2>2, <2>4 DEF Onward
  <2>6. TakenInv'
    BY <1>1, <2>1, <2>2, <2>4, StaysBusy
  <2>7. BestIsKept'
    BY <2>1 DEF BestIsKept
  <2> QED BY <2>5, <2>6, <2>7
<1>3. CASE ~more
  <2>1. Conclude(r, got, FALSE, exhausted)
    BY <1>3 DEF NextSample
  <2> QED BY <1>1, <2>1, Concludes
<1> QED BY <1>2, <1>3

\* While the pool works, nothing is on the board and nothing is concluded.
LEMMA PoolQuiet ==
  ASSUME FanInv, pc = "pool", UNCHANGED <<pc, board, outcome, cached>>
  PROVE  BoardInv' /\ EveryLensReports' /\ DegradedIsNotFrozen'
<1>1. BoardInv /\ DegradedIsNotFrozen
  BY DEF FanInv, ReportInv
<1>2. BoardInv'
  BY <1>1 DEF BoardInv
<1>3. EveryLensReports' /\ DegradedIsNotFrozen'
  BY <1>1 DEF EveryLensReports, DegradedIsNotFrozen
<1> QED BY <1>2, <1>3

(***************************************************************************)
(* Money                                                                   *)
(***************************************************************************)

LEMMA MoneyFinite ==
  ASSUME StageInv
  PROVE  /\ IsFiniteSet(Settled) /\ IsFiniteSet(First) /\ IsFiniteSet(Extra)
         /\ IsFiniteSet(Owed) /\ IsFiniteSet(Paying) /\ IsFiniteSet(Runners)
         /\ Cardinality(First) \in Nat /\ Cardinality(Extra) \in Nat
         /\ Cardinality(Owed) \in Nat /\ Cardinality(Paying) \in Nat
         /\ Cardinality(Owed) <= Cardinality(Runners) * Samples
         /\ Cardinality(First) <= cursor
<1>1. Samples \in Nat /\ cursor \in Nat /\ IsFiniteSet(1..Samples) /\ Cardinality(1..Samples) = Samples
      /\ IsFiniteSet(1..cursor) /\ Cardinality(1..cursor) = cursor
  <2>1. Samples \in Nat /\ cursor \in Nat
    BY CursorType, FanOutAssumption
  <2> QED BY <2>1, FS_Interval
<1>2. IsFiniteSet(Runners)
  <2>1. \A m, n \in Nat : Min({m, n}) \in Nat
    BY DEF Min
  <2>2. Min({MaxConcurrency, Len(Jobs)}) \in Nat
    BY <2>1, JobsAre, FanOutAssumption
  <2> QED BY <2>2, FS_Interval DEF Runners
<1>3. IsFiniteSet((1..cursor) \X (1..Samples)) /\ IsFiniteSet(Runners \X (1..Samples))
      /\ Cardinality(Runners \X (1..Samples)) = Cardinality(Runners) * Samples
  BY <1>1, <1>2, FS_Product
<1>4. IsFiniteSet(Settled) /\ IsFiniteSet(Owed) /\ IsFiniteSet(Paying)
      /\ Cardinality(Owed) <= Cardinality(Runners) * Samples
  <2>1. Settled \in SUBSET ((1..cursor) \X (1..Samples)) /\ Owed \in SUBSET (Runners \X (1..Samples))
        /\ Paying \in SUBSET Runners
    BY DEF Settled, Owed, Paying
  <2> QED BY <2>1, <1>2, <1>3, FS_Subset
<1>5. IsFiniteSet(First) /\ IsFiniteSet(Extra)
  BY <1>4, FS_Subset DEF First, Extra
<1>6. Cardinality(First) <= cursor
  <2> DEFINE f == [p \in First |-> p[1]]
  <2>1. f \in Injection(First, 1..cursor)
    BY DEF First, Settled, Injection, IsInjective
  <2> HIDE DEF f
  <2> QED BY <2>1, <1>1, FS_Injection
<1> QED BY <1>2, <1>4, <1>5, <1>6, FS_CardinalityType

\* More is settled.
LEMMA SettledGrows ==
  ASSUME NEW S, NEW T, IsFiniteSet(T), S \subseteq T, NEW F, NEW n \in {0, 1},
         n = 1 => F \in T /\ F \notin S
  PROVE  Cardinality(S) \in Nat /\ Cardinality(T) \in Nat /\ Cardinality(S) + n <= Cardinality(T)
<1>1. IsFiniteSet(S) /\ Cardinality(S) <= Cardinality(T) /\ (Cardinality(S) = Cardinality(T) => S = T)
  BY FS_Subset
<1>2. Cardinality(S) \in Nat /\ Cardinality(T) \in Nat
  BY <1>1, FS_CardinalityType
<1>3. CASE n = 0
  BY <1>1, <1>2, <1>3
<1>4. CASE n = 1
  BY <1>1, <1>2, <1>4
<1> QED BY <1>2, <1>3, <1>4

\* What is settled stays so, whatever a runner does.
LEMMA SettledStays ==
  ASSUME StageInv, NEW r \in Runners, NEW e, RunnerShape(e), runner' = [runner EXCEPT ![r] = e],
         cursor' \in {cursor, cursor + 1},
         e.pc # "free" => \/ runner[r].pc # "free" /\ e.job = runner[r].job /\ e.sample >= runner[r].sample
                          \/ e.job = cursor + 1
  PROVE  Settled \subseteq Settled'
<1>1. /\ DOMAIN runner' = Runners /\ runner'[r] = e
      /\ \A q \in Runners : q # r => runner'[q] = runner[q]
  BY RunnerMoves
<1>2. cursor \in Nat /\ cursor' \in Nat /\ cursor <= cursor'
  BY CursorType
<1>3. RunnerShape(runner[r]) /\ runner[r].sample \in Int /\ e.sample \in Int
  <2>1. ASSUME NEW x, RunnerShape(x) PROVE x.sample \in Int
    BY <2>1, JobsDiffer DEF RunnerShape, RunnerPc
  <2>2. RunnerShape(runner[r])
    BY DEF StageInv
  <2> QED BY <2>1, <2>2
<1>4. ASSUME NEW p \in Settled PROVE p \in Settled'
  <2>1. /\ p \in (1..cursor) \X (1..Samples) /\ p[2] <= Jobs[p[1]].samples /\ p[1] \in 1..cursor /\ p[2] \in Int
        /\ \A q \in Busy : runner[q].job = p[1] => p[2] < runner[q].sample
    BY FanOutAssumption DEF Settled
  <2>2. p \in (1..cursor') \X (1..Samples)
    BY <1>2, <2>1
  <2>3. ASSUME NEW q \in Busy', runner'[q].job = p[1] PROVE p[2] < runner'[q].sample
    <3>1. CASE q # r
      BY <1>1, <2>1, <2>3, <3>1 DEF Busy
    <3>2. CASE q = r
      <4>1. e.pc # "free" /\ e.job = p[1] /\ runner'[q].sample = e.sample
        BY <1>1, <2>3, <3>2 DEF Busy
      <4>2. e.job # cursor + 1
        BY <1>2, <2>1, <4>1
      <4>3. r \in Busy /\ runner[r].job = p[1] /\ e.sample >= runner[r].sample
        BY <4>1, <4>2 DEF Busy
      <4>4. p[2] < runner[r].sample
        BY <2>1, <4>3
      <4> QED BY <1>3, <2>1, <4>1, <4>3, <4>4
    <3> QED BY <3>1, <3>2
  <2> QED BY <2>1, <2>2, <2>3 DEF Settled
<1> QED BY <1>4

LEMMA OwedStays ==
  ASSUME StageInv, NEW r \in Runners, NEW e, RunnerShape(e), runner' = [runner EXCEPT ![r] = e],
         e.pc \in {"call", "record"} =>
           /\ runner[r].pc \in {"call", "record"} /\ e.job = runner[r].job /\ e.sample >= runner[r].sample
  PROVE  Owed' \subseteq Owed
<1>1. /\ DOMAIN runner' = Runners /\ runner'[r] = e
      /\ \A q \in Runners : q # r => runner'[q] = runner[q]
  BY RunnerMoves
<1>2. ASSUME NEW p \in Owed' PROVE p \in Owed
  <2>1. /\ p \in Runners \X (1..Samples) /\ p[1] \in Runners /\ runner'[p[1]].pc \in {"call", "record"}
        /\ p[2] \in runner'[p[1]].sample .. Jobs[runner'[p[1]].job].samples
    BY DEF Owed
  <2>2. CASE p[1] # r
    BY <1>1, <2>1, <2>2 DEF Owed
  <2>3. CASE p[1] = r
    <3>1. /\ runner[r].pc \in {"call", "record"} /\ e.job = runner[r].job /\ e.sample >= runner[r].sample
          /\ p[2] \in e.sample .. Jobs[e.job].samples /\ RunnerShape(runner[r])
      BY <1>1, <2>1, <2>3 DEF StageInv
    <3>2. runner[r].sample \in Int /\ Jobs[e.job].samples \in Int /\ e.sample \in Int
      <4>1. e.job \in 1..Len(Jobs) /\ runner[r].sample \in 1..Jobs[runner[r].job].samples
        BY <3>1 DEF RunnerShape
      <4>2. Jobs[e.job].samples \in 1..Samples
        BY <4>1, JobsDiffer
      <4>3. e.pc \in {"call", "record"}
        BY <1>1, <2>1, <2>3
      <4> QED BY <4>1, <4>2, <4>3, FanOutAssumption DEF RunnerShape
    <3>3. p[2] \in runner[r].sample .. Jobs[runner[r].job].samples
      BY <3>1, <3>2
    <3> QED BY <2>1, <2>3, <3>1, <3>3 DEF Owed
  <2> QED BY <2>2, <2>3
<1> QED BY <1>2

\* A sample that is behind a runner is settled and owed no more.
LEMMA SampleBehind ==
  ASSUME StageInv, TakenInv, NEW r \in Runners, runner[r].pc \in {"call", "record"},
         NEW e, Onward(r, e), UNCHANGED cursor
  PROVE  /\ Settled \subseteq Settled' /\ Owed' \subseteq Owed
         /\ <<runner[r].job, runner[r].sample>> \in Settled' \ Settled
         /\ <<r, runner[r].sample>> \in Owed \ Owed'
<1> DEFINE k == runner[r].job
           n == runner[r].sample
<1>1. /\ RunnerShape(runner[r]) /\ k \in 1..Len(Jobs) /\ r \in Busy /\ n \in 1..Jobs[k].samples /\ k \in 1..cursor
      /\ \A q \in Busy : runner[q].job = k => q = r
  <2>1. RunnerShape(runner[r]) /\ k \in 1..Len(Jobs) /\ r \in Busy
    BY AtWork
  <2> QED BY <2>1 DEF RunnerShape, TakenInv
<1>2. Jobs[k].samples \in 1..Samples /\ Samples \in Nat
  BY <1>1, JobsDiffer, FanOutAssumption
<1>3. n \in 1..Samples /\ n \in Int /\ Jobs[k].samples \in Int
  BY <1>1, <1>2
<1>4. /\ DOMAIN runner' = Runners /\ runner'[r] = e /\ RunnerShape(e) /\ runner' = [runner EXCEPT ![r] = e]
      /\ \A q \in Runners : q # r => runner'[q] = runner[q]
      /\ e.pc = "free" \/ (e.pc = "call" /\ e.job = k /\ e.sample = n + 1)
  BY RunnerMoves DEF Onward
<1>5. Settled \subseteq Settled'
  <2>1. e.pc # "free" => e.job = runner[r].job /\ e.sample >= runner[r].sample
    BY <1>3, <1>4
  <2> QED BY <1>4, <2>1, SettledStays
<1>6. Owed' \subseteq Owed
  <2>1. e.pc \in {"call", "record"} => e.job = runner[r].job /\ e.sample >= runner[r].sample
    BY <1>3, <1>4
  <2> QED BY <1>4, <2>1, OwedStays
<1>7. <<k, n>> \notin Settled
  <2>1. SUFFICES ASSUME <<k, n>> \in Settled PROVE FALSE
    OBVIOUS
  <2>2. \A q \in Busy : runner[q].job = k => n < runner[q].sample
    BY <2>1 DEF Settled
  <2>3. n < n
    BY <1>1, <2>2
  <2> QED BY <1>3, <2>3
<1>8. <<k, n>> \in Settled'
  <2>1. ASSUME NEW q \in Busy', runner'[q].job = k PROVE n < runner'[q].sample
    <3>1. CASE q = r
      BY <1>3, <1>4, <2>1, <3>1 DEF Busy
    <3>2. CASE q # r
      BY <1>1, <1>4, <2>1, <3>2 DEF Busy
    <3> QED BY <3>1, <3>2
  <2>2. <<k, n>> \in (1..cursor') \X (1..Samples) /\ n <= Jobs[k].samples
    BY <1>1, <1>3
  <2> HIDE DEF k, n
  <2> QED BY <2>1, <2>2 DEF Settled
<1>9. <<r, n>> \in Owed
  <2>1. <<r, n>> \in Runners \X (1..Samples) /\ n \in n .. Jobs[k].samples
    BY <1>1, <1>3
  <2> QED BY <2>1 DEF Owed
<1>10. <<r, n>> \notin Owed'
  <2>1. SUFFICES ASSUME <<r, n>> \in Owed' PROVE FALSE
    OBVIOUS
  <2>2. runner'[r].pc \in {"call", "record"} /\ n \in runner'[r].sample .. Jobs[runner'[r].job].samples
    BY <2>1 DEF Owed
  <2>3. e.pc = "call" /\ e.job = k /\ e.sample = n + 1 /\ n \in (n + 1) .. Jobs[k].samples
    BY <1>4, <2>2
  <2> QED BY <1>3, <2>3
<1> QED BY <1>5, <1>6, <1>7, <1>8, <1>9, <1>10

\* Who is paying.
LEMMA PayingMoves ==
  ASSUME StageInv, NEW r \in Runners, NEW e, RunnerShape(e), runner' = [runner EXCEPT ![r] = e]
  PROVE  /\ runner[r].pc # "record" /\ e.pc = "record" => Cardinality(Paying') = Cardinality(Paying) + 1
         /\ runner[r].pc = "record" /\ e.pc # "record" => Cardinality(Paying') = Cardinality(Paying) - 1
         /\ runner[r].pc # "record" /\ e.pc # "record" => Cardinality(Paying') = Cardinality(Paying)
<1>1. /\ DOMAIN runner' = Runners /\ runner'[r] = e
      /\ \A q \in Runners : q # r => runner'[q] = runner[q]
  BY RunnerMoves
<1>2. IsFiniteSet(Paying)
  BY MoneyFinite
<1>3. CASE runner[r].pc # "record" /\ e.pc = "record"
  <2>1. Paying' = Paying \cup {r} /\ r \notin Paying
    BY <1>1, <1>3 DEF Paying
  <2> QED BY <1>2, <1>3, <2>1, FS_AddElement
<1>4. CASE runner[r].pc = "record" /\ e.pc # "record"
  <2>1. Paying' = Paying \ {r} /\ r \in Paying
    BY <1>1, <1>4 DEF Paying
  <2> QED BY <1>2, <1>4, <2>1, FS_RemoveElement
<1>5. CASE runner[r].pc # "record" /\ e.pc # "record"
  <2>1. Paying' = Paying
    BY <1>1, <1>5 DEF Paying
  <2> QED BY <1>5, <2>1
<1> QED BY <1>3, <1>4, <1>5

\* The counters of settled samples never fall, and rise with a sample settled.
LEMMA CountersGrow ==
  ASSUME StageInv, StageInv', Settled \subseteq Settled'
  PROVE  /\ Cardinality(First) \in Nat /\ Cardinality(First') \in Nat
         /\ Cardinality(Extra) \in Nat /\ Cardinality(Extra') \in Nat
         /\ Cardinality(First') >= Cardinality(First) /\ Cardinality(Extra') >= Cardinality(Extra)
         /\ \A k, n : <<k, n>> \in Settled' \ Settled =>
              /\ n = 1 => Cardinality(First') >= Cardinality(First) + 1
              /\ n # 1 => Cardinality(Extra') >= Cardinality(Extra) + 1
<1>1. IsFiniteSet(First') /\ IsFiniteSet(Extra')
  <2>1. cursor' \in Int /\ Samples \in Int
    <3>1. Len(Jobs) \in Nat
      BY JobsAre
    <3>2. cursor' \in 0..Len(Jobs)
      BY DEF StageInv
    <3> QED BY <3>1, <3>2, FanOutAssumption
  <2>2. IsFiniteSet((1..cursor') \X (1..Samples))
    <3>1. IsFiniteSet(1..cursor') /\ IsFiniteSet(1..Samples)
      BY <2>1, FS_Interval
    <3> QED BY <3>1, FS_Product
  <2>3. First' \in SUBSET ((1..cursor') \X (1..Samples)) /\ Extra' \in SUBSET ((1..cursor') \X (1..Samples))
    BY DEF First, Extra, Settled
  <2> QED BY <2>2, <2>3, FS_Subset
<1>2. First \subseteq First' /\ Extra \subseteq Extra'
  BY DEF First, Extra
<1>3. /\ Cardinality(First) \in Nat /\ Cardinality(First') \in Nat
      /\ Cardinality(Extra) \in Nat /\ Cardinality(Extra') \in Nat
      /\ Cardinality(First') >= Cardinality(First) /\ Cardinality(Extra') >= Cardinality(Extra)
  <2>1. IsFiniteSet(First) /\ IsFiniteSet(Extra)
    BY <1>1, <1>2, FS_Subset
  <2>2. Cardinality(First') >= Cardinality(First) /\ Cardinality(Extra') >= Cardinality(Extra)
    BY <1>1, <1>2, FS_Subset
  <2> QED BY <1>1, <2>1, <2>2, FS_CardinalityType
<1>4. ASSUME NEW k, NEW n, <<k, n>> \in Settled' \ Settled, n = 1
      PROVE  Cardinality(First') >= Cardinality(First) + 1
  <2>1. <<k, n>> \in First' /\ <<k, n>> \notin First
    BY <1>4 DEF First
  <2>2. Cardinality(First) \in Nat /\ Cardinality(First') \in Nat /\ Cardinality(First) + 1 <= Cardinality(First')
    BY <1>1, <1>2, <2>1, SettledGrows
  <2> QED BY <2>2
<1>5. ASSUME NEW k, NEW n, <<k, n>> \in Settled' \ Settled, n # 1
      PROVE  Cardinality(Extra') >= Cardinality(Extra) + 1
  <2>1. <<k, n>> \in Extra' /\ <<k, n>> \notin Extra
    BY <1>5 DEF Extra
  <2>2. Cardinality(Extra) \in Nat /\ Cardinality(Extra') \in Nat /\ Cardinality(Extra) + 1 <= Cardinality(Extra')
    BY <1>1, <1>2, <2>1, SettledGrows
  <2> QED BY <2>2
<1> QED BY <1>3, <1>4, <1>5

(***************************************************************************)
(* Each action                                                             *)
(***************************************************************************)

LEMMA CeilingType ==
  /\ Ceiling \in Nat
  /\ Limit >= 1 => Ceiling >= Limit /\ Ceiling >= Limit - 1 + Cardinality(Runners) * Samples
<1> DEFINE n == Cardinality(Runners) * Samples
           top == Max({1, n})
<1>1. n \in Nat
  <2>1. IsFiniteSet(Runners)
    <3>1. \A x, y \in Nat : Min({x, y}) \in Nat
      BY DEF Min
    <3>2. Min({MaxConcurrency, Len(Jobs)}) \in Nat
      BY <3>1, JobsAre, FanOutAssumption
    <3> QED BY <3>2, FS_Interval DEF Runners
  <2>2. Cardinality(Runners) \in Nat /\ Samples \in Nat
    BY <2>1, FS_CardinalityType, FanOutAssumption
  <2> QED BY <2>2
<1> HIDE DEF n
<1>2. top \in Nat /\ top >= 1 /\ top >= n
  <2>1. \E z \in {1, n} : \A y \in {1, n} : z >= y
    BY <1>1
  <2>2. top \in {1, n} /\ \A y \in {1, n} : top >= y
    BY <2>1 DEF Max
  <2> QED BY <1>1, <2>2
<1>3. Ceiling = IF Limit = 0 THEN 0 ELSE Limit - 1 + top
  BY DEF Ceiling, n
<1> HIDE DEF top
<1>4. Limit \in Nat
  BY FanOutAssumption
<1>5. Ceiling \in Nat /\ (Limit >= 1 => Ceiling >= Limit /\ Ceiling >= Limit - 1 + n)
  BY <1>1, <1>2, <1>3, <1>4
<1> QED BY <1>5 DEF n

\* A charge of which nobody hears changes neither count.
LEMMA HeardStays ==
  ASSUME StageInv, UNCHANGED <<billed, unheard>> \/ Throws
  PROVE  billed' \in Nat /\ unheard' \in Nat /\ Heard' = Heard
<1>1. billed \in Nat /\ unheard \in Nat
  BY DEF StageInv
<1>2. CASE UNCHANGED <<billed, unheard>>
  BY <1>1, <1>2 DEF Heard
<1>3. CASE billed' = billed + 1 /\ unheard' = unheard + 1
  BY <1>1, <1>3 DEF Heard
<1> QED BY <1>2, <1>3 DEF Throws

\* A step of a runner that moves no money that is heard of.
LEMMA QuietRunner ==
  ASSUME FanInv, pc = "pool", UNCHANGED <<pc, board, outcome, cached, tally, spent, runs>>,
         UNCHANGED <<billed, unheard>> \/ Throws,
         NEW r \in Runners, NEW e, RunnerShape(e), runner' = [runner EXCEPT ![r] = e],
         runner[r].pc # "record", e.pc # "record", exhausted' \in BOOLEAN, cursor' \in 0..Len(Jobs),
         TakenInv', BestIsKept', Settled \subseteq Settled',
         "budget" \notin Faults => spent + Cardinality(Owed') <= Ceiling
  PROVE  FanInv'
<1>1. StageInv'
  <2>1. StageInv
    BY DEF FanInv, ReportInv
  <2>2. DOMAIN runner' = Runners /\ \A q \in Runners : RunnerShape(runner'[q])
    BY <2>1, RunnerMoves
  <2>3. billed' \in Nat /\ unheard' \in Nat
    BY <2>1, HeardStays
  <2> QED BY <2>1, <2>2, <2>3 DEF StageInv, Ready, Concluding
<1>2. ReportInv'
  BY <1>1, PoolQuiet DEF ReportInv
<1>3. Cardinality(Paying') = Cardinality(Paying)
  BY PayingMoves DEF FanInv, ReportInv
<1>4. TallyInv'
  <2>1. /\ Cardinality(First) \in Nat /\ Cardinality(First') \in Nat
        /\ Cardinality(Extra) \in Nat /\ Cardinality(Extra') \in Nat
        /\ Cardinality(First') >= Cardinality(First) /\ Cardinality(Extra') >= Cardinality(Extra)
    BY <1>1, CountersGrow DEF FanInv, ReportInv
  <2> QED BY <1>3, <2>1 DEF FanInv, TallyInv
<1>5. PaidInv'
  <2>1. Heard' = Heard
    BY HeardStays DEF FanInv, ReportInv
  <2> QED BY <1>3, <2>1 DEF FanInv, PaidInv, Ceiling
<1> QED BY <1>2, <1>4, <1>5 DEF FanInv

LEMMA FreeStays ==
  ASSUME FanInv, NEW r \in Runners, NEW e, RunnerShape(e), runner' = [runner EXCEPT ![r] = e],
         e.pc \in {"free", "check"}
  PROVE  "budget" \notin Faults => spent + Cardinality(Owed') <= Ceiling
<1>1. IsFiniteSet(Owed) /\ Cardinality(Owed) \in Nat /\ StageInv
  BY MoneyFinite DEF FanInv, ReportInv
<1>2. Owed' \subseteq Owed
  BY <1>1, OwedStays
<1>3. Cardinality(Owed') <= Cardinality(Owed) /\ Cardinality(Owed') \in Nat
  BY <1>1, <1>2, FS_Subset, FS_CardinalityType
<1>4. spent \in Nat /\ Ceiling \in Int
  <2>1. spent \in Nat
    BY <1>1 DEF StageInv
  <2>2. Ceiling \in Nat
    BY CeilingType
  <2> QED BY <2>1, <2>2
<1> QED BY <1>1, <1>3, <1>4 DEF FanInv, PaidInv

LEMMA TakeStep == ASSUME FanInv, NEW r \in Runners, Take(r) PROVE FanInv'
<1>1. StageInv /\ TakenInv /\ BestIsKept
  BY DEF FanInv, ReportInv
<1>2. /\ pc = "pool" /\ runner[r].pc = "free" /\ cursor < Len(Jobs) /\ cursor' = cursor + 1
      /\ UNCHANGED <<pc, board, outcome, cached, tally, spent, billed, unheard, runs, exhausted>>
  BY DEF Take
<1>3. cursor \in Nat /\ Len(Jobs) \in Nat /\ cursor + 1 \in 1..Len(Jobs) /\ cursor' \in 0..Len(Jobs)
  BY <1>1, <1>2, CursorType
<1>4. r \notin Busy /\ RunnerShape(runner[r]) /\ runner[r].sample = 0 /\ runner[r].got = {}
  BY <1>1, <1>2 DEF Busy, StageInv, RunnerShape
<1>5. cursor + 1 \notin Begun /\ \A q \in Busy : runner[q].job <= cursor + 1 /\ runner[q].job # cursor + 1
  <2>1. ASSUME NEW q \in Busy PROVE runner[q].job <= cursor /\ runner[q].job \in Int
    <3>1. runner[q].job \in 1..Len(Jobs)
      BY <1>1, AtWork DEF Busy
    <3>2. runner[q].job <= cursor
      BY <1>1 DEF TakenInv
    <3> QED BY <3>1, <3>2
  <2>2. ASSUME NEW q \in Busy PROVE runner[q].job <= cursor + 1 /\ runner[q].job # cursor + 1
    BY <1>3, <2>1
  <2> QED BY <2>2 DEF Begun
<1>6. exhausted \in BOOLEAN
  BY <1>1 DEF StageInv
<1>7. CASE exhausted
  <2> DEFINE entry == Entry(Jobs[cursor + 1], "skipped-budget", {})
  <2>1. runner' = [runner EXCEPT ![r] = Free] /\ entries' = Append(entries, entry)
    BY <1>7 DEF Take, Finish
  <2>2. /\ runner'[r] = Free /\ \A q \in Runners : q # r => runner'[q] = runner[q]
    BY <1>1, <2>1, FreeShape, RunnerMoves
  <2>3. Busy' = Busy /\ \A q \in Busy : runner'[q] = runner[q]
    BY <1>4, <2>2, FreeShape DEF Busy
  <2>4. Begun' = Begun
    BY <2>3 DEF Begun
  <2>5. Finished' = Finished \cup {cursor + 1} /\ cursor + 1 \notin Finished /\ Finished \subseteq 1..Len(Jobs)
    <3>1. 1..(cursor + 1) = (1..cursor) \cup {cursor + 1} /\ cursor + 1 \notin 1..cursor /\ 1..cursor \subseteq 1..Len(Jobs)
      BY <1>2, <1>3
    <3> QED BY <1>2, <1>5, <2>4, <3>1 DEF Finished
  <2>6. /\ entry \in EntrySet /\ OfJob(entry) = OfJob(Jobs[cursor + 1])
        /\ entry.got # {} => entry.status = "ok" /\ \A z \in entry.got : z <= entry.score
    BY <1>3, EntryIs DEF Statuses
  <2> HIDE DEF entry
  <2>7. BestIsKept'
    BY <1>1, <2>1, <2>6, BestStays
  <2>8. TakenInv'
    <3>1. /\ entries' \in Seq(EntrySet)
          /\ {OfJob(entries'[i]) : i \in DOMAIN entries'} = {OfJob(Jobs[p]) : p \in Finished'}
          /\ \A i, p \in DOMAIN entries' : OfJob(entries'[i]) = OfJob(entries'[p]) => i = p
      BY <1>1, <1>3, <2>1, <2>5, <2>6, OneMoreReport
    <3>2. /\ \A q \in Busy' : runner'[q].job <= cursor'
          /\ \A q, p \in Busy' : runner'[q].job = runner'[p].job => q = p
      BY <1>1, <1>2, <1>5, <2>3 DEF TakenInv
    <3> QED BY <3>1, <3>2 DEF TakenInv
  <2>9. Settled \subseteq Settled'
    BY <1>1, <1>2, <2>1, FreeShape, SettledStays
  <2> QED BY <1>2, <1>3, <1>6, <2>1, <2>7, <2>8, <2>9, FreeShape, FreeStays, QuietRunner
<1>8. CASE ~exhausted
  <2> DEFINE e == [runner[r] EXCEPT !.pc = "check", !.job = cursor + 1]
  <2>1. runner' = [runner EXCEPT ![r] = e] /\ entries' = entries
    BY <1>8 DEF Take
  <2>2. RunnerShape(e) /\ e.pc = "check" /\ e.job = cursor + 1
    BY <1>3, <1>4 DEF RunnerShape, RunnerPc
  <2> HIDE DEF e
  <2>3. /\ DOMAIN runner' = Runners /\ runner'[r] = e /\ \A q \in Runners : q # r => runner'[q] = runner[q]
    BY <1>1, <2>1, <2>2, RunnerMoves
  <2>4. Busy' = Busy \cup {r} /\ \A q \in Busy : runner'[q] = runner[q]
    BY <1>4, <2>2, <2>3 DEF Busy
  <2>5. Begun' = Begun \cup {cursor + 1}
    BY <1>4, <2>2, <2>3, <2>4 DEF Begun
  <2>6. Finished' = Finished
    <3>1. 1..(cursor + 1) = (1..cursor) \cup {cursor + 1} /\ cursor + 1 \notin 1..cursor
      BY <1>2, <1>3
    <3> QED BY <1>2, <2>5, <3>1 DEF Finished
  <2>7. TakenInv'
    <3>1. /\ entries' \in Seq(EntrySet)
          /\ {OfJob(entries'[i]) : i \in DOMAIN entries'} = {OfJob(Jobs[p]) : p \in Finished'}
      BY <1>1, <2>1, <2>6 DEF TakenInv
    <3>2. \A i, p \in DOMAIN entries' : OfJob(entries'[i]) = OfJob(entries'[p]) => i = p
      BY <1>1, <2>1 DEF TakenInv
    <3>3. \A q \in Busy' : runner'[q].job <= cursor'
      BY <1>2, <1>3, <1>5, <2>2, <2>3, <2>4
    <3>4. \A q, p \in Busy' : runner'[q].job = runner'[p].job => q = p
      BY <1>1, <1>5, <2>2, <2>3, <2>4 DEF TakenInv
    <3> QED BY <3>1, <3>2, <3>3, <3>4 DEF TakenInv
  <2>8. BestIsKept'
    BY <1>1, <2>1 DEF BestIsKept
  <2>9. Settled \subseteq Settled'
    BY <1>1, <1>2, <2>1, <2>2, SettledStays
  <2> QED BY <1>2, <1>3, <1>6, <2>1, <2>2, <2>7, <2>8, <2>9, FreeStays, QuietRunner
<1> QED BY <1>6, <1>7, <1>8

LEMMA CheckStep == ASSUME FanInv, NEW r \in Runners, Check(r) PROVE FanInv'
<1> DEFINE x == runner[r]
<1>1. StageInv /\ TakenInv /\ BestIsKept
  BY DEF FanInv, ReportInv
<1>2. /\ x.pc = "check" /\ UNCHANGED <<pc, cursor, board, outcome, cached, tally, spent, billed, unheard, runs>>
  BY DEF Check
<1>3. /\ pc = "pool" /\ RunnerShape(x) /\ x.job \in 1..Len(Jobs) /\ x.sample = 0 /\ x.got = {}
      /\ cursor \in 0..Len(Jobs) /\ exhausted \in BOOLEAN
  BY <1>1, <1>2, AtWork DEF RunnerShape, StageInv
<1>4. Jobs[x.job].samples \in 1..Samples
  BY <1>3, JobsDiffer
<1>5. CASE MayCall /\ runner' = [runner EXCEPT ![r].pc = "call", ![r].sample = 1] /\ UNCHANGED <<exhausted, entries>>
  <2> DEFINE e == [x EXCEPT !.pc = "call", !.sample = 1]
  <2>1. runner' = [runner EXCEPT ![r] = e]
    BY <1>5
  <2>2. RunnerShape(e) /\ e.pc = "call" /\ e.job = x.job /\ e.sample = 1
    <3>1. 1 \in 1..Jobs[x.job].samples
      BY <1>4
    <3> QED BY <1>3, <3>1 DEF RunnerShape, RunnerPc
  <2> HIDE DEF e
  <2>3. TakenInv' /\ BestIsKept'
    <3>1. TakenInv'
      BY <1>1, <1>2, <1>5, <2>1, <2>2, StaysBusy
    <3>2. BestIsKept'
      BY <1>1, <1>5 DEF BestIsKept
    <3> QED BY <3>1, <3>2
  <2>4. Settled \subseteq Settled'
    <3>1. x.sample <= e.sample /\ x.pc # "free"
      BY <1>2, <1>3, <2>2
    <3> QED BY <1>1, <1>2, <2>1, <2>2, <3>1, SettledStays
  <2>5. "budget" \notin Faults => spent + Cardinality(Owed') <= Ceiling
    <3>1. SUFFICES ASSUME "budget" \notin Faults PROVE spent + Cardinality(Owed') <= Ceiling
      OBVIOUS
    <3>2. spent + 1 <= Limit /\ spent \in Nat /\ Limit \in Nat
      BY <1>1, <1>5, <3>1, FanOutAssumption DEF MayCall, StageInv
    <3>3. Owed' \in SUBSET (Runners \X (1..Samples))
      BY DEF Owed
    <3>4. IsFiniteSet(Runners) /\ IsFiniteSet(1..Samples) /\ Cardinality(1..Samples) = Samples /\ Samples \in Nat
      <4>1. Samples \in Nat
        BY FanOutAssumption
      <4> QED BY <1>1, <4>1, MoneyFinite, FS_Interval
    <3>5. /\ IsFiniteSet(Runners \X (1..Samples))
          /\ Cardinality(Runners \X (1..Samples)) = Cardinality(Runners) * Samples
      BY <3>4, FS_Product
    <3>6. Cardinality(Owed') <= Cardinality(Runners) * Samples /\ Cardinality(Owed') \in Nat
      BY <3>3, <3>5, FS_Subset, FS_CardinalityType
    <3>7. Cardinality(Runners) * Samples \in Nat
      BY <3>4, FS_CardinalityType
    <3> DEFINE n == Cardinality(Runners) * Samples
    <3>8. Ceiling \in Nat /\ Ceiling >= Limit - 1 + n
      BY <3>2, CeilingType
    <3> HIDE DEF n
    <3>9. n \in Nat /\ Cardinality(Owed') <= n
      BY <3>6, <3>7 DEF n
    <3> QED BY <3>2, <3>6, <3>8, <3>9
  <2> QED BY <1>2, <1>3, <1>5, <2>1, <2>2, <2>3, <2>4, <2>5, QuietRunner
<1>6. CASE exhausted' = TRUE /\ Finish(r, Entry(Jobs[runner[r].job], "skipped-budget", {}))
  <2>1. runner' = [runner EXCEPT ![r] = Free]
    BY <1>6 DEF Finish
  <2>2. TakenInv' /\ BestIsKept'
    BY <1>1, <1>2, <1>6, Reports DEF Statuses
  <2>3. Settled \subseteq Settled'
    BY <1>1, <1>2, <2>1, FreeShape, SettledStays
  <2>4. exhausted' \in BOOLEAN
    BY <1>6
  <2> QED BY <1>2, <1>3, <2>1, <2>2, <2>3, <2>4, FreeShape, FreeStays, QuietRunner
<1> QED BY <1>5, <1>6 DEF Check

\* Cardinalities after a sample.
LEMMA AfterSample ==
  ASSUME StageInv, StageInv', TakenInv, NEW r \in Runners, runner[r].pc \in {"call", "record"},
         NEW e, Onward(r, e), UNCHANGED cursor
  PROVE  /\ Cardinality(First') >= Cardinality(First) /\ Cardinality(Extra') >= Cardinality(Extra)
         /\ runner[r].sample \in Nat \ {0}
         /\ runner[r].sample = 1 => Cardinality(First') >= Cardinality(First) + 1
         /\ runner[r].sample > 1 => Cardinality(Extra') >= Cardinality(Extra) + 1
         /\ Cardinality(Owed') + 1 <= Cardinality(Owed)
         /\ Cardinality(First) \in Nat /\ Cardinality(First') \in Nat
         /\ Cardinality(Extra) \in Nat /\ Cardinality(Extra') \in Nat
         /\ Cardinality(Owed) \in Nat /\ Cardinality(Owed') \in Nat
<1> DEFINE k == runner[r].job
           n == runner[r].sample
<1>1. /\ Settled \subseteq Settled' /\ Owed' \subseteq Owed
      /\ <<k, n>> \in Settled' \ Settled /\ <<r, n>> \in Owed \ Owed'
  BY SampleBehind
<1>2. n \in Nat \ {0}
  <2>1. RunnerShape(runner[r]) /\ k \in 1..Len(Jobs)
    BY AtWork
  <2>2. Jobs[k].samples \in 1..Samples /\ n \in 1..Jobs[k].samples
    BY <2>1, JobsDiffer DEF RunnerShape
  <2> QED BY <2>2
<1> HIDE DEF k, n
<1>3. /\ Cardinality(First) \in Nat /\ Cardinality(First') \in Nat
      /\ Cardinality(Extra) \in Nat /\ Cardinality(Extra') \in Nat
      /\ Cardinality(First') >= Cardinality(First) /\ Cardinality(Extra') >= Cardinality(Extra)
      /\ n = 1 => Cardinality(First') >= Cardinality(First) + 1
      /\ n # 1 => Cardinality(Extra') >= Cardinality(Extra) + 1
  BY <1>1, CountersGrow
<1>4. IsFiniteSet(Owed)
  BY MoneyFinite
<1>5. Cardinality(Owed') \in Nat /\ Cardinality(Owed) \in Nat /\ Cardinality(Owed') + 1 <= Cardinality(Owed)
  BY <1>1, <1>4, SettledGrows
<1> QED BY <1>2, <1>3, <1>5 DEF n

\* What a step of a busy runner leaves of the stage.
LEMMA RunnerStage ==
  ASSUME FanInv, NEW r \in Runners, runner[r].pc # "free",
         NEW e, RunnerShape(e), runner' = [runner EXCEPT ![r] = e],
         UNCHANGED <<pc, cursor, board, outcome, cached, runs>>,
         exhausted' \in BOOLEAN, spent' \in Nat, billed' \in Nat, unheard' \in Nat,
         TakenInv', BestIsKept'
  PROVE  StageInv' /\ ReportInv' /\ pc = "pool"
<1>1. StageInv
  BY DEF FanInv, ReportInv
<1>2. pc = "pool"
  BY <1>1, AtWork
<1>3. StageInv'
  <2>1. DOMAIN runner' = Runners /\ \A q \in Runners : RunnerShape(runner'[q])
    BY <1>1, RunnerMoves
  <2> QED BY <1>1, <1>2, <2>1 DEF StageInv, Ready, Concluding
<1> QED BY <1>2, <1>3, PoolQuiet DEF ReportInv

\* A call that fails or is refused by the client costs nothing that is heard of.
LEMMA FailedCall ==
  ASSUME FanInv, NEW r \in Runners, runner[r].pc = "call", NEW e, Onward(r, e),
         UNCHANGED <<pc, cursor, board, outcome, cached, tally, spent, runs>>,
         UNCHANGED <<billed, unheard>> \/ Throws,
         exhausted' \in BOOLEAN, TakenInv', BestIsKept'
  PROVE  FanInv'
<1>1. StageInv /\ TakenInv /\ spent \in Nat /\ cursor \in 0..Len(Jobs)
  BY DEF FanInv, ReportInv, StageInv
<1>2. pc = "pool"
  BY <1>1, AtWork
<1>3. RunnerShape(e) /\ runner' = [runner EXCEPT ![r] = e] /\ e.pc # "record"
  BY DEF Onward
<1>4. Settled \subseteq Settled' /\ Owed' \subseteq Owed
  BY <1>1, SampleBehind
<1>5. IsFiniteSet(Owed) /\ Cardinality(Owed) \in Nat
  BY <1>1, MoneyFinite
<1>6. Cardinality(Owed') <= Cardinality(Owed) /\ Cardinality(Owed') \in Nat
  BY <1>4, <1>5, FS_Subset, FS_CardinalityType
<1>7. Ceiling \in Nat
  BY CeilingType
<1>8. "budget" \notin Faults => spent + Cardinality(Owed') <= Ceiling
  BY <1>1, <1>5, <1>6, <1>7 DEF FanInv, PaidInv
<1> QED BY <1>1, <1>2, <1>3, <1>4, <1>8, QuietRunner

LEMMA ReplyStep == ASSUME FanInv, NEW r \in Runners, Reply(r) PROVE FanInv'
<1> DEFINE x == runner[r]
<1>1. StageInv /\ TakenInv /\ BestIsKept
  BY DEF FanInv, ReportInv
<1>2. /\ x.pc = "call" /\ UNCHANGED <<pc, cursor, board, outcome, cached, spent, runs>>
  BY DEF Reply
<1>3. /\ RunnerShape(x) /\ x.job \in 1..Len(Jobs) /\ x.got \in SUBSET (1..MaxScore) /\ exhausted \in BOOLEAN
      /\ x.sample \in 1..Jobs[x.job].samples /\ x.sample \in Int /\ spent \in Nat
      /\ billed \in Nat /\ unheard \in Nat
  <2>1. RunnerShape(x) /\ x.job \in 1..Len(Jobs)
    BY <1>1, <1>2, AtWork
  <2>2. x.got \in SUBSET (1..MaxScore) /\ x.sample \in 1..Jobs[x.job].samples
    BY <1>2, <2>1 DEF RunnerShape
  <2>3. exhausted \in BOOLEAN /\ spent \in Nat /\ billed \in Nat /\ unheard \in Nat
    BY <1>1 DEF StageInv
  <2> QED BY <2>1, <2>2, <2>3
<1>4. CASE /\ runner' = [runner EXCEPT ![r].pc = "record"]
           /\ billed' = billed + 1 /\ unheard' = unheard /\ tally' = [tally EXCEPT !.usage = @ + 1]
           /\ UNCHANGED <<entries, exhausted>>
  <2> DEFINE e == [x EXCEPT !.pc = "record"]
  <2>1. runner' = [runner EXCEPT ![r] = e]
    BY <1>4
  <2>2. RunnerShape(e) /\ e.pc = "record" /\ e.job = x.job /\ e.sample = x.sample
    BY <1>2, <1>3 DEF RunnerShape, RunnerPc
  <2> HIDE DEF e
  <2>3. TakenInv' /\ BestIsKept'
    <3>1. TakenInv'
      BY <1>1, <1>2, <1>4, <2>1, <2>2, StaysBusy
    <3>2. BestIsKept'
      BY <1>1, <1>4 DEF BestIsKept
    <3> QED BY <3>1, <3>2
  <2>4. billed' \in Nat /\ unheard' \in Nat /\ exhausted' \in BOOLEAN /\ spent' \in Nat
    BY <1>2, <1>3, <1>4
  <2>5. StageInv' /\ ReportInv' /\ pc = "pool"
    BY <1>2, <2>1, <2>2, <2>3, <2>4, RunnerStage
  <2>6. Settled \subseteq Settled' /\ Owed' \subseteq Owed
    <3>1. e.sample >= x.sample
      BY <1>3, <2>2
    <3> QED BY <1>1, <1>2, <2>1, <2>2, <3>1, SettledStays, OwedStays
  <2>7. Cardinality(Paying') = Cardinality(Paying) + 1 /\ Cardinality(Paying) \in Nat
    BY <1>1, <1>2, <2>1, <2>2, PayingMoves, MoneyFinite
  <2>8. TallyInv'
    <3>1. /\ Cardinality(First) \in Nat /\ Cardinality(First') \in Nat
          /\ Cardinality(Extra) \in Nat /\ Cardinality(Extra') \in Nat
          /\ Cardinality(First') >= Cardinality(First) /\ Cardinality(Extra') >= Cardinality(Extra)
      BY <1>1, <2>5, <2>6, CountersGrow
    <3>2. TallyInv
      BY DEF FanInv
    <3>3. /\ DOMAIN tally' = {"usage", "calls", "extra"} /\ tally'.usage = tally.usage + 1
          /\ tally'.calls = tally.calls /\ tally'.extra = tally.extra
      BY <1>4, <3>2 DEF TallyInv
    <3>4. tally.usage = tally.calls + Cardinality(Paying)
      BY <2>5, <3>2 DEF TallyInv
    <3> QED BY <1>2, <2>5, <2>7, <3>1, <3>2, <3>3, <3>4 DEF TallyInv, Ready
  <2>9. PaidInv'
    <3>1. SUFFICES ASSUME "budget" \notin Faults PROVE PaidInv'
      BY DEF PaidInv
    <3>2. Heard = spent + Cardinality(Paying) /\ spent + Cardinality(Owed) <= Ceiling
      <4>1. Heard = spent + Cardinality(Paying) + 0 /\ spent + Cardinality(Owed) <= Ceiling
        BY <2>5, <3>1 DEF FanInv, PaidInv
      <4> QED BY <1>3, <2>7, <4>1
    <3>3. Cardinality(Owed') <= Cardinality(Owed) /\ Cardinality(Owed') \in Nat /\ Cardinality(Owed) \in Nat
      <4>1. IsFiniteSet(Owed)
        BY <1>1, MoneyFinite
      <4> QED BY <2>6, <4>1, FS_Subset, FS_CardinalityType
    <3>4. Ceiling \in Nat
      BY CeilingType
    <3>5. Heard' = spent' + Cardinality(Paying') + 0 /\ spent' + Cardinality(Owed') <= Ceiling
      <4>1. Heard' = Heard + 1 /\ Heard \in Int
        BY <1>3, <1>4 DEF Heard
      <4>2. spent' = spent
        BY <1>2
      <4>3. Heard' = spent' + Cardinality(Paying') + 0
        BY <1>3, <2>7, <3>2, <4>1, <4>2
      <4>4. spent' + Cardinality(Owed') <= Ceiling
        BY <1>3, <3>2, <3>3, <3>4, <4>2
      <4> QED BY <4>3, <4>4
    <3>6. pc' = "pool" /\ Ceiling' = Ceiling
      BY <1>2, <2>5 DEF Ceiling
    <3> QED BY <3>5, <3>6 DEF PaidInv
  <2> QED BY <2>5, <2>8, <2>9 DEF FanInv
<1>5. CASE NextSample(r, x.got) /\ Throws /\ UNCHANGED exhausted
  <2>1. TakenInv' /\ BestIsKept' /\ \E e : Onward(r, e)
    BY <1>1, <1>2, <1>3, <1>5, GoesOn
  <2>2. PICK e : Onward(r, e)
    BY <2>1
  <2>3. UNCHANGED tally
    BY <1>5 DEF Throws
  <2> QED BY <1>2, <1>3, <1>5, <2>1, <2>2, <2>3, FailedCall
<1>6. CASE exhausted' = TRUE /\ Conclude(r, x.got, FALSE, TRUE) /\ UNCHANGED <<billed, unheard, tally>>
  <2>1. TakenInv' /\ BestIsKept' /\ Onward(r, Free)
    BY <1>1, <1>2, <1>3, <1>6, Concludes
  <2> QED BY <1>2, <1>3, <1>6, <2>1, FailedCall
<1> QED BY <1>4, <1>5, <1>6 DEF Reply, Answers

\* A call that is recorded is settled, whatever its text is worth.
LEMMA RecordedCall ==
  ASSUME FanInv, NEW r \in Runners, runner[r].pc = "record", NEW e, Onward(r, e), RecordUsage,
         tally' = [tally EXCEPT !.calls = @ + 1,
                                !.extra = IF runner[r].sample > 1 THEN @ + 1 ELSE @],
         UNCHANGED <<pc, cursor, exhausted, board, outcome, cached, billed, unheard, runs>>,
         TakenInv', BestIsKept'
  PROVE  FanInv'
<1> DEFINE n == runner[r].sample
<1>1. /\ StageInv /\ TakenInv /\ spent \in Nat /\ billed \in Nat /\ unheard \in Nat /\ exhausted \in BOOLEAN
      /\ TallyInv /\ PaidInv
  BY DEF FanInv, ReportInv, StageInv
<1>2. RunnerShape(e) /\ runner' = [runner EXCEPT ![r] = e] /\ e.pc # "record"
  BY DEF Onward
<1>3. spent' \in Nat /\ spent' <= spent + 1 /\ ("budget" \notin Faults => spent' = spent + 1)
  BY <1>1 DEF RecordUsage
<1>4. StageInv' /\ ReportInv' /\ pc = "pool"
  BY <1>1, <1>2, <1>3, RunnerStage
<1>5. /\ Cardinality(First') >= Cardinality(First) /\ Cardinality(Extra') >= Cardinality(Extra)
      /\ n \in Nat \ {0}
      /\ n = 1 => Cardinality(First') >= Cardinality(First) + 1
      /\ n > 1 => Cardinality(Extra') >= Cardinality(Extra) + 1
      /\ Cardinality(Owed') + 1 <= Cardinality(Owed)
      /\ Cardinality(First) \in Nat /\ Cardinality(First') \in Nat
      /\ Cardinality(Extra) \in Nat /\ Cardinality(Extra') \in Nat
      /\ Cardinality(Owed) \in Nat /\ Cardinality(Owed') \in Nat
  BY <1>1, <1>4, AfterSample
<1>6. Cardinality(Paying') = Cardinality(Paying) - 1 /\ Cardinality(Paying) \in Nat
  BY <1>1, <1>2, PayingMoves, MoneyFinite
<1>7. TallyInv'
  <2>1. /\ DOMAIN tally' = {"usage", "calls", "extra"} /\ tally'.usage = tally.usage
        /\ tally'.calls = tally.calls + 1 /\ tally'.extra = (IF n > 1 THEN tally.extra + 1 ELSE tally.extra)
    BY <1>1 DEF TallyInv
  <2>2. /\ tally.usage = tally.calls + Cardinality(Paying)
        /\ tally.usage \in Nat /\ tally.calls \in Nat /\ tally.extra \in Nat
        /\ tally.calls - tally.extra <= Cardinality(First) /\ tally.extra <= Cardinality(Extra)
    BY <1>1, <1>4 DEF TallyInv
  <2> HIDE DEF n
  <2>3. tally'.calls - tally'.extra <= Cardinality(First') /\ tally'.extra <= Cardinality(Extra')
    <3>1. CASE n = 1
      BY <1>5, <2>1, <2>2, <3>1
    <3>2. CASE n > 1
      BY <1>5, <2>1, <2>2, <3>2
    <3> QED BY <1>5, <3>1, <3>2
  <2>4. tally'.usage = tally'.calls + Cardinality(Paying')
    BY <1>6, <2>1, <2>2
  <2>5. tally'.usage \in Nat /\ tally'.calls \in Nat /\ tally'.extra \in Nat
    BY <2>1, <2>2
  <2> QED BY <1>4, <2>1, <2>3, <2>4, <2>5 DEF TallyInv
<1>8. PaidInv'
  <2>1. SUFFICES ASSUME "budget" \notin Faults PROVE PaidInv'
    BY DEF PaidInv
  <2>2. Heard = spent + Cardinality(Paying) /\ spent + Cardinality(Owed) <= Ceiling
    <3>1. Heard = spent + Cardinality(Paying) + 0 /\ spent + Cardinality(Owed) <= Ceiling
      BY <1>1, <1>4, <2>1 DEF PaidInv
    <3> QED BY <1>1, <1>6, <3>1
  <2>3. Ceiling \in Nat /\ spent' = spent + 1
    BY <1>3, <2>1, CeilingType
  <2>4. Heard' = spent' + Cardinality(Paying') + 0 /\ spent' + Cardinality(Owed') <= Ceiling
    <3>1. Heard' = Heard
      BY DEF Heard
    <3> QED BY <1>1, <1>5, <1>6, <2>2, <2>3, <3>1
  <2>5. pc' = "pool" /\ Ceiling' = Ceiling
    BY <1>4 DEF Ceiling
  <2> QED BY <2>4, <2>5 DEF PaidInv
<1> QED BY <1>4, <1>7, <1>8 DEF FanInv

LEMMA RecordStep == ASSUME FanInv, NEW r \in Runners, Record(r) PROVE FanInv'
<1> DEFINE x == runner[r]
<1>1. StageInv /\ TakenInv /\ BestIsKept
  BY DEF FanInv, ReportInv
<1>2. /\ x.pc = "record" /\ RecordUsage
      /\ UNCHANGED <<pc, cursor, exhausted, board, outcome, cached, billed, unheard, runs>>
      /\ tally' = [tally EXCEPT !.calls = @ + 1, !.extra = IF x.sample > 1 THEN @ + 1 ELSE @]
  BY DEF Record
<1>3. RunnerShape(x) /\ x.got \in SUBSET (1..MaxScore) /\ exhausted \in BOOLEAN
  <2>1. RunnerShape(x)
    BY <1>1, <1>2, AtWork
  <2> QED BY <1>1, <2>1 DEF RunnerShape, StageInv
<1>4. ASSUME NEW got \in SUBSET (1..MaxScore), NextSample(r, got) PROVE FanInv'
  <2>1. TakenInv' /\ BestIsKept' /\ \E e : Onward(r, e)
    BY <1>1, <1>2, <1>4, GoesOn
  <2>2. PICK e : Onward(r, e)
    BY <2>1
  <2> QED BY <1>2, <2>1, <2>2, RecordedCall
<1>5. CASE Conclude(r, x.got, TRUE, exhausted)
  <2>1. TakenInv' /\ BestIsKept' /\ Onward(r, Free)
    BY <1>1, <1>2, <1>3, <1>5, Concludes
  <2> QED BY <1>2, <2>1, RecordedCall
<1>6. \A score \in 1..MaxScore : x.got \cup {score} \in SUBSET (1..MaxScore)
  BY <1>3
<1> QED BY <1>3, <1>4, <1>5, <1>6 DEF Record

\* A stage without runners at work pays nothing and owes nothing.
LEMMA NobodyPays ==
  ASSUME Busy = {}
  PROVE  Paying = {} /\ Owed = {} /\ Begun = {} /\ Cardinality(Paying) = 0 /\ Cardinality(Owed) = 0
<1>1. \A r \in Runners : runner[r].pc = "free"
  BY DEF Busy
<1>2. Paying = {} /\ Owed = {} /\ Begun = {}
  BY <1>1 DEF Paying, Owed, Begun, Busy
<1> QED BY <1>2, FS_EmptySet

\* The reports, by community and by lens.
LEMMA PostedIs ==
  ASSUME TakenInv
  PROVE  /\ Posted(entries) \in Seq(EntrySet) /\ Len(Posted(entries)) = Len(entries)
         /\ {OfJob(Posted(entries)[i]) : i \in 1..Len(entries)} = {OfJob(entries[i]) : i \in 1..Len(entries)}
         /\ \A i, k \in 1..Len(entries) : i < k =>
              \/ Posted(entries)[i].cluster < Posted(entries)[k].cluster
              \/ Posted(entries)[i].cluster = Posted(entries)[k].cluster
                 /\ Posted(entries)[i].lens < Posted(entries)[k].lens
<1> DEFINE n == Len(entries)
           D == 1..n
           Before == {p \in D \X D : Ahead(entries, p[1], p[2])}
           place == ByPlace(D, Before)
<1>1. entries \in Seq(EntrySet) /\ n \in Nat /\ DOMAIN entries = D
  <2>1. entries \in Seq(EntrySet)
    BY DEF TakenInv
  <2> QED BY <2>1
<1>2. \A i \in D : entries[i] \in EntrySet /\ entries[i].cluster \in Int /\ entries[i].lens \in Int
  <2>1. \A x \in EntrySet : x.cluster \in Int /\ x.lens \in Int
    <3>1. \A x \in EntrySet : x.cluster \in Communities /\ x.lens \in Lenses
      BY DEF EntrySet
    <3>2. Communities \subseteq Int /\ Lenses \subseteq Int
      BY FanOutAssumption
    <3> QED BY <3>1, <3>2
  <2> QED BY <1>1, <2>1
<1>3. \A i, k \in D : entries[i].cluster = entries[k].cluster /\ entries[i].lens = entries[k].lens => i = k
  BY <1>1 DEF TakenInv, OfJob
<1>4. IsFiniteSet(D) /\ Cardinality(D) = n
  BY <1>1, FS_Interval
<1> HIDE DEF D, n
<1>5. \A i, k \in D : <<i, k>> \in Before <=> Ahead(entries, i, k)
  OBVIOUS
<1>6. D \subseteq Int
  BY DEF D
<1> HIDE DEF Before
<1>7. StrictOrder(D, Before)
  <2>1. \A i \in D : ~Ahead(entries, i, i)
    BY <1>2, <1>6 DEF Ahead
  <2>2. \A i, k \in D : i # k => Ahead(entries, i, k) \/ Ahead(entries, k, i)
    BY <1>2, <1>6 DEF Ahead
  <2>3. \A i, k, q \in D : Ahead(entries, i, k) /\ Ahead(entries, k, q) => Ahead(entries, i, q)
    <3> SUFFICES ASSUME NEW i \in D, NEW k \in D, NEW q \in D, Ahead(entries, i, k), Ahead(entries, k, q)
                 PROVE  Ahead(entries, i, q)
      OBVIOUS
    <3>1. /\ i \in Int /\ k \in Int /\ q \in Int
          /\ entries[i].cluster \in Int /\ entries[k].cluster \in Int /\ entries[q].cluster \in Int
          /\ entries[i].lens \in Int /\ entries[k].lens \in Int /\ entries[q].lens \in Int
      BY <1>2, <1>6
    <3> QED BY <3>1 DEF Ahead
  <2> QED BY <1>5, <2>1, <2>2, <2>3 DEF StrictOrder
<1>8. InSequence(place, D, Before)
  BY <1>4, <1>7, Placed DEF InSequence
<1>9. (\A e \in D : \E i \in D : place[i] = e) /\ place \in [D -> D] /\ \A i, k \in D : i < k => <<place[i], place[k]>> \in Before
  <2>1. 1..Cardinality(D) = D
    BY <1>4 DEF D
  <2>2. \A e \in D : \E i \in 1..Cardinality(D) : place[i] = e
    <3> HIDE DEF place
    <3> QED BY <1>4, <1>7, <1>8, SortedIsOnce
  <2> HIDE DEF place
  <2> QED BY <1>8, <2>1, <2>2 DEF InSequence
<1>10. Posted(entries) = [k \in D |-> entries[place[k]]]
  <2>1. \A i \in D : {p \in D : Ahead(entries, p, i)} = {p \in D : <<p, i>> \in Before}
    BY <1>5
  <2>2. \A k \in D : (CHOOSE i \in D : Cardinality({p \in D : Ahead(entries, p, i)}) = k - 1)
                     = (CHOOSE i \in D : Cardinality({p \in D : <<p, i>> \in Before}) = k - 1)
    BY <2>1
  <2>3. \A k \in D : place[k] = CHOOSE i \in D : Cardinality({p \in D : <<p, i>> \in Before}) = k - 1
    BY <1>4 DEF ByPlace, D
  <2>4. Posted(entries) = [k \in D |-> entries[CHOOSE i \in D : Cardinality({p \in D : Ahead(entries, p, i)}) = k - 1]]
    BY <1>1 DEF Posted
  <2>5. \A k \in D : place[k] = CHOOSE i \in D : Cardinality({p \in D : Ahead(entries, p, i)}) = k - 1
    <3> HIDE DEF place
    <3> QED BY <2>2, <2>3, Zenon
  <2> HIDE DEF place
  <2> QED BY <2>4, <2>5, Zenon
<1> HIDE DEF place
<1> DEFINE S == [k \in D |-> entries[place[k]]]
<1>11. S \in Seq(EntrySet) /\ Len(S) = n /\ \A k \in D : S[k] = entries[place[k]]
  <2>1. S \in [1..n -> EntrySet]
    BY <1>2, <1>9 DEF D
  <2>2. n \in Nat
    BY <1>1
  <2> QED BY <2>1, <2>2 DEF D
<1> HIDE DEF S
<1>12. {OfJob(S[i]) : i \in D} = {OfJob(entries[i]) : i \in D}
  BY <1>9, <1>11
<1>13. ASSUME NEW i \in D, NEW k \in D, i < k
       PROVE  S[i].cluster < S[k].cluster \/ (S[i].cluster = S[k].cluster /\ S[i].lens < S[k].lens)
  <2>1. Ahead(entries, place[i], place[k]) /\ place[i] \in D /\ place[k] \in D
    BY <1>5, <1>9, <1>13
  <2>2. place[i] # place[k]
    BY <1>5, <1>7, <2>1 DEF StrictOrder
  <2>3. ~(entries[place[i]].cluster = entries[place[k]].cluster /\ entries[place[i]].lens = entries[place[k]].lens)
    BY <1>3, <2>1, <2>2
  <2> QED BY <1>11, <2>1, <2>3 DEF Ahead
<1>14. S = Posted(entries)
  BY <1>10 DEF S
<1>15. /\ S \in Seq(EntrySet) /\ Len(S) = Len(entries)
       /\ {OfJob(S[i]) : i \in 1..Len(entries)} = {OfJob(entries[i]) : i \in 1..Len(entries)}
       /\ \A i, k \in 1..Len(entries) : i < k =>
            S[i].cluster < S[k].cluster \/ (S[i].cluster = S[k].cluster /\ S[i].lens < S[k].lens)
  BY <1>11, <1>12, <1>13 DEF D, n
<1> QED BY <1>14, <1>15

\* When the runners are done, every job has been reported once.
LEMMA AllReported ==
  ASSUME StageInv, TakenInv, cursor = Len(Jobs), Busy = {}
  PROVE  /\ Len(entries) = Len(Jobs)
         /\ {OfJob(entries[i]) : i \in 1..Len(entries)} = [cluster : Selected, lens : Lenses]
<1> DEFINE n == Len(Jobs)
           m == Len(entries)
           K == {OfJob(Jobs[k]) : k \in 1..n}
<1>1. n \in Nat /\ m \in Nat /\ DOMAIN entries = 1..m
  <2>1. entries \in Seq(EntrySet)
    BY DEF TakenInv
  <2> QED BY <2>1, JobsAre
<1>2. Finished = 1..n
  BY NobodyPays DEF Finished
<1>3. {OfJob(entries[i]) : i \in 1..m} = K
  BY <1>1, <1>2 DEF TakenInv
<1>4. \A i, k \in 1..m : OfJob(entries[i]) = OfJob(entries[k]) => i = k
  BY <1>1 DEF TakenInv
<1>5. IsFiniteSet(1..n) /\ IsFiniteSet(1..m) /\ Cardinality(1..n) = n /\ Cardinality(1..m) = m
  <2> HIDE DEF n, m
  <2>1. \A z \in Nat : IsFiniteSet(1..z) /\ Cardinality(1..z) = z
    BY FS_Interval
  <2> QED BY <1>1, <2>1
<1>6. Cardinality(K) = n
  <2> DEFINE f == [k \in 1..n |-> OfJob(Jobs[k])]
  <2>1. f \in Surjection(1..n, K)
    BY DEF Surjection
  <2>2. f \in Injection(1..n, K)
    BY JobsDiffer DEF Injection, IsInjective
  <2> HIDE DEF f, K
  <2> QED BY <1>5, <2>1, <2>2, FS_Surjection
<1>7. Cardinality(K) = m
  <2> DEFINE f == [k \in 1..m |-> OfJob(entries[k])]
  <2> HIDE DEF K
  <2>1. f \in Surjection(1..m, K)
    <3>1. \A k \in 1..m : OfJob(entries[k]) \in K
      BY <1>3
    <3>2. \A x \in K : \E k \in 1..m : x = OfJob(entries[k])
      BY <1>3
    <3> QED BY <3>1, <3>2 DEF Surjection
  <2>2. f \in Injection(1..m, K)
    BY <1>4, <2>1 DEF Injection, IsInjective, Surjection
  <2> HIDE DEF f
  <2> QED BY <1>5, <2>1, <2>2, FS_Surjection
<1>8. K = [cluster : Selected, lens : Lenses]
  <2>1. ASSUME NEW x \in K PROVE x \in [cluster : Selected, lens : Lenses]
    <3>1. PICK k \in 1..n : x = OfJob(Jobs[k])
      OBVIOUS
    <3> QED BY <3>1, JobsDiffer DEF OfJob
  <2>2. ASSUME NEW x \in [cluster : Selected, lens : Lenses] PROVE x \in K
    <3>1. x.cluster \in Selected /\ x.lens \in Lenses /\ x = [cluster |-> x.cluster, lens |-> x.lens]
      OBVIOUS
    <3> DEFINE j == [cluster |-> x.cluster, lens |-> x.lens, samples |-> SamplesOf(x.cluster)]
    <3>2. j \in JobSet
      <4>1. <<x.cluster, x.lens>> \in Selected \X Lenses
        BY <3>1
      <4> QED BY <4>1 DEF JobSet
    <3>3. OfJob(j) = x
      BY <3>1 DEF OfJob
    <3> HIDE DEF j
    <3>4. PICK k \in 1..n : Jobs[k] = j
      BY <3>2, JobsAre
    <3> QED BY <3>3, <3>4
  <2> QED BY <2>1, <2>2
<1> HIDE DEF K, n, m
<1> QED BY <1>3, <1>6, <1>7, <1>8 DEF n, m

\* What a step without runners leaves as it is.
LEMMA RunnersRest ==
  ASSUME FanInv, UNCHANGED <<cursor, runner, entries>>
  PROVE  /\ TakenInv' /\ BestIsKept' /\ First' = First /\ Extra' = Extra /\ Paying' = Paying /\ Owed' = Owed
         /\ Busy' = Busy
<1>1. TakenInv /\ BestIsKept
  BY DEF FanInv, ReportInv
<1>2. Busy' = Busy /\ Paying' = Paying /\ Owed' = Owed
  BY DEF Busy, Paying, Owed
<1>3. Begun' = Begun
  BY <1>2 DEF Begun
<1>4. Finished' = Finished
  BY <1>3 DEF Finished
<1>5. Settled' = Settled
  BY <1>2 DEF Settled
<1>6. First' = First /\ Extra' = Extra
  BY <1>5 DEF First, Extra
<1>7. BestIsKept'
  BY <1>1 DEF BestIsKept
<1>8. {OfJob(entries'[i]) : i \in DOMAIN entries'} = {OfJob(Jobs[k]) : k \in Finished'}
  BY <1>1, <1>4 DEF TakenInv
<1>9. entries' \in Seq(EntrySet) /\ \A i, k \in DOMAIN entries' : OfJob(entries'[i]) = OfJob(entries'[k]) => i = k
  BY <1>1 DEF TakenInv
<1>10. /\ \A q \in Busy' : runner'[q].job <= cursor'
       /\ \A q, p \in Busy' : runner'[q].job = runner'[p].job => q = p
  BY <1>1, <1>2 DEF TakenInv
<1>11. TakenInv'
  BY <1>8, <1>9, <1>10 DEF TakenInv
<1> QED BY <1>2, <1>6, <1>7, <1>11

LEMMA PostStep == ASSUME FanInv, Post PROVE FanInv'
<1> DEFINE sorted == Posted(entries)
           old == board.versions
           new == [i \in DOMAIN sorted |-> SubSeq(sorted, 1, i)]
           versions == old \o new
           n == Len(sorted)
<1>1. /\ StageInv /\ TakenInv /\ BoardInv /\ BestIsKept /\ DegradedIsNotFrozen /\ TallyInv /\ PaidInv
      /\ pc = "pool" /\ cursor = Len(Jobs) /\ Busy = {} /\ pc' = "gate"
      /\ UNCHANGED <<cursor, runner, exhausted, entries, tally, outcome, cached, spent, billed, unheard, runs>>
  BY DEF FanInv, ReportInv, Post, poolVars, Busy
<1>2. board' = [versions |-> versions, read |-> Len(versions)]
  BY DEF Post
<1>3. /\ sorted \in Seq(EntrySet) /\ n = Len(Jobs) /\ n \in Nat /\ DOMAIN sorted = 1..n /\ Len(entries) = n
      /\ Len(sorted) = n
      /\ {OfJob(sorted[i]) : i \in 1..n} = [cluster : Selected, lens : Lenses]
      /\ \A i, k \in 1..n : i < k =>
            sorted[i].cluster < sorted[k].cluster \/ (sorted[i].cluster = sorted[k].cluster /\ sorted[i].lens < sorted[k].lens)
  <2>1. Len(entries) = Len(Jobs) /\ {OfJob(entries[i]) : i \in 1..Len(entries)} = [cluster : Selected, lens : Lenses]
    BY <1>1, AllReported
  <2>2. Len(Jobs) \in Nat
    BY JobsAre
  <2>3. sorted \in Seq(EntrySet)
    BY <1>1, PostedIs
  <2> HIDE DEF sorted
  <2>4. DOMAIN sorted = 1..n
    BY <2>3
  <2> QED BY <1>1, <2>1, <2>2, <2>3, <2>4, PostedIs DEF sorted
<1> HIDE DEF sorted, n
<1>4. old = << <<>> >>
  BY <1>1 DEF BoardInv
<1> HIDE DEF old
<1>5. Len(versions) = n + 1 /\ versions[n + 1] = sorted /\ versions # <<>>
  <2>1. new \in Seq(Seq(EntrySet)) /\ Len(new) = n /\ \A i \in 1..n : new[i] = SubSeq(sorted, 1, i)
    <3>1. \A i \in 1..n : SubSeq(sorted, 1, i) \in Seq(EntrySet)
      BY <1>3
    <3>2. new \in [1..n -> Seq(EntrySet)]
      BY <1>3, <3>1
    <3> QED BY <1>3, <3>2
  <2> HIDE DEF new
  <2>2. old \in Seq({<<>>}) /\ Len(old) = 1 /\ old[1] = <<>>
    BY <1>4
  <2>3. Len(versions) = n + 1 /\ \A i \in 1..(n + 1) : versions[i] = IF i <= 1 THEN old[i] ELSE new[i - 1]
    <3>1. ASSUME NEW A, NEW a \in Seq(A), NEW b \in Seq(A)
          PROVE  /\ Len(a \o b) = Len(a) + Len(b)
                 /\ \A i \in 1..(Len(a) + Len(b)) : (a \o b)[i] = IF i <= Len(a) THEN a[i] ELSE b[i - Len(a)]
      OBVIOUS
    <3>2. old \in Seq(Seq(EntrySet))
      BY <1>4
    <3>3. /\ Len(versions) = 1 + n
          /\ \A i \in 1..(1 + n) : versions[i] = IF i <= 1 THEN old[i] ELSE new[i - 1]
      <4>1. /\ Len(versions) = Len(old) + Len(new)
            /\ \A i \in 1..(Len(old) + Len(new)) : versions[i] = IF i <= Len(old) THEN old[i] ELSE new[i - Len(old)]
        BY <2>1, <3>1, <3>2
      <4> HIDE DEF versions
      <4> QED BY <2>1, <2>2, <4>1
    <3>4. 1 + n = n + 1
      BY <1>3
    <3> QED BY <3>3, <3>4
  <2>4. versions[n + 1] = sorted
    <3>1. CASE n = 0
      <4>1. sorted = <<>>
        BY <1>3, <3>1
      <4> QED BY <2>2, <2>3, <3>1, <4>1
    <3>2. CASE n > 0
      <4>1. versions[n + 1] = new[n]
        BY <1>3, <2>3, <3>2
      <4>2. new[n] = SubSeq(sorted, 1, n)
        BY <1>3, <2>1, <3>2
      <4>3. SubSeq(sorted, 1, n) = sorted
        BY <1>3
      <4> QED BY <4>1, <4>2, <4>3
    <3>3. n = 0 \/ n > 0
      BY <1>3
    <3> QED BY <3>1, <3>2, <3>3
  <2> HIDE DEF versions
  <2> QED BY <1>3, <2>3, <2>4
<1> HIDE DEF versions
<1>6. board'.versions[board'.read] = sorted /\ board'.versions # <<>>
  BY <1>2, <1>5
<1>7. EveryLensReports'
  <2>1. Len(sorted) = Len(Jobs) /\ DOMAIN sorted = 1..n
    BY <1>3
  <2>2. {[cluster |-> e.cluster, lens |-> e.lens] : e \in ToSet(sorted)} = [cluster : Selected, lens : Lenses]
    <3>1. ToSet(sorted) = {sorted[i] : i \in 1..n}
      BY <1>3 DEF ToSet
    <3>2. {[cluster |-> e.cluster, lens |-> e.lens] : e \in {sorted[i] : i \in 1..n}} = {OfJob(sorted[i]) : i \in 1..n}
      BY DEF OfJob
    <3> QED BY <1>3, <3>1, <3>2
  <2> QED BY <1>3, <1>6, <2>1, <2>2 DEF EveryLensReports
<1>8. StageInv'
  BY <1>1 DEF StageInv, Busy, Ready, Concluding
<1>9. TakenInv' /\ BestIsKept'
  BY <1>1, RunnersRest
<1>10. BoardInv' /\ DegradedIsNotFrozen'
  BY <1>1, <1>6 DEF BoardInv, DegradedIsNotFrozen, Ready, Concluding
<1>11. TallyInv'
  BY <1>1, RunnersRest DEF TallyInv, Ready
<1>12. PaidInv'
  BY <1>1, RunnersRest DEF PaidInv, Ceiling, Heard
<1> QED BY <1>7, <1>8, <1>9, <1>10, <1>11, <1>12 DEF FanInv, ReportInv

\* The board shows one entry for each lens of each selected community.
ShowsEveryLens(b) ==
  LET shown == b.versions[b.read]
  IN /\ Len(shown) = Len(Jobs)
     /\ {[cluster |-> e.cluster, lens |-> e.lens] : e \in ToSet(shown)} =
          [cluster : Selected, lens : Lenses]
     /\ \A i, j \in DOMAIN shown : i < j =>
          \/ shown[i].cluster < shown[j].cluster
          \/ shown[i].cluster = shown[j].cluster /\ shown[i].lens < shown[j].lens

LEMMA BoardStays ==
  ASSUME EveryLensReports, board' = board, pc' = pc \/ pc \in Concluding
  PROVE  EveryLensReports'
<1>1. EveryLensReports <=> (pc \in {"gate", "supervise", "derive", "conclude"} => ShowsEveryLens(board))
  BY DEF EveryLensReports, ShowsEveryLens
<1>2. EveryLensReports' <=> (pc' \in {"gate", "supervise", "derive", "conclude"} => ShowsEveryLens(board'))
  BY DEF EveryLensReports, ShowsEveryLens
<1>3. ShowsEveryLens(board') <=> ShowsEveryLens(board)
  OBVIOUS
<1> QED BY <1>1, <1>2, <1>3 DEF Concluding

LEMMA ReadStep == ASSUME FanInv, ReadCache \/ Open PROVE FanInv'
<1>1. /\ StageInv /\ BoardInv /\ BestIsKept /\ DegradedIsNotFrozen /\ TallyInv /\ PaidInv
      /\ UNCHANGED <<cursor, runner, exhausted, entries, tally, cached, spent, billed, unheard, runs>>
      /\ pc \in Ready /\ pc' \in {"open", "pool", "ended"}
  BY DEF FanInv, ReportInv, ReadCache, Open, poolVars, Ready
<1>2. StageInv'
  <2>1. outcome' \in {"", "supervisor", "fallback"}
    BY <1>1 DEF ReadCache, Open, StageInv
  <2> QED BY <1>1, <2>1 DEF StageInv, Busy, Ready, Concluding
<1>3. BoardInv'
  <2>1. CASE ReadCache
    BY <1>1, <2>1 DEF BoardInv, ReadCache, Ready, Concluding
  <2>2. CASE Open
    BY <1>1, <2>2 DEF BoardInv, Open, Ready, Concluding
  <2> QED BY <2>1, <2>2
<1>4. EveryLensReports' /\ DegradedIsNotFrozen'
  <2>1. CASE ReadCache
    BY <1>1, <2>1 DEF DegradedIsNotFrozen, EveryLensReports, ReadCache, StageInv
  <2>2. CASE Open
    BY <1>1, <2>2 DEF DegradedIsNotFrozen, EveryLensReports, Open, StageInv
  <2> QED BY <2>1, <2>2
<1>5. Busy = {} /\ Cardinality(Paying) = 0
  BY <1>1, NobodyPays DEF StageInv, Ready
<1>6. TallyInv'
  BY <1>1, <1>5, RunnersRest DEF TallyInv, Ready
<1>7. PaidInv'
  BY <1>1, RunnersRest DEF PaidInv, Ceiling, Ready, Heard
<1>8. TakenInv' /\ BestIsKept'
  BY <1>1, RunnersRest
<1> QED BY <1>2, <1>3, <1>4, <1>6, <1>7, <1>8 DEF FanInv, ReportInv

\* The stage after the pool.
LEMMA ConcludeStep == ASSUME FanInv, Gate \/ Supervise \/ Derive \/ Keep PROVE FanInv'
<1>1. /\ StageInv /\ BoardInv /\ BestIsKept /\ DegradedIsNotFrozen /\ EveryLensReports /\ TallyInv /\ PaidInv
      /\ UNCHANGED <<cursor, runner, exhausted, entries, board, runs>>
      /\ pc \in Concluding /\ pc' \in {"supervise", "derive", "conclude", "ended"}
  BY DEF FanInv, ReportInv, Gate, Supervise, Derive, Keep, poolVars, Concluding
<1>2. Busy = {} /\ Cardinality(Paying) = 0 /\ Cardinality(Owed) = 0
  BY <1>1, NobodyPays DEF StageInv, Concluding
<1>3. /\ spent \in Nat /\ billed \in Nat /\ unheard \in Nat /\ Limit \in Nat
      /\ cached = "none"
  BY <1>1, FanOutAssumption DEF StageInv, DegradedIsNotFrozen, Concluding
<1>4. Fallback \in {"", "fallback"}
  BY DEF Fallback
<1>5. /\ spent' \in Nat /\ billed' \in Nat /\ unheard' \in Nat /\ outcome' \in {"", "supervisor", "fallback"} /\ cached' \in {"none", "supervisor"}
      /\ cached' = "supervisor" => pc' = "ended"
  <2>1. outcome \in {"", "supervisor", "fallback"}
    BY <1>1 DEF StageInv
  <2>2. CASE Gate
    BY <1>3, <1>4, <2>1, <2>2 DEF Gate
  <2>3. CASE Supervise
    <3>1. /\ cached' = cached /\ spent' = spent /\ outcome' \in {outcome, Fallback}
          /\ billed' \in {billed, billed + 1} /\ unheard' \in {unheard, unheard + 1}
      BY <2>3 DEF Supervise, Answers, Throws
    <3>2. billed' \in Nat /\ unheard' \in Nat
      BY <1>3, <3>1
    <3> QED BY <1>3, <1>4, <2>1, <3>1, <3>2
  <2>4. CASE Derive
    <3>1. /\ cached' = cached /\ billed' = billed /\ unheard' = unheard /\ spent' \in {spent, spent + 1} /\ outcome' \in {"supervisor", Fallback}
      BY <2>4 DEF Derive, RecordUsage
    <3>2. spent' \in Nat
      BY <1>3, <3>1
    <3> QED BY <1>3, <1>4, <3>1, <3>2
  <2>5. CASE Keep
    BY <1>3, <1>4, <2>1, <2>5 DEF Keep
  <2> QED BY <2>2, <2>3, <2>4, <2>5
<1>6. pc' \in {"supervise", "derive"} => ~exhausted
  BY <1>1 DEF Gate, Supervise, Derive, Keep, StageInv
<1>7. StageInv'
  BY <1>1, <1>5, <1>6, RunnersRest DEF StageInv, Ready, Concluding
<1>8. BoardInv' /\ EveryLensReports' /\ DegradedIsNotFrozen'
  <2>1. board.versions # <<>> /\ board' = board
    BY <1>1 DEF BoardInv
  <2>2. BoardInv'
    BY <1>1, <2>1 DEF BoardInv, Ready, Concluding
  <2>3. EveryLensReports'
    BY <1>1, BoardStays
  <2>4. DegradedIsNotFrozen'
    BY <1>5, <2>1 DEF DegradedIsNotFrozen
  <2> QED BY <2>2, <2>3, <2>4
<1>9. TallyInv'
  <2>1. TallyInv /\ First' = First /\ Extra' = Extra /\ Cardinality(Paying') = 0
    BY <1>1, <1>2, RunnersRest
  <2>2. CASE UNCHANGED tally
    <3>1. CASE Gate
      BY <1>1, <1>2, <2>1, <2>2, <3>1 DEF TallyInv, Gate, Ready
    <3>2. CASE Supervise
      BY <1>1, <1>2, <2>1, <2>2, <3>2 DEF TallyInv, Supervise, Answers, Ready
    <3>3. CASE Derive \/ Keep
      BY <1>1, <1>2, <2>1, <2>2, <3>3 DEF TallyInv, Derive, Keep, Ready
    <3> QED BY <3>1, <3>2, <3>3
  <2>3. CASE Supervise /\ tally' = [tally EXCEPT !.usage = @ + 1]
    BY <1>1, <1>2, <2>1, <2>3 DEF TallyInv, Supervise, Ready
  <2> QED BY <2>2, <2>3 DEF Gate, Supervise, Derive, Keep, Answers, Throws, poolVars
<1>10. PaidInv'
  <2>1. SUFFICES ASSUME "budget" \notin Faults PROVE PaidInv'
    BY DEF PaidInv
  <2>2. /\ Heard = spent + 0 + (IF pc = "derive" THEN 1 ELSE 0)
        /\ spent + 0 <= Ceiling /\ (pc \in {"supervise", "derive"} => spent + 1 <= Limit)
    BY <1>1, <1>2, <2>1 DEF PaidInv
  <2>3. Ceiling \in Nat /\ (Limit >= 1 => Ceiling >= Limit) /\ Heard \in Int
    BY <1>3, CeilingType DEF Heard
  <2>4. CASE Gate
    <3>1. UNCHANGED <<spent, Heard>> /\ pc = "gate" /\ pc' \in {"supervise", "conclude"} /\ (pc' = "supervise" => spent + 1 <= Limit)
      BY <2>1, <2>4 DEF Gate, MayCall, Heard
    <3> QED BY <1>2, <1>3, <2>2, <2>3, <3>1, RunnersRest, <1>1 DEF PaidInv, Ceiling
  <2>5. CASE Supervise
    <3>1. spent' = spent /\ pc = "supervise" /\ \/ pc' = "derive" /\ Heard' = Heard + 1
                                                \/ pc' = "conclude" /\ Heard' = Heard
      <4>1. CASE pc' = "derive" /\ Answers
        BY <1>3, <2>5, <4>1 DEF Supervise, Answers, Heard
      <4>2. CASE pc' = "conclude" /\ Throws
        BY <1>1, <2>5, <4>2, HeardStays DEF Supervise
      <4> QED BY <2>5, <4>1, <4>2 DEF Supervise
    <3> QED BY <1>2, <1>3, <2>2, <2>3, <3>1, RunnersRest, <1>1 DEF PaidInv, Ceiling
  <2>6. CASE Derive
    <3>1. spent' = spent + 1 /\ Heard' = Heard /\ pc = "derive" /\ pc' = "conclude"
      BY <2>1, <2>6 DEF Derive, RecordUsage, Heard
    <3>2. spent + 1 <= Ceiling
      BY <1>3, <2>2, <2>3, <3>1
    <3> QED BY <1>2, <1>3, <2>2, <2>3, <3>1, <3>2, RunnersRest, <1>1 DEF PaidInv, Ceiling
  <2>7. CASE Keep
    <3>1. spent' = spent /\ Heard' = Heard /\ pc = "conclude" /\ pc' = "ended"
      BY <2>7 DEF Keep, Heard
    <3> QED BY <1>2, <1>3, <2>2, <2>3, <3>1, RunnersRest, <1>1 DEF PaidInv, Ceiling
  <2> QED BY <2>4, <2>5, <2>6, <2>7
<1> QED BY <1>1, <1>7, <1>8, <1>9, <1>10, RunnersRest DEF FanInv, ReportInv

LEMMA NothingYet == 1..0 = {}
OBVIOUS

LEMMA NoneYet == <<>> \in Seq(EntrySet) /\ DOMAIN <<>> = {}
<1>1. <<>> \in Seq(EntrySet) /\ Len(<<>>) = 0
  OBVIOUS
<1> QED BY <1>1, NothingYet

LEMMA RerunStep == ASSUME FanInv, Rerun PROVE FanInv'
<1>1. /\ StageInv /\ DegradedIsNotFrozen /\ PaidInv /\ pc = "ended" /\ pc' = "start" /\ outcome' = ""
      /\ cursor' = 0 /\ exhausted' = FALSE /\ entries' = <<>> /\ board' = EmptyBoard /\ tally' = NoTally
      /\ runs' = runs + 1 /\ UNCHANGED <<runner, cached, spent, billed, unheard>>
  BY DEF FanInv, ReportInv, Rerun
<1>2. Busy = {} /\ Busy' = {}
  BY <1>1 DEF StageInv, Busy, Ready, Concluding
<1>3. StageInv'
  <2>1. 0 \in 0..Len(Jobs)
    BY JobsAre
  <2>2. DOMAIN runner' = Runners /\ \A r \in Runners : RunnerShape(runner'[r])
    BY <1>1 DEF StageInv
  <2>4. runs \in Nat /\ runs' = runs + 1
    BY <1>1 DEF StageInv
  <2>5. runs' \in Nat
    BY <2>4
  <2>3. cached' \in {"none", "supervisor"} /\ spent' \in Nat /\ billed' \in Nat /\ unheard' \in Nat
    BY <1>1 DEF StageInv
  <2> QED BY <1>1, <1>2, <2>1, <2>2, <2>3, <2>5 DEF StageInv, Ready
<1>4. TakenInv' /\ BestIsKept'
  <2>1. Finished' = {}
    BY <1>1, NothingYet DEF Finished
  <2>2. entries' \in Seq(EntrySet) /\ DOMAIN entries' = {}
    BY <1>1, NoneYet
  <2> QED BY <1>2, <2>1, <2>2 DEF TakenInv, BestIsKept
<1>5. BoardInv' /\ EveryLensReports' /\ DegradedIsNotFrozen'
  BY <1>1 DEF BoardInv, EveryLensReports, DegradedIsNotFrozen, EmptyBoard, Ready, Concluding
<1>6. TallyInv'
  <2>1. Paying' = {} /\ First' = {} /\ Extra' = {}
    <3>1. Settled' = {}
      BY <1>1, NothingYet DEF Settled
    <3> QED BY <1>2, <3>1 DEF Paying, First, Extra, Busy
  <2>2. Cardinality(Paying') = 0 /\ Cardinality(First') = 0 /\ Cardinality(Extra') = 0
    BY <2>1, FS_EmptySet
  <2>3. /\ DOMAIN tally' = {"usage", "calls", "extra"}
        /\ tally'.usage = 0 /\ tally'.calls = 0 /\ tally'.extra = 0
    BY <1>1 DEF NoTally
  <2>4. pc' = "start"
    BY <1>1
  <2> QED BY <2>2, <2>3, <2>4 DEF TallyInv
<1>7. PaidInv'
  <2>1. Paying' = Paying /\ Owed' = Owed
    BY <1>1 DEF Paying, Owed
  <2> QED BY <1>1, <2>1 DEF PaidInv, Ceiling, Heard
<1> QED BY <1>3, <1>4, <1>5, <1>6, <1>7 DEF FanInv, ReportInv

LEMMA FanOutStep == FanInv /\ [Next]_vars => FanInv'
<1> SUFFICES ASSUME FanInv, [Next]_vars PROVE FanInv'
  OBVIOUS
<1>1. CASE UNCHANGED vars
  <2>1. UNCHANGED <<pc, cursor, runner, exhausted, entries, board, tally, outcome, cached, spent, billed, unheard, runs>>
    BY <1>1 DEF vars
  <2>2. ReportInv'
    <3>1. TakenInv' /\ BestIsKept' /\ Busy' = Busy
      BY <2>1, RunnersRest
    <3>2. StageInv'
      BY <2>1, <3>1 DEF FanInv, ReportInv, StageInv
    <3>3. BoardInv' /\ EveryLensReports' /\ DegradedIsNotFrozen'
      <4>1. BoardInv'
        BY <2>1 DEF FanInv, ReportInv, BoardInv
      <4>2. EveryLensReports'
        BY <2>1, BoardStays DEF FanInv, ReportInv
      <4>3. DegradedIsNotFrozen'
        BY <2>1 DEF FanInv, ReportInv, DegradedIsNotFrozen
      <4> QED BY <4>1, <4>2, <4>3
    <3> QED BY <3>1, <3>2, <3>3 DEF ReportInv
  <2>3. TallyInv'
    BY <2>1, RunnersRest DEF FanInv, TallyInv
  <2>4. PaidInv'
    BY <2>1, RunnersRest DEF FanInv, PaidInv, Ceiling, Heard
  <2> QED BY <2>2, <2>3, <2>4 DEF FanInv
<1>2. CASE Stage
  BY <1>2, ReadStep, PostStep, ConcludeStep DEF Stage
<1>3. CASE Rerun
  BY <1>3, RerunStep
<1>4. ASSUME NEW r \in Runners, Work(r) PROVE FanInv'
  BY <1>4, TakeStep, CheckStep, ReplyStep, RecordStep DEF Work
<1> QED BY <1>1, <1>2, <1>3, <1>4 DEF Next

LEMMA FanOutStart == Init => FanInv
<1> SUFFICES ASSUME Init PROVE FanInv
  OBVIOUS
<1>1. Busy = {}
  BY DEF Init, Busy, Free
<1>2. StageInv
  <2>1. 0 \in 0..Len(Jobs)
    BY JobsAre
  <2> QED BY <1>1, <2>1, FreeShape DEF Init, StageInv, Ready
<1>3. TakenInv /\ BestIsKept
  <2>1. Finished = {}
    BY NothingYet DEF Finished, Init
  <2>2. entries \in Seq(EntrySet) /\ DOMAIN entries = {}
    BY NoneYet DEF Init
  <2> QED BY <1>1, <2>1, <2>2 DEF TakenInv, BestIsKept
<1>4. BoardInv /\ EveryLensReports /\ DegradedIsNotFrozen
  BY DEF Init, BoardInv, EveryLensReports, DegradedIsNotFrozen, EmptyBoard, Ready, Concluding
<1>5. Cardinality(Paying) = 0 /\ Cardinality(Owed) = 0 /\ Cardinality(First) = 0 /\ Cardinality(Extra) = 0
  <2>1. Settled = {}
    BY NothingYet DEF Settled, Init
  <2>2. First = {} /\ Extra = {}
    BY <2>1 DEF First, Extra
  <2> QED BY <1>1, <2>2, NobodyPays, FS_EmptySet
<1>6. TallyInv
  <2>1. /\ DOMAIN tally = {"usage", "calls", "extra"} /\ pc = "start"
        /\ tally.usage = 0 /\ tally.calls = 0 /\ tally.extra = 0
    BY DEF Init, NoTally
  <2> QED BY <1>5, <2>1 DEF TallyInv
<1>7. PaidInv
  <2>1. spent = 0 /\ pc = "start" /\ Ceiling \in Nat
    BY CeilingType DEF Init
  <2>2. Heard = 0
    <3>1. billed = 0 /\ unheard = 0
      BY DEF Init
    <3>2. 0 - 0 = 0
      OBVIOUS
    <3> QED BY <3>1, <3>2 DEF Heard
  <2> QED BY <1>5, <2>1, <2>2 DEF PaidInv
<1> QED BY <1>2, <1>3, <1>4, <1>6, <1>7 DEF FanInv, ReportInv

----------------------------------------------------------------------------
(* What the invariant says of the stage                                     *)

\* A community that is sampled more than once is one of the MaxHard hardest.
LEMMA SampledIsHard ==
  ASSUME NEW c \in Communities, SamplesOf(c) > 1
  PROVE  RankOf(c) \in 1..MaxHard /\ SamplesOf(c) = Samples
<1>1. MaxHard \in Nat /\ Samples \in Nat
  BY FanOutAssumption
<1>2. RankOf(c) <= MaxHard /\ SamplesOf(c) = Samples
  BY DEF SamplesOf
<1>3. RankOf(c) >= 1 /\ RankOf(c) \in Nat
  <2> DEFINE U == {d \in Communities : <<d, c>> \in Harder}
  <2>1. IsFiniteSet(U)
    BY FanOutAssumption, FS_Subset
  <2>2. Cardinality(U) \in Nat
    BY <2>1, FS_CardinalityType
  <2>3. RankOf(c) = 1 + Cardinality(U)
    BY DEF RankOf
  <2> HIDE DEF U
  <2> QED BY <2>2, <2>3
<1> QED BY <1>1, <1>2, <1>3

LEMMA RanksDiffer ==
  ASSUME NEW c \in Communities, NEW d \in Communities, RankOf(c) = RankOf(d)
  PROVE  c = d
<1> DEFINE Below(e) == Cardinality({x \in Communities : <<x, e>> \in Harder})
<1>1. \A x, y \in Communities : <<x, y>> \in Harder => Below(x) \in Nat /\ Below(y) \in Nat /\ Below(x) < Below(y)
  <2> SUFFICES ASSUME NEW x \in Communities, NEW y \in Communities, <<x, y>> \in Harder
               PROVE  Below(x) \in Nat /\ Below(y) \in Nat /\ Below(x) < Below(y)
    OBVIOUS
  <2>1. IsFiniteSet(Communities)
    BY FanOutAssumption
  <2>2. /\ Below(x) \in Nat /\ Below(y) \in 1..(Cardinality(Communities) - 1) /\ Below(x) < Below(y)
    BY <2>1, HarderOrders, FewerBefore
  <2>3. Cardinality(Communities) \in Nat
    BY <2>1, FS_CardinalityType
  <2> HIDE DEF Below
  <2> QED BY <2>2, <2>3
<1>2. RankOf(c) = 1 + Below(c) /\ RankOf(d) = 1 + Below(d)
  BY DEF RankOf
<1> HIDE DEF Below
<1>3. 1 + Below(c) = 1 + Below(d)
  BY <1>2
<1>4. \A i, k \in Nat : 1 + i = 1 + k => ~(i < k) /\ ~(k < i)
  OBVIOUS
<1>5. ASSUME <<c, d>> \in Harder PROVE FALSE
  <2>1. Below(c) \in Nat /\ Below(d) \in Nat /\ Below(c) < Below(d)
    BY <1>1, <1>5
  <2> QED BY <1>3, <1>4, <2>1
<1>6. ASSUME <<d, c>> \in Harder PROVE FALSE
  <2>1. Below(c) \in Nat /\ Below(d) \in Nat /\ Below(d) < Below(c)
    BY <1>1, <1>6
  <2> QED BY <1>3, <1>4, <2>1
<1> QED BY <1>5, <1>6, HarderOrders DEF StrictOrder

\* What is paid beyond one call for each job is paid for the hard communities.
LEMMA ExtraIsHard ==
  ASSUME StageInv
  PROVE  Cardinality(Extra) <= MaxHard * Cardinality(Lenses) * (Samples - 1)
<1> DEFINE H == 1..MaxHard
           More == 2..Samples
           Slots == (H \X Lenses) \X More
           slot == [p \in Extra |-> << <<RankOf(Jobs[p[1]].cluster), Jobs[p[1]].lens>>, p[2] >>]
<1>1. MaxHard \in Nat /\ Samples \in Nat /\ Samples >= 1 /\ IsFiniteSet(Lenses)
  BY FanOutAssumption
<1>2. /\ IsFiniteSet(Slots)
      /\ Cardinality(Slots) = MaxHard * Cardinality(Lenses) * (Samples - 1)
  <2>1. /\ IsFiniteSet(H) /\ Cardinality(H) = MaxHard
        /\ IsFiniteSet(More) /\ Cardinality(More) = Samples - 1
    BY <1>1, FS_Interval
  <2> HIDE DEF H, More
  <2>2. IsFiniteSet(H \X Lenses) /\ Cardinality(H \X Lenses) = Cardinality(H) * Cardinality(Lenses)
    BY <1>1, <2>1, FS_Product
  <2>3. /\ IsFiniteSet(Slots) /\ Cardinality(Slots) = Cardinality(H \X Lenses) * Cardinality(More)
    BY <2>1, <2>2, FS_Product
  <2>4. Cardinality(Slots) = (MaxHard * Cardinality(Lenses)) * (Samples - 1)
    <3> HIDE DEF Slots
    <3> QED BY <2>1, <2>2, <2>3
  <2> QED BY <2>3, <2>4
<1>3. ASSUME NEW p \in Extra
      PROVE  /\ p = <<p[1], p[2]>> /\ p[1] \in 1..Len(Jobs) /\ p[2] \in More
             /\ RankOf(Jobs[p[1]].cluster) \in H /\ Jobs[p[1]].lens \in Lenses
             /\ Jobs[p[1]].cluster \in Communities
  <2>1. /\ p \in (1..cursor) \X (1..Samples) /\ p[2] <= Jobs[p[1]].samples /\ p[2] # 1
    BY DEF Extra, Settled
  <2>2. p = <<p[1], p[2]>> /\ p[1] \in 1..cursor /\ p[2] \in 1..Samples
    BY <2>1
  <2>3. p[1] \in 1..Len(Jobs)
    BY <2>2, CursorType
  <2>4. /\ Jobs[p[1]] \in JobSet /\ Jobs[p[1]].cluster \in Communities /\ Jobs[p[1]].lens \in Lenses
        /\ Jobs[p[1]].samples \in 1..Samples
    BY <2>3, JobsDiffer
  <2>5. Jobs[p[1]].samples = SamplesOf(Jobs[p[1]].cluster)
    BY <2>4, JobFields
  <2>6. p[2] \in More
    BY <1>1, <2>1, <2>2
  <2>7. SamplesOf(Jobs[p[1]].cluster) > 1
    BY <1>1, <2>1, <2>2, <2>4, <2>5
  <2>8. RankOf(Jobs[p[1]].cluster) \in H
    BY <2>4, <2>7, SampledIsHard
  <2> QED BY <2>2, <2>3, <2>4, <2>6, <2>8
<1> HIDE DEF H, More
<1>4. slot \in [Extra -> Slots]
  BY <1>3
<1>5. ASSUME NEW p \in Extra, NEW q \in Extra, slot[p] = slot[q] PROVE p = q
  <2>1. /\ RankOf(Jobs[p[1]].cluster) = RankOf(Jobs[q[1]].cluster)
        /\ Jobs[p[1]].lens = Jobs[q[1]].lens /\ p[2] = q[2]
    BY <1>5
  <2>2. Jobs[p[1]].cluster = Jobs[q[1]].cluster
    BY <1>3, <2>1, RanksDiffer
  <2>3. OfJob(Jobs[p[1]]) = OfJob(Jobs[q[1]])
    BY <2>1, <2>2 DEF OfJob
  <2>4. p[1] = q[1]
    BY <1>3, <2>3, JobsDiffer
  <2> QED BY <1>3, <2>1, <2>4
<1>6. slot \in Injection(Extra, Slots)
  BY <1>4, <1>5 DEF Injection, IsInjective
<1> HIDE DEF slot, Slots
<1>7. Cardinality(Extra) <= Cardinality(Slots)
  BY <1>2, <1>6, FS_Injection
<1> QED BY <1>2, <1>7

\* A runner that pays owes the sample it pays.
LEMMA PayingOwes ==
  ASSUME StageInv
  PROVE  Cardinality(Paying) <= Cardinality(Owed)
<1> DEFINE slot == [r \in Paying |-> <<r, runner[r].sample>>]
<1>1. ASSUME NEW r \in Paying PROVE <<r, runner[r].sample>> \in Owed
  <2>1. r \in Runners /\ runner[r].pc = "record" /\ RunnerShape(runner[r])
    BY DEF Paying, StageInv
  <2>2. runner[r].job \in 1..Len(Jobs) /\ runner[r].sample \in 1..Jobs[runner[r].job].samples
    BY <2>1 DEF RunnerShape
  <2>3. Jobs[runner[r].job].samples \in 1..Samples /\ Samples \in Nat
    BY <2>2, JobsDiffer, FanOutAssumption
  <2>4. runner[r].sample \in 1..Samples /\ runner[r].sample \in runner[r].sample .. Jobs[runner[r].job].samples
    BY <2>2, <2>3
  <2> QED BY <2>1, <2>4 DEF Owed
<1>2. slot \in Injection(Paying, Owed)
  BY <1>1 DEF Injection, IsInjective
<1> HIDE DEF slot
<1> QED BY <1>2, MoneyFinite, FS_Injection

LEMMA FanOutReports == FanInv => ReportsAreTrue
<1> SUFFICES ASSUME FanInv PROVE ReportsAreTrue
  OBVIOUS
<1>1. StageInv /\ EveryLensReports /\ BestIsKept /\ DegradedIsNotFrozen
  BY DEF FanInv, ReportInv
<1>2. ASSUME NEW r \in Runners, runner[r].pc # "free"
      PROVE  runner[r].sample <= Jobs[runner[r].job].samples
  <2>1. RunnerShape(runner[r])
    BY <1>1 DEF StageInv
  <2>2. runner[r].job \in 1..Len(Jobs) /\ runner[r].pc \in {"check", "call", "record"}
    BY <1>2, <2>1 DEF RunnerShape, RunnerPc
  <2>3. Jobs[runner[r].job].samples \in 1..Samples /\ Samples \in Nat
    BY <2>2, JobsDiffer, FanOutAssumption
  <2>4. CASE runner[r].pc = "check"
    <3>1. runner[r].sample = 0
      BY <2>1, <2>4 DEF RunnerShape
    <3> QED BY <2>3, <3>1
  <2>5. CASE runner[r].pc # "check"
    <3>1. runner[r].sample \in 1..Jobs[runner[r].job].samples
      BY <2>1, <2>2, <2>5 DEF RunnerShape
    <3> QED BY <2>3, <3>1
  <2> QED BY <2>4, <2>5
<1>3. \A r \in Runners : runner[r].pc \in {"free", "check", "call", "record"}
  BY <1>1 DEF StageInv, RunnerShape, RunnerPc
<1>4. TypeOK
  BY <1>1, <1>2, <1>3 DEF TypeOK, StageInv, Ready, Concluding
<1> QED BY <1>1, <1>4 DEF ReportsAreTrue

LEMMA FanOutSpends == FanInv => SpendIsExplained
<1> SUFFICES ASSUME FanInv PROVE SpendIsExplained
  OBVIOUS
<1>1. StageInv /\ TallyInv /\ PaidInv
  BY DEF FanInv, ReportInv
<1>2. BillIsExplained
  <2>1. /\ tally.usage \in Nat /\ tally.calls \in Nat /\ tally.extra \in Nat /\ cursor \in Nat
        /\ tally.calls - tally.extra <= Cardinality(First) /\ tally.extra <= Cardinality(Extra)
    BY <1>1, CursorType DEF TallyInv
  <2>2. /\ Cardinality(First) \in Nat /\ Cardinality(Extra) \in Nat
        /\ Cardinality(First) <= cursor /\ Cardinality(Paying) \in Nat
    BY <1>1, MoneyFinite
  <2>3. tally.calls - tally.extra <= cursor
    BY <2>1, <2>2
  <2>4. tally.extra <= MaxHard * Cardinality(Lenses) * (Samples - 1)
    <3> DEFINE most == MaxHard * Cardinality(Lenses) * (Samples - 1)
    <3>1. Cardinality(Extra) <= most
      BY <1>1, ExtraIsHard
    <3>2. most \in Int
      <4>1. MaxHard \in Int /\ Samples \in Int /\ Cardinality(Lenses) \in Int
        BY FanOutAssumption, FS_CardinalityType
      <4> QED BY <4>1
    <3> HIDE DEF most
    <3>3. tally.extra <= most
      BY <2>1, <2>2, <3>1, <3>2
    <3> QED BY <3>3 DEF most
  <2>5. pc = "pool" => tally.usage = tally.calls + Cardinality({r \in Runners : runner[r].pc = "record"})
    BY <1>1 DEF TallyInv, Paying
  <2>6. pc # "pool" => tally.usage - tally.calls \in 0..1
    <3>1. CASE pc \in {"derive", "conclude", "ended"}
      BY <1>1, <3>1 DEF TallyInv
    <3>2. CASE pc \in Ready \cup {"gate", "supervise"}
      <4>1. Busy = {}
        BY <1>1, <3>2 DEF StageInv, Ready
      <4>2. tally.usage = tally.calls + 0
        BY <1>1, <3>2, <4>1, NobodyPays DEF TallyInv
      <4> QED BY <2>1, <4>2
    <3> QED BY <1>1, <3>1, <3>2 DEF StageInv, Concluding
  <2>7. "budget" \notin Faults =>
          billed = spent + unheard + (IF pc = "derive" THEN 1 ELSE 0)
                     + Cardinality({r \in Runners : runner[r].pc = "record"})
    <3>1. billed \in Nat /\ unheard \in Nat /\ spent \in Nat
      BY <1>1 DEF StageInv
    <3>2. "budget" \notin Faults => Heard = spent + Cardinality(Paying) + (IF pc = "derive" THEN 1 ELSE 0)
      BY <1>1 DEF PaidInv
    <3>3. "budget" \notin Faults => billed = spent + unheard + (IF pc = "derive" THEN 1 ELSE 0) + Cardinality(Paying)
      BY <2>2, <3>1, <3>2 DEF Heard
    <3> QED BY <3>3 DEF Paying
  <2> QED BY <2>3, <2>4, <2>5, <2>6, <2>7 DEF BillIsExplained
<1>3. CeilingHolds
  <2>1. SUFFICES ASSUME "budget" \notin Faults PROVE Heard <= Ceiling
    BY DEF CeilingHolds, Ceiling, Heard
  <2>2. /\ Heard = spent + Cardinality(Paying) + (IF pc = "derive" THEN 1 ELSE 0)
        /\ spent + Cardinality(Owed) <= Ceiling /\ (pc \in {"supervise", "derive"} => spent + 1 <= Limit)
    BY <1>1, <2>1 DEF PaidInv
  <2>3. /\ spent \in Nat /\ Limit \in Nat /\ Ceiling \in Nat /\ (Limit >= 1 => Ceiling >= Limit)
        /\ Cardinality(Paying) \in Nat /\ Cardinality(Owed) \in Nat /\ Cardinality(Paying) <= Cardinality(Owed)
    BY <1>1, CeilingType, MoneyFinite, PayingOwes, FanOutAssumption DEF StageInv
  <2>4. CASE pc = "derive"
    <3>1. Busy = {}
      BY <1>1, <2>4 DEF StageInv
    <3>2. Cardinality(Paying) = 0
      BY <3>1, NobodyPays
    <3> QED BY <2>2, <2>3, <2>4, <3>2
  <2>5. CASE pc # "derive"
    BY <2>2, <2>3, <2>5
  <2> QED BY <2>4, <2>5
<1> QED BY <1>2, <1>3 DEF SpendIsExplained

\* The runners and the supervisor, once the budget is known to be exhausted.
LEMMA ExhaustedStep ==
  ASSUME FanInv, FanInv', [Next]_vars, exhausted, exhausted'
  PROVE  /\ \A r \in Runners : runner[r].pc = "free" => runner'[r].pc = "free"
         /\ pc' \notin {"supervise", "derive"}
<1>1. StageInv /\ StageInv'
  BY DEF FanInv, ReportInv
<1>2. pc' \notin {"supervise", "derive"}
  BY <1>1 DEF StageInv
<1>3. DOMAIN runner = Runners
  BY <1>1 DEF StageInv
<1>4. ASSUME NEW r \in Runners, runner[r].pc = "free" PROVE runner'[r].pc = "free"
  <2>1. CASE runner' = runner
    BY <1>4, <2>1
  <2>2. ASSUME NEW q \in Runners, Take(q) PROVE runner'[r].pc = "free"
    <3>1. runner' = [runner EXCEPT ![q] = Free]
      BY <2>2 DEF Take, Finish
    <3> QED BY <1>3, <1>4, <3>1, FreeShape
  <2>3. ASSUME NEW q \in Runners, Check(q) \/ Reply(q) \/ Record(q) PROVE runner'[r].pc = "free"
    <3>1. runner[q].pc # "free"
      BY <2>3 DEF Check, Reply, Record
    <3>2. q # r
      BY <1>4, <3>1
    <3>3. runner'[r] = runner[r]
      <4>1. CASE Check(q)
        BY <1>3, <3>2, <4>1 DEF Check, Finish
      <4>2. CASE Reply(q)
        BY <1>3, <3>2, <4>2 DEF Reply, NextSample, Conclude, Finish
      <4>3. CASE Record(q)
        BY <1>3, <3>2, <4>3 DEF Record, NextSample, Conclude, Finish
      <4> QED BY <2>3, <4>1, <4>2, <4>3
    <3> QED BY <1>4, <3>3
  <2>4. CASE Stage \/ Rerun
    <3>1. runner' = runner
      BY <2>4 DEF Stage, ReadCache, Open, Post, Gate, Supervise, Derive, Keep, Rerun, poolVars
    <3> QED BY <2>1, <3>1
  <2>5. CASE UNCHANGED vars
    BY <2>1, <2>5 DEF vars
  <2> QED BY <2>2, <2>3, <2>4, <2>5 DEF Next, Work
<1> QED BY <1>2, <1>4

----------------------------------------------------------------------------

LEMMA FanOutHolds == Spec => []FanInv
BY FanOutStart, FanOutStep, PTL DEF Spec

\* Each lens of each selected community has one entry when the supervisor is
\* called, in an order that does not depend on who was faster; a job reports its
\* best sample; and a degraded synthesis is served only by the run that made it.
THEOREM ReportsTrue == Spec => []ReportsAreTrue
BY FanOutHolds, FanOutReports, PTL

\* What is reported as spent is what the provider charged for the replies that
\* were heard, at most one call for a job beyond those of the hard communities;
\* while the budget answers, its count and the provider's bill differ by the
\* replies in hand and those the client threw away, and what is heard keeps the
\* ceiling up to the samples under way.
THEOREM SpendExplained == Spec => []SpendIsExplained
BY FanOutHolds, FanOutSpends, PTL

\* Once a runner has found the budget exhausted, no runner takes up the calls of
\* another job and the supervisor is not called.
THEOREM StopsWhenExhausted == Spec => ExhaustedStops
<1>1. FanInv /\ FanInv' /\ [Next]_vars =>
        [exhausted /\ exhausted' =>
           /\ \A r \in Runners : runner[r].pc = "free" => runner'[r].pc = "free"
           /\ pc' \notin {"supervise", "derive"}]_vars
  BY ExhaustedStep
<1> QED BY <1>1, FanOutHolds, PTL DEF Spec, ExhaustedStops
=============================================================================
