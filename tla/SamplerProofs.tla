--------------------------- MODULE SamplerProofs ---------------------------
(***************************************************************************)
(* Proofs about Sampler, for any number of goroutines, any rate and any    *)
(* interval.  The bound on what is let through is not inductive: between   *)
(* a CompareAndSwap and the Store of zero that belongs to it the old       *)
(* counter is still in use.  BudgetInv and BurstInv account for these      *)
(* goroutines, over the whole run and within one window.                   *)
(***************************************************************************)
EXTENDS Sampler, FiniteSetTheorems, TLAPS

(* Zeroing, as one goroutine moves. *)

LEMMA ZeroingFinite == Cardinality(Zeroing) \in Nat /\ IsFiniteSet(Zeroing)
  BY ProcsAssumption, FS_Subset, FS_CardinalityType DEF Zeroing

\* Enough of them for all goroutines is enough for those that are zeroing.
LEMMA ZeroingBounded ==
  /\ Rate * Cardinality(Procs) \in Nat
  /\ Rate * Cardinality(Zeroing) <= Rate * Cardinality(Procs)
<1>1. /\ Cardinality(Procs) \in Nat /\ Cardinality(Zeroing) \in Nat
      /\ Cardinality(Zeroing) <= Cardinality(Procs)
  BY ProcsAssumption, FS_Subset, FS_CardinalityType DEF Zeroing
<1>2. ASSUME NEW m \in Nat, NEW n \in Nat, m <= n
      PROVE  Rate * n \in Nat /\ Rate * m <= Rate * n
  BY <1>2, RateAssumption
<1> QED
  BY <1>1, <1>2

\* A goroutine that goes to a place other than "zero" from one that is not
\* "zero" leaves Zeroing as it is.
LEMMA ZeroingSame ==
  ASSUME NEW p \in Procs, NEW place, TypeOK,
         pc[p] # "zero", place # "zero", pc' = [pc EXCEPT ![p] = place]
  PROVE  Zeroing' = Zeroing
  BY DEF Zeroing, TypeOK

LEMMA ZeroingEnter ==
  ASSUME NEW p \in Procs, TypeOK,
         pc[p] # "zero", pc' = [pc EXCEPT ![p] = "zero"]
  PROVE  Cardinality(Zeroing') = Cardinality(Zeroing) + 1
<1>1. Zeroing' = Zeroing \cup {p} /\ p \notin Zeroing
  BY DEF Zeroing, TypeOK
<1> QED
  BY <1>1, ZeroingFinite, FS_AddElement

LEMMA ZeroingLeave ==
  ASSUME NEW p \in Procs, TypeOK,
         pc[p] = "zero", pc' = [pc EXCEPT ![p] = "add"]
  PROVE  /\ Cardinality(Zeroing') = Cardinality(Zeroing) - 1
         /\ Cardinality(Zeroing') \in Nat
<1>1. Zeroing' = Zeroing \ {p} /\ p \in Zeroing
  BY DEF Zeroing, TypeOK
<1>2. Cardinality(Zeroing \ {p}) = Cardinality(Zeroing) - 1
  BY <1>1, ZeroingFinite, FS_RemoveElement
<1>3. Cardinality(Zeroing \ {p}) \in Nat
  BY ZeroingFinite, FS_Subset, FS_CardinalityType
<1> QED
  BY <1>1, <1>2, <1>3

(* Multiples of the rate. *)

LEMMA RateTimes ==
  ASSUME NEW n \in Nat
  PROVE  /\ Rate * n \in Nat
         /\ Rate * (n + 1) = Rate * n + Rate
         /\ Rate * (1 + n) = Rate * n + Rate
  BY RateAssumption

-----------------------------------------------------------------------------
(* Each conjunct of the invariant is preserved. *)

LEMMA TypeStep == ASSUME TypeOK, [Next]_vars PROVE TypeOK'
<1> USE DEF TypeOK
<1>1. CASE Tick
  BY <1>1, BoundsAssumption DEF Tick, locals, history
<1>2. ASSUME NEW p \in Procs, ShouldLog(p) PROVE TypeOK'
  <2>1. CASE ReadClock(p)
    BY <2>1, BoundsAssumption DEF ReadClock, history
  <2>2. CASE LoadLastReset(p)
    BY <2>2 DEF LoadLastReset, history
  <2>3. CASE CompareAndSwap(p)
    BY <2>3 DEF CompareAndSwap, locals
  <2>4. CASE ZeroCounter(p)
    BY <2>4 DEF ZeroCounter, locals, history
  <2>5. CASE AddAndDecide(p)
    BY <2>5 DEF AddAndDecide, locals
  <2> QED
    BY <1>2, <2>1, <2>2, <2>3, <2>4, <2>5 DEF ShouldLog
<1>3. CASE UNCHANGED vars
  BY <1>3 DEF vars
<1> QED
  BY <1>1, <1>2, <1>3 DEF Next

LEMMA SwapStep == ASSUME TypeOK, SwapInv, [Next]_vars PROVE SwapInv'
<1> USE DEF TypeOK, SwapInv
<1>1. CASE Tick
  BY <1>1 DEF Tick, locals
<1>2. ASSUME NEW p \in Procs, ShouldLog(p) PROVE SwapInv'
  <2>1. CASE ReadClock(p)
    BY <2>1 DEF ReadClock
  <2>2. CASE LoadLastReset(p)
    BY <2>2 DEF LoadLastReset, Expired
  <2>3. CASE CompareAndSwap(p)
    BY <2>3 DEF CompareAndSwap, locals
  <2>4. CASE ZeroCounter(p)
    BY <2>4 DEF ZeroCounter, locals
  <2>5. CASE AddAndDecide(p)
    BY <2>5 DEF AddAndDecide, locals
  <2> QED
    BY <1>2, <2>1, <2>2, <2>3, <2>4, <2>5 DEF ShouldLog
<1>3. CASE UNCHANGED vars
  BY <1>3 DEF vars
<1> QED
  BY <1>1, <1>2, <1>3 DEF Next

LEMMA BudgetStep == ASSUME TypeOK, BudgetInv, [Next]_vars PROVE BudgetInv'
<1> DEFINE z == Cardinality(Zeroing)
           rz == Rate * z
           rr == Rate * resets
<1>1. /\ z \in Nat /\ rz \in Nat /\ rr \in Nat /\ Rate \in Nat /\ Rate > 0
      /\ counter \in Nat /\ allowed \in Nat /\ resets \in Nat
  BY ZeroingFinite, RateTimes, RateAssumption DEF TypeOK
<1>2. allowed + rz <= rr + Spent
  BY DEF BudgetInv
<1>3. ASSUME Zeroing' = Zeroing, UNCHANGED <<counter, resets, allowed>> PROVE BudgetInv'
  BY <1>2, <1>3 DEF BudgetInv, Spent
<1>4. CASE Tick
  BY <1>3, <1>4 DEF Tick, Zeroing, history
<1>5. ASSUME NEW p \in Procs, ShouldLog(p) PROVE BudgetInv'
  <2>1. CASE ReadClock(p)
    <3>1. Zeroing' = Zeroing
      BY <2>1, ZeroingSame DEF ReadClock
    <3> QED
      BY <1>3, <2>1, <3>1 DEF ReadClock, history
  <2>2. CASE LoadLastReset(p)
    <3>1. Zeroing' = Zeroing
      <4>1. PICK place \in {"swap", "add"} : pc' = [pc EXCEPT ![p] = place]
        BY <2>2 DEF LoadLastReset
      <4> QED
        BY <2>2, <4>1, ZeroingSame DEF LoadLastReset
    <3> QED
      BY <1>3, <2>2, <3>1 DEF LoadLastReset, history
  <2>3. CASE CompareAndSwap(p)
    <3>1. CASE lastReset = seen[p]
      <4>1. Cardinality(Zeroing') = z + 1
        BY <2>3, <3>1, ZeroingEnter DEF CompareAndSwap
      <4>2. Rate * (z + 1) = rz + Rate /\ Rate * (resets + 1) = rr + Rate
        BY <1>1, RateTimes
      <4>3. resets' = resets + 1 /\ allowed' = allowed /\ Spent' = Spent
        BY <2>3, <3>1 DEF CompareAndSwap, Spent
      <4>4. /\ Rate * Cardinality(Zeroing') = rz + Rate
            /\ Rate * resets' = rr + Rate
        BY <4>1, <4>2, <4>3
      <4>5. Spent \in Nat
        BY <1>1 DEF Spent
      <4>6. allowed + (rz + Rate) <= (rr + Rate) + Spent
        <5> HIDE DEF rz, rr
        <5> QED BY <1>1, <1>2, <4>5
      <4> HIDE DEF rz, rr
      <4> QED
        BY <4>3, <4>4, <4>6 DEF BudgetInv
    <3>2. CASE lastReset # seen[p]
      <4>1. Zeroing' = Zeroing
        BY <2>3, <3>2, ZeroingSame DEF CompareAndSwap
      <4> QED
        BY <1>3, <2>3, <3>2, <4>1 DEF CompareAndSwap
    <3> QED
      BY <3>1, <3>2
  <2>4. CASE ZeroCounter(p)
    <3>1. Cardinality(Zeroing') = z - 1 /\ Cardinality(Zeroing') \in Nat
      BY <2>4, ZeroingLeave DEF ZeroCounter
    <3>2. rz = Rate * Cardinality(Zeroing') + Rate
      <4>1. z = Cardinality(Zeroing') + 1
        BY <1>1, <3>1
      <4> QED BY <3>1, <4>1, RateTimes
    <3>3. counter' = 0 /\ resets' = resets /\ allowed' = allowed
      BY <2>4 DEF ZeroCounter, history
    <3>4. Spent <= Rate /\ Spent \in Nat /\ Spent' = 0
      BY <1>1, <3>3 DEF Spent
    <3>5. Rate * Cardinality(Zeroing') \in Nat
      BY <3>1, RateTimes
    <3>6. allowed + Rate * Cardinality(Zeroing') <= rr + 0
      <4> DEFINE y == Rate * Cardinality(Zeroing')
      <4>1. y \in Nat /\ rz = y + Rate
        BY <3>2, <3>5
      <4> HIDE DEF rz, rr, y
      <4>2. allowed + y <= rr + 0
        BY <1>1, <1>2, <3>4, <4>1
      <4> QED BY <4>2 DEF y
    <3> QED
      BY <3>3, <3>4, <3>6 DEF BudgetInv
  <2>5. CASE AddAndDecide(p)
    <3>1. Zeroing' = Zeroing
      BY <2>5, ZeroingSame DEF AddAndDecide
    <3>2. resets' = resets /\ counter' = counter + 1
      BY <2>5 DEF AddAndDecide
    <3>3. \/ counter + 1 <= Rate /\ allowed' = allowed + 1
          \/ ~(counter + 1 <= Rate) /\ allowed' = allowed
      BY <2>5 DEF AddAndDecide
    <3>4. allowed' + rz <= rr + Spent'
      <4> HIDE DEF rz, rr
      <4> QED BY <1>1, <1>2, <3>2, <3>3 DEF Spent
    <3> QED
      BY <3>1, <3>2, <3>4 DEF BudgetInv
  <2> QED
    BY <1>5, <2>1, <2>2, <2>3, <2>4, <2>5 DEF ShouldLog
<1>6. CASE UNCHANGED vars
  BY <1>3, <1>6 DEF vars, Zeroing
<1> QED
  BY <1>4, <1>5, <1>6 DEF Next

LEMMA BurstStep == ASSUME TypeOK, BurstInv, [Next]_vars PROVE BurstInv'
<1> DEFINE z == Cardinality(Zeroing)
           rz == Rate * z
           rp == Rate * Cardinality(Procs)
<1>1. /\ z \in Nat /\ rz \in Nat /\ rp \in Nat /\ Rate \in Nat /\ Rate > 0
      /\ counter \in Nat /\ inWindow \in Nat
  BY ZeroingFinite, ZeroingBounded, RateTimes, RateAssumption DEF TypeOK
<1>2. inWindow + rz <= rp + Spent
  BY DEF BurstInv
<1>3. ASSUME Zeroing' = Zeroing, UNCHANGED <<counter, inWindow>> PROVE BurstInv'
  BY <1>2, <1>3 DEF BurstInv, Spent
<1>4. CASE Tick
  BY <1>3, <1>4 DEF Tick, Zeroing, history
<1>5. ASSUME NEW p \in Procs, ShouldLog(p) PROVE BurstInv'
  <2>1. CASE ReadClock(p)
    <3>1. Zeroing' = Zeroing
      BY <2>1, ZeroingSame DEF ReadClock
    <3> QED
      BY <1>3, <2>1, <3>1 DEF ReadClock, history
  <2>2. CASE LoadLastReset(p)
    <3>1. Zeroing' = Zeroing
      <4>1. PICK place \in {"swap", "add"} : pc' = [pc EXCEPT ![p] = place]
        BY <2>2 DEF LoadLastReset
      <4> QED
        BY <2>2, <4>1, ZeroingSame DEF LoadLastReset
    <3> QED
      BY <1>3, <2>2, <3>1 DEF LoadLastReset, history
  <2>3. CASE CompareAndSwap(p)
    <3>1. CASE lastReset = seen[p]
      <4>1. inWindow' = 0 /\ Spent' = Spent
        BY <2>3, <3>1 DEF CompareAndSwap, Spent
      <4>2. Rate * Cardinality(Zeroing') <= rp
        <5>1. Cardinality(Zeroing') \in Nat /\ Cardinality(Zeroing') <= Cardinality(Procs)
          BY ProcsAssumption, FS_Subset, FS_CardinalityType DEF Zeroing
        <5>2. Cardinality(Procs) \in Nat
          BY ProcsAssumption, FS_CardinalityType
        <5>3. ASSUME NEW m \in Nat, NEW n \in Nat, m <= n PROVE Rate * m <= Rate * n
          BY <5>3, RateAssumption
        <5> QED
          BY <5>1, <5>2, <5>3
      <4>3. Rate * Cardinality(Zeroing') \in Nat
        BY ProcsAssumption, FS_Subset, FS_CardinalityType, RateTimes DEF Zeroing
      <4>4. Spent \in Nat
        BY <1>1 DEF Spent
      <4> HIDE DEF rz, rp
      <4>5. 0 + Rate * Cardinality(Zeroing') <= rp + Spent
        BY <1>1, <4>2, <4>3, <4>4
      <4> QED
        BY <4>1, <4>5 DEF BurstInv, rp
    <3>2. CASE lastReset # seen[p]
      <4>1. Zeroing' = Zeroing
        BY <2>3, <3>2, ZeroingSame DEF CompareAndSwap
      <4> QED
        BY <1>3, <2>3, <3>2, <4>1 DEF CompareAndSwap
    <3> QED
      BY <3>1, <3>2
  <2>4. CASE ZeroCounter(p)
    <3>1. Cardinality(Zeroing') = z - 1 /\ Cardinality(Zeroing') \in Nat
      BY <2>4, ZeroingLeave DEF ZeroCounter
    <3>2. rz = Rate * Cardinality(Zeroing') + Rate
      <4>1. z = Cardinality(Zeroing') + 1
        BY <1>1, <3>1
      <4> QED BY <3>1, <4>1, RateTimes
    <3>3. counter' = 0 /\ inWindow' = inWindow
      BY <2>4 DEF ZeroCounter, history
    <3>4. Spent <= Rate /\ Spent \in Nat /\ Spent' = 0
      BY <1>1, <3>3 DEF Spent
    <3>5. Rate * Cardinality(Zeroing') \in Nat
      BY <3>1, RateTimes
    <3>6. inWindow + Rate * Cardinality(Zeroing') <= rp + 0
      <4> DEFINE y == Rate * Cardinality(Zeroing')
      <4>1. y \in Nat /\ rz = y + Rate
        BY <3>2, <3>5
      <4> HIDE DEF rz, rp, y
      <4>2. inWindow + y <= rp + 0
        BY <1>1, <1>2, <3>4, <4>1
      <4> QED BY <4>2 DEF y
    <3> QED
      BY <3>3, <3>4, <3>6 DEF BurstInv
  <2>5. CASE AddAndDecide(p)
    <3>1. Zeroing' = Zeroing
      BY <2>5, ZeroingSame DEF AddAndDecide
    <3>2. counter' = counter + 1
      BY <2>5 DEF AddAndDecide
    <3>3. \/ counter + 1 <= Rate /\ inWindow' = inWindow + 1
          \/ ~(counter + 1 <= Rate) /\ inWindow' = inWindow
      BY <2>5 DEF AddAndDecide
    <3>4. inWindow' + rz <= rp + Spent'
      <4> HIDE DEF rz, rp
      <4> QED BY <1>1, <1>2, <3>2, <3>3 DEF Spent
    <3> QED
      BY <3>1, <3>2, <3>4 DEF BurstInv
  <2> QED
    BY <1>5, <2>1, <2>2, <2>3, <2>4, <2>5 DEF ShouldLog
<1>6. CASE UNCHANGED vars
  BY <1>3, <1>6 DEF vars, Zeroing
<1> QED
  BY <1>4, <1>5, <1>6 DEF Next

LEMMA PaceStep == ASSUME TypeOK, SwapInv, PaceInv, [Next]_vars PROVE PaceInv'
<1> USE DEF TypeOK, PaceInv
<1>1. CASE Tick
  BY <1>1 DEF Tick, locals, history
<1>2. ASSUME NEW p \in Procs, ShouldLog(p) PROVE PaceInv'
  <2>1. CASE ReadClock(p)
    BY <2>1 DEF ReadClock, history
  <2>2. CASE LoadLastReset(p)
    BY <2>2 DEF LoadLastReset, history
  <2>3. CASE CompareAndSwap(p) /\ lastReset = seen[p]
    <3> DEFINE w == resets * (Interval + 1)
    <3>1. /\ w \in Nat /\ Interval \in Nat /\ (resets + 1) * (Interval + 1) = w + Interval + 1
      BY IntervalAssumption
    <3>2. /\ lastReset' = now[p] /\ resets' = resets + 1
          /\ UNCHANGED <<clock, now>>
      BY <2>3 DEF CompareAndSwap, locals
    <3>3. now[p] - lastReset > Interval
      BY <2>3 DEF SwapInv, CompareAndSwap
    <3>4. w <= lastReset /\ now[p] \in Nat /\ lastReset \in Nat
      OBVIOUS
    <3> HIDE DEF w
    <3>5. w + Interval + 1 <= now[p]
      BY <3>1, <3>3, <3>4
    <3> QED
      BY <3>1, <3>2, <3>5
  <2>4. CASE CompareAndSwap(p) /\ lastReset # seen[p]
    BY <2>4 DEF CompareAndSwap, locals
  <2>5. CASE ZeroCounter(p)
    BY <2>5 DEF ZeroCounter, locals, history
  <2>6. CASE AddAndDecide(p)
    BY <2>6 DEF AddAndDecide, locals
  <2> QED
    BY <1>2, <2>1, <2>2, <2>3, <2>4, <2>5, <2>6 DEF ShouldLog
<1>3. CASE UNCHANGED vars
  BY <1>3 DEF vars
<1> QED
  BY <1>1, <1>2, <1>3 DEF Next

LEMMA InitHolds == Init => IInv
<1> SUFFICES ASSUME Init PROVE IInv
  OBVIOUS
<1>1. TypeOK /\ SwapInv
  BY BoundsAssumption DEF Init, TypeOK, SwapInv
<1>2. Zeroing = {}
  BY DEF Init, Zeroing
<1>3. Cardinality(Zeroing) = 0
  BY <1>2, FS_EmptySet
<1>4. BudgetInv
  BY <1>3, RateAssumption DEF Init, BudgetInv, Spent
<1>5. BurstInv
  BY <1>3, ZeroingBounded, RateAssumption DEF Init, BurstInv, Spent
<1>6. PaceInv
  BY IntervalAssumption DEF Init, PaceInv
<1> QED
  BY <1>1, <1>4, <1>5, <1>6 DEF IInv

\* The budget bounds what has been let through.
LEMMA AllowedByBudget == ASSUME IInv PROVE AllowedBounded
<1> DEFINE rz == Rate * Cardinality(Zeroing)
           rr == Rate * resets
<1>1. rz \in Nat /\ rr \in Nat /\ Rate * (1 + resets) = rr + Rate
  BY ZeroingFinite, RateTimes DEF IInv, TypeOK
<1>2. allowed \in Nat /\ counter \in Nat /\ Rate \in Nat
  BY RateAssumption DEF IInv, TypeOK
<1>3. allowed + rz <= rr + Spent
  BY DEF IInv, BudgetInv
<1>4. allowed <= rr + Rate
  <2> HIDE DEF rz, rr
  <2> QED BY <1>1, <1>2, <1>3 DEF Spent
<1> QED
  BY <1>1, <1>4 DEF AllowedBounded

-----------------------------------------------------------------------------
(* The theorems *)

\* IInv holds in every reachable state.
THEOREM Inductive == Spec => []IInv
<1>1. IInv /\ [Next]_vars => IInv'
  BY TypeStep, SwapStep, BudgetStep, BurstStep, PaceStep DEF IInv
<1> QED
  BY InitHolds, <1>1, PTL DEF Spec

(***************************************************************************)
(* The variables of the sampler keep their types (sampler.go:11-53).       *)
(***************************************************************************)
THEOREM TypeCorrect == Spec => []TypeOK
<1>1. IInv => TypeOK
  BY DEF IInv
<1> QED
  BY Inductive, <1>1, PTL

(***************************************************************************)
(* However the atomic operations of any number of goroutines interleave,   *)
(* at most Rate entries pass for each window begun (sampler.go:44-52).     *)
(***************************************************************************)
THEOREM AllowedIsBounded == Spec => []AllowedBounded
  BY Inductive, AllowedByBudget, PTL

(***************************************************************************)
(* However late the Store of zero comes, at most Rate entries pass in a    *)
(* window, and as many again for each goroutine (sampler.go:44-52).        *)
(***************************************************************************)
THEOREM BurstIsBounded == Spec => []WindowBurst
<1>1. ASSUME IInv PROVE WindowBurst
  <2> DEFINE rz == Rate * Cardinality(Zeroing)
             rp == Rate * Cardinality(Procs)
  <2>1. rz \in Nat /\ rp \in Nat
    BY ZeroingFinite, ZeroingBounded, RateTimes
  <2>2. Rate * (1 + Cardinality(Procs)) = rp + Rate
    BY ProcsAssumption, FS_CardinalityType, RateTimes
  <2>3. inWindow \in Nat /\ counter \in Nat /\ Rate \in Nat
    BY <1>1, RateAssumption DEF IInv, TypeOK
  <2>4. inWindow + rz <= rp + Spent
    BY <1>1 DEF IInv, BurstInv
  <2>5. inWindow <= rp + Rate
    <3> HIDE DEF rz, rp
    <3> QED BY <2>1, <2>3, <2>4 DEF Spent
  <2> QED
    BY <2>2, <2>5 DEF WindowBurst
<1> QED
  BY Inductive, <1>1, PTL

(***************************************************************************)
(* Whatever is preempted with an old reading of the clock, over the time   *)
(* since the start the rate is kept (sampler.go:41-52).                    *)
(***************************************************************************)
THEOREM RateIsKept == Spec => []LongRunRate
<1>1. ASSUME IInv PROVE LongRunRate
  <2> DEFINE i == Interval + 1
             w == resets * i
  <2>1. /\ allowed \in Nat /\ resets \in Nat /\ lastReset \in Nat /\ clock \in Nat
        /\ i \in Nat /\ w \in Nat /\ w <= clock
    BY <1>1, IntervalAssumption, BoundsAssumption DEF IInv, TypeOK, PaceInv
  <2>2. allowed <= Rate * (1 + resets)
    BY <1>1, AllowedByBudget DEF AllowedBounded
  <2>3. allowed * i <= (Rate * (1 + resets)) * i
    <3>1. ASSUME NEW m \in Nat, NEW n \in Nat, NEW k \in Nat, m <= n PROVE m * k <= n * k
      BY <3>1
    <3> QED
      BY <2>1, <2>2, <3>1, RateAssumption
  <2>4. (Rate * (1 + resets)) * i = Rate * (w + i)
    <3>1. \A a, b, c \in Nat : (a * (1 + b)) * c = a * (b * c + c)
      OBVIOUS
    <3> QED
      BY <2>1, <3>1, RateAssumption
  <2>5. Rate * (w + i) <= Rate * (clock + i)
    <3>1. ASSUME NEW m \in Nat, NEW n \in Nat, m <= n PROVE Rate * m <= Rate * n
      BY <3>1, RateAssumption
    <3>2. w + i \in Nat /\ clock + i \in Nat /\ w + i <= clock + i
      <4> HIDE DEF w, i
      <4> QED
        BY <2>1
    <3> QED
      BY <3>1, <3>2
  <2>6. allowed * i <= Rate * (clock + i)
    <3> DEFINE x == (Rate * (1 + resets)) * i
               y == Rate * (clock + i)
               v == allowed * i
    <3>1. v \in Int /\ x \in Int /\ y \in Int /\ v <= x /\ x <= y
      BY <2>1, <2>3, <2>4, <2>5, RateAssumption
    <3> HIDE DEF x, y, v
    <3>2. v <= y
      BY <3>1
    <3> QED
      BY <3>2 DEF v, y
  <2>7. clock + i = clock + Interval + 1
    BY <2>1, IntervalAssumption
  <2> QED
    BY <2>6, <2>7 DEF LongRunRate
<1> QED
  BY Inductive, <1>1, PTL
=============================================================================
