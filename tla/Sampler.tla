------------------------------- MODULE Sampler -------------------------------
(***************************************************************************)
(* The log sampler (pkg/logger/sampler.go): a window counter that any      *)
(* number of goroutines use without a lock, through two atomic variables.  *)
(* Every atomic operation and every reading of the clock is a step.        *)
(***************************************************************************)
EXTENDS Integers, FiniteSets

CONSTANTS
    Procs,     \* goroutines that log through the shared sampler
    Rate,      \* rate, at least 1 (NewSampler panics otherwise)
    Interval,  \* interval, at least 1
    MaxTime,   \* bound: the clock stops here
    MaxCalls   \* bound: calls of ShouldLog

ASSUME ProcsAssumption == IsFiniteSet(Procs)
ASSUME RateAssumption == Rate \in Nat \ {0}
ASSUME IntervalAssumption == Interval \in Nat \ {0}
ASSUME BoundsAssumption == MaxTime \in Nat /\ MaxCalls \in Nat

VARIABLES
    clock,      \* what time.Now().UnixNano() returns
    counter,    \* atomic counter
    lastReset,  \* atomic time of the last reset
    pc,         \* where each goroutine is in ShouldLog
    now,        \* its local now
    seen,       \* its local lastReset
    calls,      \* calls begun
    resets,     \* history: successful CompareAndSwaps
    allowed,    \* history: calls that returned true
    inWindow    \* history: of these, since the last CompareAndSwap

vars == <<clock, counter, lastReset, pc, now, seen, calls, resets, allowed,
          inWindow>>

locals == <<now, seen>>
history == <<resets, allowed, inWindow>>

\* The wall clock; it does not go back.
Tick ==
    /\ clock < MaxTime
    /\ clock' = clock + 1
    /\ UNCHANGED <<counter, lastReset, pc, locals, calls, history>>

-----------------------------------------------------------------------------
(* ShouldLog *)

ReadClock(p) ==
    /\ pc[p] = "idle"
    /\ calls < MaxCalls
    /\ calls' = calls + 1
    /\ now' = [now EXCEPT ![p] = clock]
    /\ pc' = [pc EXCEPT ![p] = "load"]
    /\ UNCHANGED <<clock, counter, lastReset, seen, history>>

Expired(p) == now[p] - lastReset > Interval

LoadLastReset(p) ==
    /\ pc[p] = "load"
    /\ seen' = [seen EXCEPT ![p] = lastReset]
    /\ pc' = [pc EXCEPT ![p] = IF Expired(p) THEN "swap" ELSE "add"]
    /\ UNCHANGED <<clock, counter, lastReset, now, calls, history>>

\* A faulty variant: a plain Store.
SwapUnconditionally(p) ==
    /\ pc[p] = "swap"
    /\ lastReset' = now[p]
    /\ pc' = [pc EXCEPT ![p] = "zero"]
    /\ resets' = resets + 1
    /\ inWindow' = 0
    /\ UNCHANGED <<clock, counter, locals, calls, allowed>>

\* A faulty variant: the counter is zeroed whoever won.
SwapResultIgnored(p) ==
    /\ pc[p] = "swap"
    /\ IF lastReset = seen[p]
       THEN /\ lastReset' = now[p]
            /\ resets' = resets + 1
            /\ inWindow' = 0
       ELSE UNCHANGED <<lastReset, resets, inWindow>>
    /\ pc' = [pc EXCEPT ![p] = "zero"]
    /\ UNCHANGED <<clock, counter, locals, calls, allowed>>

CompareAndSwap(p) ==
    /\ pc[p] = "swap"
    /\ IF lastReset = seen[p]
       THEN /\ lastReset' = now[p]
            /\ pc' = [pc EXCEPT ![p] = "zero"]
            /\ resets' = resets + 1
            /\ inWindow' = 0
       ELSE /\ pc' = [pc EXCEPT ![p] = "add"]
            /\ UNCHANGED <<lastReset, resets, inWindow>>
    /\ UNCHANGED <<clock, counter, locals, calls, allowed>>

ZeroCounter(p) ==
    /\ pc[p] = "zero"
    /\ counter' = 0
    /\ pc' = [pc EXCEPT ![p] = "add"]
    /\ UNCHANGED <<clock, lastReset, locals, calls, history>>

\* A faulty variant: Load instead of Add, so nothing is counted.
AddAndDecideUncounted(p) ==
    /\ pc[p] = "add"
    /\ IF counter + 1 <= Rate
       THEN allowed' = allowed + 1 /\ inWindow' = inWindow + 1
       ELSE UNCHANGED <<allowed, inWindow>>
    /\ pc' = [pc EXCEPT ![p] = "idle"]
    /\ UNCHANGED <<clock, counter, lastReset, locals, calls, resets>>

AddAndDecide(p) ==
    /\ pc[p] = "add"
    /\ counter' = counter + 1
    /\ IF counter' <= Rate
       THEN allowed' = allowed + 1 /\ inWindow' = inWindow + 1
       ELSE UNCHANGED <<allowed, inWindow>>
    /\ pc' = [pc EXCEPT ![p] = "idle"]
    /\ UNCHANGED <<clock, lastReset, locals, calls, resets>>

-----------------------------------------------------------------------------
\* NewSampler stored the time; goroutines start later.
Init ==
    /\ clock = 0
    /\ counter = 0
    /\ lastReset = 0
    /\ pc = [p \in Procs |-> "idle"]
    /\ now = [p \in Procs |-> 0]
    /\ seen = [p \in Procs |-> 0]
    /\ calls = 0
    /\ resets = 0
    /\ allowed = 0
    /\ inWindow = 0

ShouldLog(p) ==
    \/ ReadClock(p)
    \/ LoadLastReset(p)
    \/ CompareAndSwap(p)
    \/ ZeroCounter(p)
    \/ AddAndDecide(p)

Next == Tick \/ \E p \in Procs : ShouldLog(p)

Spec == Init /\ [][Next]_vars

-----------------------------------------------------------------------------
(* Properties *)

\* The variables keep their types.
TypeOK ==
    /\ clock \in 0..MaxTime
    /\ counter \in Nat
    /\ lastReset \in Nat
    /\ pc \in [Procs -> {"idle", "load", "swap", "zero", "add"}]
    /\ now \in [Procs -> Nat]
    /\ seen \in [Procs -> Nat]
    /\ calls \in 0..MaxCalls
    /\ resets \in Nat
    /\ allowed \in Nat
    /\ inWindow \in Nat

(***************************************************************************)
(* The rate holds in the long run (sampler.go:41-52): from the start to    *)
(* any moment no more than Rate entries pass for each window, of more      *)
(* than Interval, that has fitted into that time, and the one under way.   *)
(* Single windows may begin late, with an old now, even two at one         *)
(* moment; what keeps the rate is that each CompareAndSwap advances        *)
(* lastReset by more than Interval, to a time that has been.               *)
(***************************************************************************)
LongRunRate == allowed * (Interval + 1) <= Rate * (clock + Interval + 1)

(***************************************************************************)
(* Over any run the sampler lets through at most Rate entries for each     *)
(* window it has started (sampler.go:44-52), although the reset of the     *)
(* counter is not atomic with the CompareAndSwap.                          *)
(***************************************************************************)
AllowedBounded == allowed <= Rate * (1 + resets)

(***************************************************************************)
(* "allows up to rate log entries per interval" (sampler.go:18) is not     *)
(* quite what the code keeps: the counter is zeroed after the              *)
(* CompareAndSwap, and by then, or much later, other goroutines have       *)
(* counted.  But a window's burst stays below one more Rate for each       *)
(* goroutine, however late the Store of zero comes (sampler.go:44-52).     *)
(***************************************************************************)
WindowBurst == inWindow <= Rate * (1 + Cardinality(Procs))

-----------------------------------------------------------------------------
(* The inductive invariant *)

\* A goroutine about to swap has seen a window that has expired.
SwapInv == \A p \in Procs : pc[p] = "swap" => now[p] - seen[p] > Interval

\* The goroutines that have won a CompareAndSwap and not yet zeroed the counter.
Zeroing == { p \in Procs : pc[p] = "zero" }

\* What the counter shows of the entries let through since it was zeroed.
Spent == IF counter < Rate THEN counter ELSE Rate

\* Every CompareAndSwap pays for Rate entries, which become available when
\* its goroutine zeroes the counter.
BudgetInv ==
    allowed + Rate * Cardinality(Zeroing) <= Rate * resets + Spent

\* Each goroutine that is to zero the counter may open the current window for
\* Rate entries more, and a new one comes only with a new window.
BurstInv ==
    inWindow + Rate * Cardinality(Zeroing) <= Rate * Cardinality(Procs) + Spent

\* The windows begun fit into the time up to the last reset.
PaceInv ==
    /\ lastReset <= clock /\ \A p \in Procs : now[p] <= clock
    /\ resets * (Interval + 1) <= lastReset

IInv == TypeOK /\ SwapInv /\ BudgetInv /\ BurstInv /\ PaceInv
=============================================================================
