---------------------------- MODULE EventloopPool ---------------------------
(***************************************************************************)
(* EventloopPool (reactor/EventloopPool.h, EventloopPool.cpp) with the     *)
(* Thread and the CountDownLatch it uses: start() creates the threads one  *)
(* by one, waits until each is running (Thread::start) and has built its   *)
(* loop (latch_), and stores the loop's address.                           *)
(***************************************************************************)
EXTENDS Condition, Integers, Sequences, FiniteSets

CONSTANTS NumLoops,      \* num_: the loop of the caller, and one for each thread
          NoLoop,
          MaxRoundRobin  \* MAX_ROUND_ROBIN_NUM

ASSUME NumAssumption == NumLoops \in Nat \ {0} /\ MaxRoundRobin \in Nat
ASSUME LoopAssumption == NoLoop \notin 0..(NumLoops - 1)

Base == 0                \* the loop the Server was given
Loop == 0..(NumLoops - 1)
PoolLoop == Loop \ {Base}

VARIABLES
  startPc,     \* where start() is
  loops,       \* loops_
  currentLoop, \* currentLoop_
  count, cond, \* latch_
  worker,      \* where the thread of each pool loop is
  quit         \* quit_ of each loop

poolVars == <<startPc, loops, currentLoop, count, cond, worker, quit>>

PoolInit ==
  /\ startPc = "create" /\ loops = <<Base>> /\ currentLoop = NoLoop
  /\ count = 1 /\ cond = NewCondition
  /\ worker = [l \in PoolLoop |-> "none"] /\ quit = [l \in Loop |-> FALSE]
-----------------------------------------------------------------------------
(***************************************************************************)
(* start(), run by the thread of the base loop before it calls loop().     *)
(***************************************************************************)
ThisThread == Len(loops)   \* the thread of the current iteration

CreateThread ==
  /\ startPc = "create" /\ Len(loops) < NumLoops
  /\ currentLoop' = NoLoop
  /\ \/ worker' = [worker EXCEPT ![ThisThread] = "created"] /\ startPc' = "spin"
     \/ worker' = [worker EXCEPT ![ThisThread] = "failed"] /\ startPc' = "latch"
  /\ UNCHANGED <<loops, count, cond, quit>>

\* Thread::start spins until the new thread has set kRunning.
SpinEnds == /\ startPc = "spin" /\ worker[ThisThread] # "created"
            /\ startPc' = "latch"
            /\ UNCHANGED <<loops, currentLoop, count, cond, worker, quit>>

\* CountDownLatch::wait.
LatchWait ==
  /\ startPc = "latch"
  /\ IF count > 0 THEN startPc' = "asleep" /\ cond' = Wait(cond, Base)
                  ELSE startPc' = "store" /\ UNCHANGED cond
  /\ UNCHANGED <<loops, currentLoop, count, worker, quit>>

\* Faulty: if instead of while.
LatchWakesUntested == /\ startPc = "asleep" /\ Base \in cond.woken
                      /\ startPc' = "store" /\ cond' = Return(cond, Base)
                      /\ UNCHANGED <<loops, currentLoop, count, worker, quit>>

LatchWakes == /\ startPc = "asleep" /\ Base \in cond.woken
              /\ startPc' = "latch" /\ cond' = Return(cond, Base)
              /\ UNCHANGED <<loops, currentLoop, count, worker, quit>>

SpuriousWakeup == /\ Base \in cond.waiting /\ cond' = Wake(cond, Base)
                  /\ UNCHANGED <<startPc, loops, currentLoop, count, worker, quit>>

StoreLoop == /\ startPc = "store" /\ startPc' = "create"
             /\ loops' = Append(loops, currentLoop) /\ count' = 1
             /\ UNCHANGED <<currentLoop, cond, worker, quit>>

StartStep == CreateThread \/ SpinEnds \/ LatchWait \/ LatchWakes \/ StoreLoop
-----------------------------------------------------------------------------
(***************************************************************************)
(* A thread of the pool, up to its call of loop().                         *)
(***************************************************************************)
Enters(l, from, to) == worker[l] = from /\ worker' = [worker EXCEPT ![l] = to]

EnterThread(l) == /\ Enters(l, "created", "running")
                  /\ UNCHANGED <<startPc, loops, currentLoop, count, cond, quit>>

ConstructLoop(l) == /\ Enters(l, "running", "constructed")
                    /\ currentLoop' = l
                    /\ UNCHANGED <<startPc, loops, count, cond, quit>>

\* Faulty: the waiting thread is notified before the count changes.
CountDownUnnotified(l) ==
  /\ Enters(l, "constructed", "looping")
  /\ count' = count - 1 /\ cond' = IF count = 0 THEN NotifyAll(cond) ELSE cond
  /\ UNCHANGED <<startPc, loops, currentLoop, quit>>

CountDown(l) ==
  /\ Enters(l, "constructed", "looping")
  /\ count' = count - 1 /\ cond' = IF count' = 0 THEN NotifyAll(cond) ELSE cond
  /\ UNCHANGED <<startPc, loops, currentLoop, quit>>

ThreadStep(l) == EnterThread(l) \/ ConstructLoop(l) \/ CountDown(l)

\* loop() returns because quit_ is set: the loop, a local variable, is gone.
LoopReturns(l) == /\ quit[l] /\ Enters(l, "looping", "exited")
                  /\ UNCHANGED <<startPc, loops, currentLoop, count, cond, quit>>
-----------------------------------------------------------------------------
\* getNextEvent: once the first loop has many descriptors the loops are sorted,
\* the one with the most first; until then it is loops_[robinNum_], and
\* robinNum_, which starts at 0, is never incremented.
Sorted(s, fdnums) == \A i, j \in 1..Len(s) : i < j => fdnums[s[i]] >= fdnums[s[j]]
Orders(s) == {p \in [1..Len(s) -> {s[i] : i \in 1..Len(s)}] : \A i, j \in 1..Len(s) : p[i] = p[j] => i = j}
NextLoops(fdnums) == IF fdnums[loops[1]] > MaxRoundRobin
                       THEN {p \in Orders(loops) : Sorted(p, fdnums)} ELSE {loops}

\* ~EventloopPool.
QuitAll == quit' = [l \in Loop |-> quit[l] \/ \E i \in 1..Len(loops) : loops[i] = l]
=============================================================================
