------------------------------ MODULE Capacity ------------------------------
(***************************************************************************)
(* InfrastructureCapacityService: how many more executions the system      *)
(* takes, worked out from the measured load, cached under two keys with a  *)
(* lifetime, and handed out unit by unit to concurrent PHP processes.      *)
(*                                                                         *)
(* consume() runs under a lock, recalculateCapacity() under another one;   *)
(* getCapacity() takes no lock. The locks have a lifetime as well: a       *)
(* holder that is slow, or dead, loses them.                               *)
(***************************************************************************)
EXTENDS Integers, FiniteSets

CONSTANTS Process,     \* PHP processes
          Nobody,      \* no process
          Loads,       \* what the load metric may answer, in percent
          LoadLimit,   \* option infrastructure_load_limit, in percent
          TaoLimit,    \* option tao_capacity
          Mishaps      \* which of "death" and "lockLoss" may happen

ASSUME ConstantsAssumption ==
  /\ Nobody \notin Process
  /\ Loads \subseteq Nat
  /\ LoadLimit \in Nat \ {0}
  /\ TaoLimit \in Nat
  /\ Mishaps \subseteq {"death", "lockLoss"}

ASSUME FiniteAssumption == IsFiniteSet(Process)

VARIABLES
  present,   \* the keys the persistence holds
  cached,    \* cached[k]: the number under key k, if present
  lasting,   \* present keys without a lifetime
  lock,      \* lock[l]: the process that holds lock l, or Nobody
  job,       \* job[p]: what process p is doing
  granted,   \* the result of the last calculation
  taken,     \* units of it that were consumed
  drawing,   \* processes about to consume a unit of it
  lost       \* locks that expired under a process still working

vars == <<present, cached, lasting, lock, job, granted, taken, drawing, lost>>

\* The key a call works on tells getCapacity from consume.
Key == {"provide", "consume"}

Lock == {"consume", "recalculate"}

\* read: the key is about to be read. recalculate: it was missing. reread: it
\* was there again. collect: the load is being measured. between: one of the
\* two keys is set. take: there is a unit to take. result: of the calculation
\* in progress.
Job == [pc : {"idle", "read", "recalculate", "reread", "collect", "between",
              "take"},
        key : Key, result : Int]

NoJob == [pc |-> "idle", key |-> "consume", result |-> 0]

\* floor((1 - load / limit) * taoLimit)
Calculated(load) == ((LoadLimit - load) * TaoLimit) \div LoadLimit

Init == /\ present = {}
        /\ cached = [k \in Key |-> 0]
        /\ lasting = {}
        /\ lock = [l \in Lock |-> Nobody]
        /\ job = [p \in Process |-> NoJob]
        /\ granted = 0 /\ taken = 0
        /\ drawing = {} /\ lost = {}

\* Free for a call. The locks of a process that died are not another's.
Idle(p) == job[p].pc = "idle" /\ \A l \in Lock : lock[l] # p

Goto(p, pc) == job' = [job EXCEPT ![p].pc = pc]

\* release() does nothing to a lock that has passed to another process.
Release(p, locks) ==
  lock' = [l \in Lock |-> IF l \in locks /\ lock[l] = p THEN Nobody ELSE lock[l]]

\* Mutant: the number is not compared with zero.
ProceedUntested(p, v) ==
  /\ job' = [job EXCEPT ![p] =
                 [pc |-> "take", key |-> job[p].key, result |-> 0]]
  /\ Release(p, {"recalculate"})

\* A process that knows the number v goes on to take a unit of it, or to
\* answer that there is none.
Proceed(p, v) ==
  IF v > 0
  THEN /\ job' = [job EXCEPT ![p] =
                      [pc |-> "take", key |-> job[p].key, result |-> 0]]
       /\ Release(p, {"recalculate"})
  ELSE /\ job' = [job EXCEPT ![p] = NoJob]
       /\ Release(p, Lock)

\* p joins those that draw on the last calculation, if it consumes.
Draws(p, v) == IF job[p].key = "consume" /\ v > 0 THEN {p} ELSE {}

-----------------------------------------------------------------------------
\* getCapacity is called.
GetCapacity(p) ==
  /\ Idle(p)
  /\ job' = [job EXCEPT ![p] = [pc |-> "read", key |-> "provide", result |-> 0]]
  /\ UNCHANGED <<present, cached, lasting, lock, granted, taken, drawing, lost>>

\* Mutant: consume takes no lock.
ConsumeUnlocked(p) ==
  /\ Idle(p)
  /\ job' = [job EXCEPT ![p] = [pc |-> "read", key |-> "consume", result |-> 0]]
  /\ UNCHANGED <<present, cached, lasting, lock, granted, taken, drawing, lost>>

\* consume is called and has waited for its lock.
Consume(p) ==
  /\ Idle(p)
  /\ lock["consume"] = Nobody
  /\ lock' = [lock EXCEPT !["consume"] = p]
  /\ job' = [job EXCEPT ![p] = [pc |-> "read", key |-> "consume", result |-> 0]]
  /\ UNCHANGED <<present, cached, lasting, granted, taken, drawing, lost>>

\* The key is cached.
Hit(p) ==
  LET v == cached[job[p].key]
  IN /\ job[p].pc = "read"
     /\ job[p].key \in present
     /\ Proceed(p, v)
     /\ drawing' = drawing \cup Draws(p, v)
     /\ UNCHANGED <<present, cached, lasting, granted, taken, lost>>

Miss(p) ==
  /\ job[p].pc = "read"
  /\ job[p].key \notin present
  /\ Goto(p, "recalculate")
  /\ UNCHANGED <<present, cached, lasting, lock, granted, taken, drawing, lost>>

\* Mutant: the key is not looked up again once the lock is there.
EnterBlindly(p) ==
  /\ job[p].pc = "recalculate"
  /\ lock["recalculate"] = Nobody
  /\ lock' = [lock EXCEPT !["recalculate"] = p]
  /\ Goto(p, "collect")
  /\ UNCHANGED <<present, cached, lasting, granted, taken, drawing, lost>>

\* recalculateCapacity gets its lock and asks whether the key exists by now.
Enter(p) ==
  /\ job[p].pc = "recalculate"
  /\ lock["recalculate"] = Nobody
  /\ lock' = [lock EXCEPT !["recalculate"] = p]
  /\ Goto(p, IF job[p].key \in present THEN "reread" ELSE "collect")
  /\ UNCHANGED <<present, cached, lasting, granted, taken, drawing, lost>>

\* It does and is read; false, if it expired since, counts as no capacity.
Reread(p) ==
  LET v == IF job[p].key \in present THEN cached[job[p].key] ELSE 0
  IN /\ job[p].pc = "reread"
     /\ Proceed(p, v)
     /\ drawing' = drawing \cup Draws(p, v)
     /\ UNCHANGED <<present, cached, lasting, granted, taken, lost>>

\* The load is known and the first key is set, with a lifetime.
SetProvide(p) ==
  \E load \in Loads :
    /\ job[p].pc = "collect"
    /\ present' = present \cup {"provide"}
    /\ cached' = [cached EXCEPT !["provide"] = Calculated(load)]
    /\ lasting' = lasting \ {"provide"}
    /\ job' = [job EXCEPT ![p].pc = "between", ![p].result = Calculated(load)]
    /\ UNCHANGED <<lock, granted, taken, drawing, lost>>

\* So is the second; the calculation is complete, its lock is released.
SetConsume(p) ==
  LET v == job[p].result
  IN /\ job[p].pc = "between"
     /\ present' = present \cup {"consume"}
     /\ cached' = [cached EXCEPT !["consume"] = v]
     /\ lasting' = lasting \ {"consume"}
     /\ granted' = v
     /\ taken' = 0
     /\ drawing' = Draws(p, v)
     /\ Proceed(p, v)
     /\ UNCHANGED lost

\* The unit is taken. Decrementing a key that has expired makes one that
\* holds -1 and never expires.
Take(p) ==
  LET k == job[p].key
  IN /\ job[p].pc = "take"
     /\ cached' = [cached EXCEPT ![k] = IF k \in present THEN @ - 1 ELSE -1]
     /\ present' = present \cup {k}
     /\ lasting' = IF k \in present THEN lasting ELSE lasting \cup {k}
     /\ taken' = IF p \in drawing THEN taken + 1 ELSE taken
     /\ drawing' = drawing \ {p}
     /\ job' = [job EXCEPT ![p] = NoJob]
     /\ Release(p, Lock)
     /\ UNCHANGED <<granted, lost>>

\* The lifetime of a key ends.
Expire(k) ==
  /\ k \in present \ lasting
  /\ present' = present \ {k}
  /\ cached' = [cached EXCEPT ![k] = 0]
  /\ UNCHANGED <<lasting, lock, job, granted, taken, drawing, lost>>

\* The process dies. Its locks stay until they expire.
Die(p) ==
  /\ "death" \in Mishaps
  /\ job[p].pc # "idle"
  /\ job' = [job EXCEPT ![p] = NoJob]
  /\ drawing' = drawing \ {p}
  /\ UNCHANGED <<present, cached, lasting, lock, granted, taken, lost>>

\* The lock of a process that died expires.
Reap(l) ==
  /\ lock[l] # Nobody
  /\ job[lock[l]].pc = "idle"
  /\ lock' = [lock EXCEPT ![l] = Nobody]
  /\ UNCHANGED <<present, cached, lasting, job, granted, taken, drawing, lost>>

\* The lock of a slow process expires.
LoseLock(l) ==
  /\ "lockLoss" \in Mishaps
  /\ lock[l] # Nobody
  /\ job[lock[l]].pc # "idle"
  /\ lock' = [lock EXCEPT ![l] = Nobody]
  /\ lost' = lost \cup {l}
  /\ UNCHANGED <<present, cached, lasting, job, granted, taken, drawing>>

Work(p) == \/ Hit(p) \/ Miss(p) \/ Enter(p) \/ Reread(p)
           \/ SetProvide(p) \/ SetConsume(p) \/ Take(p)

Next == \/ \E p \in Process : GetCapacity(p) \/ Consume(p) \/ Work(p) \/ Die(p)
        \/ \E k \in Key : Expire(k)
        \/ \E l \in Lock : Reap(l) \/ LoseLock(l)

Spec == Init /\ [][Next]_vars

\* Entries and locks with a lifetime expire, processes that have begun a call
\* go on, and both calls keep being made.
LiveSpec ==
  /\ Spec
  /\ \A k \in Key : WF_vars(Expire(k))
  /\ \A l \in Lock : WF_vars(Reap(l))
  /\ \A p \in Process : WF_vars(Work(p))
  /\ WF_vars(\E p \in Process : GetCapacity(p))
  /\ WF_vars(\E p \in Process : Consume(p))

-----------------------------------------------------------------------------
TypeOK ==
  /\ present \subseteq Key
  /\ cached \in [Key -> Int]
  /\ lasting \subseteq present
  /\ lock \in [Lock -> Process \cup {Nobody}]
  /\ job \in [Process -> Job]
  /\ granted \in Int /\ taken \in Nat
  /\ drawing \subseteq Process
  /\ lost \subseteq Lock

\* consume is safe between concurrent processes: of one calculation no more
\* units are consumed than it found, whatever expires, unless a process
\* outlived its lock.
GrantRespected ==
  "consume" \notin lost => taken = 0 \/ taken <= granted

\* A calculation overwrites no units still on offer under the key it was
\* started for: of the processes that miss it one calculates, the others read.
NoUnitsDiscarded ==
  [][\A p \in Process :
       LET k == job[p].key
           sets == IF k = "provide" THEN SetProvide(p) ELSE SetConsume(p)
       IN "recalculate" \notin lost /\ sets /\ k \in present
            => cached[k] < 0]_vars

\* getCapacity reads and decrements without a lock, so that several callers may
\* be told of the same unit. However they interleave, the number a calculation
\* left is overdrawn by less than one unit per process.
OverdrawBounded ==
  "provide" \in present \ lasting =>
    \E least \in {0} \cup {Calculated(load) : load \in Loads} :
      cached["provide"] > least - Cardinality(Process)

\* Neither key has a lifetime, and no process is about to set one.
Stuck ==
  /\ lasting = Key
  /\ \A p \in Process : job[p].pc \notin {"collect", "between"}

\* Once both keys have lost their lifetime and no process calculates, this
\* stays so whatever is called, and nobody else is given a unit.
StuckForGood ==
  [][Stuck => /\ Stuck'
              /\ \A p \in Process :
                   job'[p].pc = "take" => job[p].pc = "take"]_vars

\* A system that can take more executions does not refuse them for ever.
CapacityReturns ==
  []<>("consume" \notin present \/ cached["consume"] > 0)
=============================================================================
