--------------------------- MODULE CapacityProofs ---------------------------
(***************************************************************************)
(* However many processes share the capacity, and whatever expires or dies *)
(* in between: while no process outlives its lock, no calculation is       *)
(* overdrawn and none overwrites units still on offer. Outside the lock it *)
(* is overdrawn by less than one unit per process. And capacity that is    *)
(* refused for good is refused behind a key without a lifetime.            *)
(***************************************************************************)
EXTENDS Capacity, FiniteSetTheorems, TLAPS

\* A consumer holds its lock, a calculation its own, until they are lost.
Guarded ==
  \A p \in Process :
    /\ job[p].pc # "idle" /\ job[p].key = "consume" /\ "consume" \notin lost
         => lock["consume"] = p
    /\ job[p].pc \in {"reread", "collect", "between"} /\ "recalculate" \notin lost
         => lock["recalculate"] = p

\* Only a consumer about to take a unit draws on the calculation.
DrawersTake ==
  \A p \in drawing : job[p].pc = "take" /\ job[p].key = "consume"

\* What the cache offers, and what a process is about to take, is left.
Covered ==
  "consume" \notin lost =>
    /\ "consume" \in present /\ cached["consume"] > 0
         => cached["consume"] <= granted - taken
    /\ drawing # {} => taken < granted
    /\ taken = 0 \/ taken <= granted

\* A process that calculates for a key found it missing, and no other has
\* set it since: it can only be there by a late decrement.
MissingWhileCalculating ==
  "recalculate" \notin lost =>
    \A p \in Process :
      /\ job[p].key \in present
      /\ \/ job[p].pc = "collect"
         \/ job[p].pc = "between" /\ job[p].key = "consume"
      => cached[job[p].key] < 0

IInv == TypeOK /\ Guarded /\ DrawersTake /\ Covered /\ MissingWhileCalculating

-----------------------------------------------------------------------------
LEMMA CalculatedInt == \A load \in Loads : Calculated(load) \in Int
BY ConstantsAssumption DEF Calculated

\* What Proceed does to the jobs and the locks.
LEMMA ProceedEffect ==
  ASSUME TypeOK, NEW p \in Process, NEW v \in Int, Proceed(p, v)
  PROVE  /\ job' \in [Process -> Job]
         /\ lock' \in [Lock -> Process \cup {Nobody}]
         /\ \A q \in Process : q # p => job'[q] = job[q]
         /\ v > 0 => /\ job'[p].pc = "take" /\ job'[p].key = job[p].key
                     /\ lock'["consume"] = lock["consume"]
         /\ ~(v > 0) => job'[p] = NoJob
         /\ \A l \in Lock : lock[l] # p => lock'[l] = lock[l]
<1>1. /\ job \in [Process -> Job] /\ job[p] \in Job
      /\ lock \in [Lock -> Process \cup {Nobody}]
      /\ "consume" \in Lock
  BY DEF TypeOK, Lock
<1>2. NoJob \in Job
  BY DEF NoJob, Job, Key
<1>3. CASE v > 0
  <2> DEFINE next == [pc |-> "take", key |-> job[p].key, result |-> 0]
  <2>1. /\ job' = [job EXCEPT ![p] = next]
        /\ lock' = [l \in Lock |-> IF l \in {"recalculate"} /\ lock[l] = p
                                   THEN Nobody ELSE lock[l]]
    BY <1>3 DEF Proceed, Release
  <2>2. next \in Job /\ next.pc = "take" /\ next.key = job[p].key
    BY <1>1 DEF Job
  <2> HIDE DEF next
  <2>3. /\ job'[p] = next /\ job' \in [Process -> Job]
        /\ \A q \in Process : q # p => job'[q] = job[q]
    BY <1>1, <2>1, <2>2
  <2>4. QED
    BY <1>1, <1>3, <2>1, <2>2, <2>3
<1>4. CASE ~(v > 0)
  <2>1. /\ job' = [job EXCEPT ![p] = NoJob]
        /\ lock' = [l \in Lock |-> IF l \in Lock /\ lock[l] = p
                                   THEN Nobody ELSE lock[l]]
    BY <1>4 DEF Proceed, Release
  <2>2. QED
    BY <1>1, <1>2, <1>4, <2>1
<1>5. QED
  BY <1>3, <1>4

LEMMA InitIInv == Init => IInv
<1> SUFFICES ASSUME Init PROVE IInv
  OBVIOUS
<1>1. TypeOK
  BY DEF Init, TypeOK, NoJob, Job, Key, Lock
<1>2. \A p \in Process : job[p] = NoJob /\ NoJob.pc = "idle"
  BY DEF Init, NoJob
<1>3. Guarded /\ DrawersTake /\ MissingWhileCalculating
  BY <1>2 DEF Init, Guarded, DrawersTake, MissingWhileCalculating
<1>4. Covered
  BY DEF Init, Covered
<1>5. QED
  BY <1>1, <1>3, <1>4 DEF IInv

-----------------------------------------------------------------------------
\* A call begins: the process held no lock and drew on nothing.
LEMMA CallBegins ==
  ASSUME IInv, NEW p \in Process, GetCapacity(p) \/ Consume(p)
  PROVE  IInv'
<1>1. /\ job[p].pc = "idle"
      /\ \E k \in Key :
           /\ job' = [job EXCEPT ![p] = [pc |-> "read", key |-> k, result |-> 0]]
           /\ lock' = IF k = "consume" THEN [lock EXCEPT !["consume"] = p]
                      ELSE lock
           /\ k = "consume" => lock["consume"] = Nobody
      /\ UNCHANGED <<present, cached, lasting, granted, taken, drawing, lost>>
  BY DEF GetCapacity, Consume, Idle, Key
<1>2. PICK k \in Key :
         /\ job' = [job EXCEPT ![p] = [pc |-> "read", key |-> k, result |-> 0]]
         /\ lock' = IF k = "consume" THEN [lock EXCEPT !["consume"] = p] ELSE lock
         /\ k = "consume" => lock["consume"] = Nobody
  BY <1>1
<1>3. [pc |-> "read", key |-> k, result |-> 0] \in Job
  BY DEF Job
<1>4. /\ job'[p].pc = "read" /\ job'[p].key = k
      /\ \A q \in Process : q # p => job'[q] = job[q]
  BY <1>2 DEF IInv, TypeOK
<1>5. TypeOK'
  BY <1>1, <1>2, <1>3 DEF IInv, TypeOK, Lock
<1>6. Guarded'
  BY <1>1, <1>2, <1>4, ConstantsAssumption
     DEF IInv, Guarded, TypeOK, Lock
<1>7. DrawersTake'
  BY <1>1, <1>4 DEF IInv, DrawersTake, TypeOK
<1>8. Covered'
  BY <1>1 DEF IInv, Covered
<1>9. MissingWhileCalculating'
  BY <1>1, <1>4 DEF IInv, MissingWhileCalculating
<1>10. QED
  BY <1>5, <1>6, <1>7, <1>8, <1>9 DEF IInv
\* The number under the key is known: a lemma for Hit and Reread.
LEMMA NumberKnown ==
  ASSUME IInv, NEW p \in Process, job[p].pc \in {"read", "reread"},
         NEW v \in Int, Proceed(p, v), v > 0 => job[p].key \in present,
         v > 0 => v = cached[job[p].key], drawing' = drawing \cup Draws(p, v),
         UNCHANGED <<present, cached, lasting, granted, taken, lost>>
  PROVE  IInv'
<1>1. /\ job' \in [Process -> Job]
      /\ lock' \in [Lock -> Process \cup {Nobody}]
      /\ \A q \in Process : q # p => job'[q] = job[q]
      /\ v > 0 => /\ job'[p].pc = "take" /\ job'[p].key = job[p].key
                  /\ lock'["consume"] = lock["consume"]
      /\ ~(v > 0) => job'[p].pc = "idle"
      /\ \A l \in Lock : lock[l] # p => lock'[l] = lock[l]
  BY ProceedEffect DEF IInv, NoJob
<1>2. Draws(p, v) = IF job[p].key = "consume" /\ v > 0 THEN {p} ELSE {}
  BY DEF Draws
<1>3. TypeOK'
  BY <1>1, <1>2 DEF IInv, TypeOK
<1>4. Guarded'
  BY <1>1, ConstantsAssumption DEF IInv, Guarded, TypeOK, Lock
<1>5. p \notin drawing
  BY DEF IInv, DrawersTake
<1>6. DrawersTake'
  BY <1>1, <1>2, <1>5 DEF IInv, DrawersTake, TypeOK
<1>7. Covered'
  BY <1>2, SMT DEF IInv, Covered, TypeOK, Key
<1>8. MissingWhileCalculating'
  BY <1>1 DEF IInv, MissingWhileCalculating
<1>9. QED
  BY <1>3, <1>4, <1>6, <1>7, <1>8 DEF IInv

LEMMA HitIInv ==
  ASSUME IInv, NEW p \in Process, Hit(p)
  PROVE  IInv'
<1>1. cached[job[p].key] \in Int
  BY DEF IInv, TypeOK, Job
<1>2. QED
  BY <1>1, NumberKnown DEF Hit

LEMMA RereadIInv ==
  ASSUME IInv, NEW p \in Process, Reread(p)
  PROVE  IInv'
<1> DEFINE v == IF job[p].key \in present THEN cached[job[p].key] ELSE 0
<1>1. cached[job[p].key] \in Int
  BY DEF IInv, TypeOK, Job
<1>2. v \in Int /\ (v > 0 => job[p].key \in present /\ v = cached[job[p].key])
  BY <1>1
<1>3. Proceed(p, v) /\ drawing' = drawing \cup Draws(p, v)
  BY DEF Reread
<1> HIDE DEF v
<1>4. QED
  BY <1>2, <1>3, NumberKnown DEF Reread

-----------------------------------------------------------------------------
LEMMA MissIInv ==
  ASSUME IInv, NEW p \in Process, Miss(p)
  PROVE  IInv'
<1>1. /\ job[p] \in Job /\ job' = [job EXCEPT ![p].pc = "recalculate"]
      /\ job[p].pc = "read"
      /\ UNCHANGED <<present, cached, lasting, lock, granted, taken, drawing, lost>>
  BY DEF IInv, TypeOK, Miss, Goto
<1>2. /\ job'[p] = [job[p] EXCEPT !.pc = "recalculate"]
      /\ job'[p] \in Job
      /\ job'[p].pc = "recalculate" /\ job'[p].key = job[p].key
      /\ \A q \in Process : q # p => job'[q] = job[q]
  BY <1>1 DEF IInv, TypeOK, Job
<1>3. TypeOK'
  BY <1>1, <1>2 DEF IInv, TypeOK
<1>4. Guarded' /\ DrawersTake'
  BY <1>1, <1>2 DEF IInv, Guarded, DrawersTake, TypeOK
<1>5. Covered' /\ MissingWhileCalculating'
  BY <1>1, <1>2 DEF IInv, Covered, MissingWhileCalculating
<1>6. QED
  BY <1>3, <1>4, <1>5 DEF IInv

LEMMA EnterIInv ==
  ASSUME IInv, NEW p \in Process, Enter(p)
  PROVE  IInv'
<1>1. PICK pc \in {"reread", "collect"} :
         /\ job' = [job EXCEPT ![p].pc = pc]
         /\ pc = "collect" => job[p].key \notin present
  BY DEF Enter, Goto
<1>2. /\ job[p] \in Job /\ job[p].pc = "recalculate"
      /\ lock["recalculate"] = Nobody
      /\ lock' = [lock EXCEPT !["recalculate"] = p]
      /\ UNCHANGED <<present, cached, lasting, granted, taken, drawing, lost>>
  BY DEF IInv, TypeOK, Enter
<1>3. /\ job'[p] = [job[p] EXCEPT !.pc = pc]
      /\ job'[p] \in Job
      /\ job'[p].pc = pc /\ job'[p].key = job[p].key
      /\ \A q \in Process : q # p => job'[q] = job[q]
  BY <1>1, <1>2 DEF IInv, TypeOK, Job
<1>4. TypeOK'
  BY <1>1, <1>2, <1>3 DEF IInv, TypeOK, Lock
<1>5. Guarded'
  BY <1>1, <1>2, <1>3, ConstantsAssumption DEF IInv, Guarded, TypeOK, Lock
<1>6. DrawersTake' /\ Covered'
  BY <1>2, <1>3 DEF IInv, DrawersTake, Covered, TypeOK
<1>7. MissingWhileCalculating'
  BY <1>1, <1>2, <1>3 DEF IInv, MissingWhileCalculating
<1>8. QED
  BY <1>4, <1>5, <1>6, <1>7 DEF IInv

LEMMA SetProvideIInv ==
  ASSUME IInv, NEW p \in Process, SetProvide(p)
  PROVE  IInv'
<1>1. PICK v \in Int :
         /\ present' = present \cup {"provide"}
         /\ cached' = [cached EXCEPT !["provide"] = v]
         /\ lasting' = lasting \ {"provide"}
         /\ job' = [job EXCEPT ![p].pc = "between", ![p].result = v]
  BY CalculatedInt DEF SetProvide
<1>2. /\ job[p] \in Job /\ job[p].pc = "collect"
      /\ UNCHANGED <<lock, granted, taken, drawing, lost>>
  BY DEF IInv, TypeOK, SetProvide
<1>3. /\ job'[p].pc = "between" /\ job'[p].key = job[p].key
      /\ job'[p] \in Job
      /\ \A q \in Process : q # p => job'[q] = job[q]
  BY <1>1, <1>2 DEF IInv, TypeOK, Job
<1>4. /\ cached' \in [Key -> Int] /\ cached'["consume"] = cached["consume"]
      /\ "consume" \in present' <=> "consume" \in present
  BY <1>1 DEF IInv, TypeOK, Key
<1>5. TypeOK'
  BY <1>1, <1>2, <1>3, <1>4 DEF IInv, TypeOK, Key
<1>6. Guarded' /\ DrawersTake'
  BY <1>2, <1>3 DEF IInv, Guarded, DrawersTake, TypeOK
<1>7. Covered'
  BY <1>2, <1>4 DEF IInv, Covered
<1>8. MissingWhileCalculating'
  <2> SUFFICES ASSUME "recalculate" \notin lost, NEW q \in Process,
                      job'[q].key \in present',
                      \/ job'[q].pc = "collect"
                      \/ job'[q].pc = "between" /\ job'[q].key = "consume"
               PROVE  cached'[job'[q].key] < 0
    BY <1>2 DEF MissingWhileCalculating
  <2>1. q = p
    BY <1>2, <1>3 DEF IInv, Guarded
  <2>2. job[p].key = "consume"
    BY <1>3, <2>1
  <2>3. QED
    BY <1>2, <1>3, <1>4, <2>1, <2>2 DEF IInv, MissingWhileCalculating
<1>9. QED
  BY <1>5, <1>6, <1>7, <1>8 DEF IInv
LEMMA SetConsumeIInv ==
  ASSUME IInv, NEW p \in Process, SetConsume(p)
  PROVE  IInv'
<1> DEFINE v == job[p].result
<1>1. v \in Int
  BY DEF IInv, TypeOK, Job
<1>2. /\ job[p].pc = "between" /\ Proceed(p, v) /\ drawing' = Draws(p, v)
      /\ present' = present \cup {"consume"}
      /\ cached' = [cached EXCEPT !["consume"] = v]
      /\ lasting' = lasting \ {"consume"}
      /\ granted' = v /\ taken' = 0 /\ UNCHANGED lost
  BY DEF SetConsume
<1> HIDE DEF v
<1>3. /\ job' \in [Process -> Job]
      /\ lock' \in [Lock -> Process \cup {Nobody}]
      /\ \A q \in Process : q # p => job'[q] = job[q]
      /\ v > 0 => /\ job'[p].pc = "take" /\ job'[p].key = job[p].key
                  /\ lock'["consume"] = lock["consume"]
      /\ ~(v > 0) => job'[p].pc = "idle"
      /\ \A l \in Lock : lock[l] # p => lock'[l] = lock[l]
  BY <1>1, <1>2, ProceedEffect DEF IInv, NoJob
<1>4. drawing' = IF job[p].key = "consume" /\ v > 0 THEN {p} ELSE {}
  BY <1>2 DEF Draws
<1>5. /\ cached' \in [Key -> Int] /\ cached'["consume"] = v
      /\ cached'["provide"] = cached["provide"]
  BY <1>1, <1>2 DEF IInv, TypeOK, Key
<1>6. TypeOK'
  BY <1>1, <1>2, <1>3, <1>4, <1>5 DEF IInv, TypeOK, Key
<1>7. Guarded'
  BY <1>2, <1>3, ConstantsAssumption DEF IInv, Guarded, TypeOK, Lock
<1>8. DrawersTake'
  BY <1>3, <1>4 DEF DrawersTake
<1>9. Covered'
  BY <1>1, <1>2, <1>4, <1>5 DEF Covered
<1>10. MissingWhileCalculating'
  <2>1. \A q \in Process :
          "recalculate" \notin lost => job'[q].pc \notin {"collect", "between"}
    BY <1>2, <1>3 DEF IInv, Guarded
  <2>2. QED
    BY <1>2, <2>1 DEF MissingWhileCalculating
<1>11. QED
  BY <1>6, <1>7, <1>8, <1>9, <1>10 DEF IInv

LEMMA TakeIInv ==
  ASSUME IInv, NEW p \in Process, Take(p)
  PROVE  IInv'
<1> DEFINE k == job[p].key
           v == IF k \in present THEN cached[k] - 1 ELSE -1
<1>1. /\ job[p] \in Job /\ k \in Key /\ job[p].pc = "take"
      /\ cached \in [Key -> Int] /\ v \in Int
  BY DEF IInv, TypeOK, Take, Job
<1>2. /\ cached' = [cached EXCEPT ![k] = v]
      /\ present' = present \cup {k}
      /\ lasting' = IF k \in present THEN lasting ELSE lasting \cup {k}
      /\ taken' = IF p \in drawing THEN taken + 1 ELSE taken
      /\ drawing' = drawing \ {p}
      /\ job' = [job EXCEPT ![p] = NoJob]
      /\ lock' = [l \in Lock |-> IF lock[l] = p THEN Nobody ELSE lock[l]]
      /\ UNCHANGED <<granted, lost>>
  BY <1>1 DEF Take, Release
<1>3. k \notin present => v = -1
  OBVIOUS
<1>4. k \in present => v = cached[k] - 1
  OBVIOUS
<1>5. p \in drawing => k = "consume"
  BY DEF IInv, DrawersTake
<1>6. "consume" \notin lost => \A q \in drawing : p \in drawing => q = p
  BY DEF IInv, DrawersTake, Guarded, TypeOK
<1>7. job'[p] = NoJob /\ \A q \in Process : q # p => job'[q] = job[q]
  BY <1>2 DEF IInv, TypeOK
<1>8. NoJob \in Job /\ NoJob.pc = "idle"
  BY DEF NoJob, Job, Key
<1>9. /\ cached' \in [Key -> Int] /\ cached'[k] = v
      /\ \A x \in Key : x # k => cached'[x] = cached[x]
  BY <1>1, <1>2
<1> HIDE DEF v, k
<1>10. TypeOK'
  <2>1. drawing' \subseteq Process /\ taken' \in Nat /\ granted' \in Int
    BY <1>2 DEF IInv, TypeOK
  <2>2. present' \subseteq Key /\ lasting' \subseteq present'
    BY <1>1, <1>2 DEF IInv, TypeOK
  <2>3. lock' \in [Lock -> Process \cup {Nobody}] /\ lost' \subseteq Lock
    BY <1>2 DEF IInv, TypeOK
  <2>4. job' \in [Process -> Job]
    BY <1>2, <1>8 DEF IInv, TypeOK
  <2>5. QED
    BY <1>9, <2>1, <2>2, <2>3, <2>4 DEF TypeOK
<1>11. Guarded'
  BY <1>2, <1>7, <1>8, ConstantsAssumption DEF IInv, Guarded, TypeOK, Lock
<1>12. DrawersTake'
  BY <1>2, <1>7 DEF IInv, DrawersTake, TypeOK
<1>13. Covered'
  <2> SUFFICES ASSUME "consume" \notin lost
               PROVE  /\ "consume" \in present' /\ cached'["consume"] > 0
                           => cached'["consume"] <= granted - taken'
                      /\ drawing' # {} => taken' < granted
                      /\ taken' = 0 \/ taken' <= granted
    BY <1>2 DEF Covered
  <2>1. /\ "consume" \in present /\ cached["consume"] > 0
             => cached["consume"] <= granted - taken
        /\ drawing # {} => taken < granted
        /\ taken = 0 \/ taken <= granted
        /\ taken \in Nat /\ granted \in Int /\ cached["consume"] \in Int
    BY DEF IInv, Covered, TypeOK, Key
  <2>2. CASE p \in drawing
    <3>1. /\ k = "consume" /\ drawing' = {} /\ taken' = taken + 1
          /\ cached'["consume"] = v
      BY <1>2, <1>5, <1>6, <1>9, <2>2
    <3>2. v > 0 => "consume" \in present /\ v = cached["consume"] - 1
      BY <1>3, <1>4, <3>1
    <3>3. QED
      BY <1>1, <2>1, <2>2, <3>1, <3>2
  <2>3. CASE p \notin drawing
    <3>1. drawing' = drawing /\ taken' = taken
      BY <1>2, <2>3
    <3>2. CASE k = "consume"
      BY <1>1, <1>3, <1>4, <1>9, <2>1, <3>1, <3>2
    <3>3. CASE k # "consume"
      <4>1. /\ cached'["consume"] = cached["consume"]
            /\ "consume" \in present' => "consume" \in present
        BY <1>2, <1>9, <3>3 DEF Key
      <4>2. QED
        BY <2>1, <3>1, <4>1
    <3>4. QED
      BY <3>2, <3>3
  <2>4. QED
    BY <2>2, <2>3
<1>14. MissingWhileCalculating'
  <2>1. ASSUME "recalculate" \notin lost, NEW q \in Process,
               job'[q].key \in present',
               \/ job'[q].pc = "collect"
               \/ job'[q].pc = "between" /\ job'[q].key = "consume"
        PROVE  cached'[job'[q].key] < 0
    <3>1. q # p /\ job'[q] = job[q] /\ job[q].key \in Key
      BY <1>7, <1>8, <2>1 DEF IInv, TypeOK, Job
    <3>2. job[q].key \in present => cached[job[q].key] < 0
      BY <2>1, <3>1 DEF IInv, MissingWhileCalculating
    <3>3. CASE job[q].key = k
      <4>1. cached'[job'[q].key] = v /\ cached[k] \in Int
        BY <1>1, <1>9, <3>1, <3>3
      <4>2. QED
        BY <1>3, <1>4, <3>2, <3>3, <4>1
    <3>4. CASE job[q].key # k
      BY <1>2, <1>9, <2>1, <3>1, <3>2, <3>4
    <3>5. QED
      BY <3>3, <3>4
  <2>2. QED
    BY <1>2, <2>1 DEF MissingWhileCalculating
<1>15. QED
  BY <1>10, <1>11, <1>12, <1>13, <1>14 DEF IInv

-----------------------------------------------------------------------------
LEMMA ExpireIInv ==
  ASSUME IInv, NEW k \in Key, Expire(k)
  PROVE  IInv'
<1>1. /\ present' = present \ {k} /\ k \notin lasting
      /\ cached' = [cached EXCEPT ![k] = 0]
      /\ UNCHANGED <<lasting, lock, job, granted, taken, drawing, lost>>
  BY DEF Expire
<1>2. /\ cached' \in [Key -> Int]
      /\ \A x \in present' : cached'[x] = cached[x]
  BY <1>1 DEF IInv, TypeOK
<1>3. TypeOK'
  BY <1>1, <1>2 DEF IInv, TypeOK
<1>4. Guarded' /\ DrawersTake'
  BY <1>1 DEF IInv, Guarded, DrawersTake
<1>5. Covered'
  BY <1>1, <1>2 DEF IInv, Covered
<1>6. MissingWhileCalculating'
  BY <1>1, <1>2 DEF IInv, MissingWhileCalculating
<1>7. QED
  BY <1>3, <1>4, <1>5, <1>6 DEF IInv

LEMMA DieIInv ==
  ASSUME IInv, NEW p \in Process, Die(p)
  PROVE  IInv'
<1>1. /\ job' = [job EXCEPT ![p] = NoJob] /\ drawing' = drawing \ {p}
      /\ UNCHANGED <<present, cached, lasting, lock, granted, taken, lost>>
  BY DEF Die
<1>2. NoJob \in Job /\ NoJob.pc = "idle"
  BY DEF NoJob, Job, Key
<1>3. job'[p] = NoJob /\ \A q \in Process : q # p => job'[q] = job[q]
  BY <1>1 DEF IInv, TypeOK
<1>4. TypeOK'
  BY <1>1, <1>2 DEF IInv, TypeOK
<1>5. Guarded' /\ DrawersTake'
  BY <1>1, <1>2, <1>3 DEF IInv, Guarded, DrawersTake, TypeOK
<1>6. Covered'
  BY <1>1 DEF IInv, Covered
<1>7. MissingWhileCalculating'
  BY <1>1, <1>2, <1>3 DEF IInv, MissingWhileCalculating
<1>8. QED
  BY <1>4, <1>5, <1>6, <1>7 DEF IInv

LEMMA LockExpiresIInv ==
  ASSUME IInv, NEW l \in Lock, Reap(l) \/ LoseLock(l)
  PROVE  IInv'
<1>1. /\ lock' = [lock EXCEPT ![l] = Nobody]
      /\ lost' = lost \/ lost' = lost \cup {l}
      /\ lock[l] # Nobody
      /\ job[lock[l]].pc = "idle" \/ l \in lost'
      /\ UNCHANGED <<present, cached, lasting, job, granted, taken, drawing>>
  BY DEF Reap, LoseLock
<1>2. TypeOK'
  BY <1>1 DEF IInv, TypeOK
<1>3. Guarded'
  BY <1>1 DEF IInv, Guarded, TypeOK, Lock
<1>4. DrawersTake' /\ Covered' /\ MissingWhileCalculating'
  BY <1>1 DEF IInv, DrawersTake, Covered, MissingWhileCalculating
<1>5. QED
  BY <1>2, <1>3, <1>4 DEF IInv

LEMMA NextIInv == IInv /\ [Next]_vars => IInv'
<1> SUFFICES ASSUME IInv, [Next]_vars PROVE IInv'
  OBVIOUS
<1>1. ASSUME NEW p \in Process, GetCapacity(p) \/ Consume(p) PROVE IInv'
  BY <1>1, CallBegins
<1>2. ASSUME NEW p \in Process, Work(p) PROVE IInv'
  BY <1>2, HitIInv, MissIInv, EnterIInv, RereadIInv, SetProvideIInv,
     SetConsumeIInv, TakeIInv DEF Work
<1>3. ASSUME NEW p \in Process, Die(p) PROVE IInv'
  BY <1>3, DieIInv
<1>4. ASSUME NEW k \in Key, Expire(k) PROVE IInv'
  BY <1>4, ExpireIInv
<1>5. ASSUME NEW l \in Lock, Reap(l) \/ LoseLock(l) PROVE IInv'
  BY <1>5, LockExpiresIInv
<1>6. CASE UNCHANGED vars
  BY <1>6 DEF vars, IInv, TypeOK, Guarded, DrawersTake, Covered,
              MissingWhileCalculating
<1>7. QED
  BY <1>1, <1>2, <1>3, <1>4, <1>5, <1>6 DEF Next

LEMMA Invariance == Spec => []IInv
BY InitIInv, NextIInv, PTL DEF Spec

\* consume is safe between any number of processes while none of them
\* outlives its lock.
THEOREM GrantTheorem == Spec => []GrantRespected
<1>1. IInv => GrantRespected
  BY DEF IInv, Covered, GrantRespected
<1>2. QED
  BY Invariance, <1>1, PTL

\* No calculation overwrites units on offer under the key it is for.
THEOREM NoUnitsDiscardedTheorem == Spec => NoUnitsDiscarded
<1> DEFINE
      sets(p) == IF job[p].key = "provide" THEN SetProvide(p) ELSE SetConsume(p)
<1>1. ASSUME IInv, NEW p \in Process, "recalculate" \notin lost, sets(p),
             job[p].key \in present
      PROVE  cached[job[p].key] < 0
  <2>1. job[p].key \in Key
    BY <1>1 DEF IInv, TypeOK, Job
  <2>2. \/ job[p].pc = "collect"
        \/ job[p].pc = "between" /\ job[p].key = "consume"
    BY <1>1, <2>1 DEF SetProvide, SetConsume, Key
  <2>3. QED
    BY <1>1, <2>2 DEF IInv, MissingWhileCalculating
<1>2. IInv /\ [Next]_vars =>
        [\A p \in Process :
           LET k == job[p].key
               does == IF k = "provide" THEN SetProvide(p) ELSE SetConsume(p)
           IN "recalculate" \notin lost /\ does /\ k \in present
                => cached[k] < 0]_vars
  BY <1>1
<1>3. QED
  BY Invariance, <1>2, PTL DEF Spec, NoUnitsDiscarded

-----------------------------------------------------------------------------
\* The processes that were told of a unit to provide and have not taken it.
Promised ==
  {p \in Process :
     /\ job[p].key = "provide"
     /\ \/ job[p].pc = "take"
        \/ job[p].pc = "between" /\ job[p].result > 0}

Least == {0} \cup {Calculated(load) : load \in Loads}

\* The bound of OverdrawBounded holds even if every promise is redeemed.
PromisesCovered ==
  "provide" \in present \ lasting =>
    \E least \in Least :
      cached["provide"] - Cardinality(Promised) > least - Cardinality(Process)

LEMMA PromisedFew ==
  /\ Cardinality(Process) \in Nat
  /\ Promised \subseteq Process
  /\ IsFiniteSet(Promised)
  /\ Cardinality(Promised) \in Nat
  /\ Cardinality(Promised) <= Cardinality(Process)
<1>1. Promised \subseteq Process
  BY DEF Promised
<1>2. IsFiniteSet(Process)
  BY FiniteAssumption
<1> QED
  BY <1>1, <1>2, FS_Subset, FS_CardinalityType

LEMMA PromisedFewNext ==
  /\ Promised' \subseteq Process
  /\ IsFiniteSet(Promised')
  /\ Cardinality(Promised') \in Nat
  /\ Cardinality(Promised') <= Cardinality(Process)
  /\ Promised' # Process => Cardinality(Promised') < Cardinality(Process)
<1>1. Promised' \subseteq Process
  BY DEF Promised
<1>2. IsFiniteSet(Process)
  BY FiniteAssumption
<1> QED
  BY <1>1, <1>2, FS_Subset, FS_CardinalityType

\* The four ways in which a step may change the number and the promises.
LEMMA PromisesMove ==
  ASSUME TypeOK, PromisesCovered, cached'["provide"] \in Int,
         "provide" \in present' \ lasting' =>
           \/ /\ "provide" \in present \ lasting
              /\ cached'["provide"] = cached["provide"]
              /\ Promised' \subseteq Promised
           \/ cached'["provide"] > 0
           \/ cached'["provide"] \in Least /\ Promised' # Process
           \/ /\ "provide" \in present \ lasting
              /\ cached'["provide"] = cached["provide"] - 1
              /\ \E p \in Promised : Promised' \subseteq Promised \ {p}
  PROVE  PromisesCovered'
<1> SUFFICES ASSUME "provide" \in present' \ lasting'
             PROVE  \E least \in Least :
                      cached'["provide"] - Cardinality(Promised')
                        > least - Cardinality(Process)
  BY DEF PromisesCovered, Least
<1> DEFINE N == Cardinality(Process)
           n == Cardinality(Promised)
           m == Cardinality(Promised')
           v == cached["provide"]
           w == cached'["provide"]
<1>1. /\ N \in Nat /\ n \in Nat /\ m \in Nat /\ m <= N /\ v \in Int /\ w \in Int
      /\ Promised' # Process => m < N
  BY PromisedFew, PromisedFewNext DEF TypeOK, Key
<1>2. 0 \in Least /\ Least \subseteq Int
  BY CalculatedInt DEF Least
<1>3. CASE /\ "provide" \in present \ lasting /\ w = v
           /\ Promised' \subseteq Promised
  <2>1. m <= n
    BY <1>3, PromisedFew, FS_Subset
  <2>2. PICK least \in Least : v - n > least - N
    BY <1>3 DEF PromisesCovered
  <2> QED BY <1>1, <1>2, <1>3, <2>1, <2>2
<1>4. CASE w > 0
  <2>1. w - m > 0 - N
    BY <1>1, <1>4
  <2> QED BY <1>2, <2>1
<1>5. CASE w \in Least /\ Promised' # Process
  <2>1. w - m > w - N
    BY <1>1, <1>5
  <2> QED BY <1>5, <2>1
<1>6. CASE /\ "provide" \in present \ lasting /\ w = v - 1
           /\ \E p \in Promised : Promised' \subseteq Promised \ {p}
  <2>1. PICK p \in Promised : Promised' \subseteq Promised \ {p}
    BY <1>6
  <2>2. /\ IsFiniteSet(Promised \ {p})
        /\ Cardinality(Promised \ {p}) = n - 1
    BY PromisedFew, FS_RemoveElement
  <2>3. m <= n - 1
    BY <2>1, <2>2, FS_Subset
  <2>4. PICK least \in Least : v - n > least - N
    BY <1>6 DEF PromisesCovered
  <2> QED BY <1>1, <1>2, <1>6, <2>3, <2>4
<1> QED
  BY <1>3, <1>4, <1>5, <1>6

\* A step that leaves the number and its lifetime alone and makes no promise.
LEMMA PromisesKept ==
  ASSUME TypeOK, PromisesCovered, UNCHANGED <<present, cached, lasting>>,
         Promised' \subseteq Promised
  PROVE  PromisesCovered'
BY PromisesMove DEF TypeOK, Key

\* Where one process moves, the promises are its own affair.
LEMMA OneMoves ==
  ASSUME NEW p \in Process, \A q \in Process : q # p => job'[q] = job[q]
  PROVE  /\ Promised' \subseteq Promised \cup {p}
         /\ job'[p].key = "consume" \/ job'[p].pc \notin {"take", "between"}
              => p \notin Promised' /\ Promised' \subseteq Promised \ {p}
BY DEF Promised

\* The process p goes on with the number v, of which it had been promised a
\* unit already or which it has just read.
LEMMA ProceedPromises ==
  ASSUME TypeOK, PromisesCovered, NEW p \in Process, NEW v \in Int,
         Proceed(p, v), cached'["provide"] = cached["provide"],
         cached'["provide"] \in Int,
         "provide" \in present' \ lasting' => "provide" \in present \ lasting,
         job[p].key = "provide" /\ v > 0 =>
           cached["provide"] > 0 \/ p \in Promised
  PROVE  PromisesCovered'
<1>1. /\ \A q \in Process : q # p => job'[q] = job[q]
      /\ v > 0 => job'[p].key = job[p].key
      /\ ~(v > 0) => job'[p] = NoJob
  BY ProceedEffect
<1>2. job[p].key \in Key
  BY DEF TypeOK, Job
<1>3. CASE job[p].key = "provide" /\ v > 0
  BY <1>1, <1>3, OneMoves, PromisesMove
<1>4. CASE ~(job[p].key = "provide" /\ v > 0)
  <2>1. job'[p].key = "consume" \/ job'[p].pc = "idle"
    BY <1>1, <1>2, <1>4 DEF NoJob, Key
  <2> QED BY <1>1, <2>1, OneMoves, PromisesMove
<1> QED BY <1>3, <1>4

LEMMA SetProvidePromises ==
  ASSUME TypeOK, PromisesCovered, NEW p \in Process, SetProvide(p)
  PROVE  PromisesCovered'
<1>1. PICK load \in Loads :
         /\ cached' = [cached EXCEPT !["provide"] = Calculated(load)]
         /\ job' = [job EXCEPT ![p].pc = "between",
                               ![p].result = Calculated(load)]
  BY DEF SetProvide
<1>2. /\ cached'["provide"] = Calculated(load) /\ Calculated(load) \in Int
      /\ job'[p].result = Calculated(load)
      /\ job'[p].pc = "between"
  BY <1>1, CalculatedInt DEF TypeOK, Key, Job
<1>3. Calculated(load) > 0 \/ p \notin Promised'
  BY <1>2 DEF Promised
<1> QED
  BY <1>2, <1>3, PromisesMove DEF Least

LEMMA TakePromises ==
  ASSUME TypeOK, PromisesCovered, NEW p \in Process, Take(p)
  PROVE  PromisesCovered'
<1> DEFINE k == job[p].key
<1>1. /\ k \in Key /\ job[p].pc = "take"
      /\ job' = [job EXCEPT ![p] = NoJob]
      /\ present' = present \cup {k}
      /\ lasting' = IF k \in present THEN lasting ELSE lasting \cup {k}
      /\ cached' = [cached EXCEPT ![k] = IF k \in present THEN @ - 1 ELSE -1]
  BY DEF Take, TypeOK, Job
<1>2. /\ \A q \in Process : q # p => job'[q] = job[q]
      /\ job'[p].pc = "idle"
  BY <1>1 DEF TypeOK, NoJob
<1>3. Promised' \subseteq Promised \ {p}
  BY <1>2, OneMoves
<1>4. CASE k = "provide" /\ k \in present
  <2>1. /\ cached'["provide"] = cached["provide"] - 1
        /\ cached'["provide"] \in Int
        /\ "provide" \in present' \ lasting' => "provide" \in present \ lasting
    BY <1>1, <1>4 DEF TypeOK, Key
  <2>2. p \in Promised
    BY <1>1, <1>4 DEF Promised
  <2> QED BY <1>3, <2>1, <2>2, PromisesMove
<1>5. CASE k = "provide" /\ k \notin present
  <2>1. "provide" \in lasting' /\ cached'["provide"] \in Int
    BY <1>1, <1>5 DEF TypeOK, Key
  <2> QED BY <2>1, PromisesMove
<1>6. CASE k # "provide"
  <2>1. /\ cached'["provide"] = cached["provide"] /\ cached["provide"] \in Int
        /\ "provide" \in present' \ lasting' => "provide" \in present \ lasting
    BY <1>1, <1>6 DEF TypeOK, Key
  <2> QED BY <1>3, <2>1, PromisesMove
<1> QED BY <1>4, <1>5, <1>6

LEMMA NextPromises ==
  TypeOK /\ PromisesCovered /\ [Next]_vars => PromisesCovered'
<1> SUFFICES ASSUME TypeOK, PromisesCovered, [Next]_vars
             PROVE  PromisesCovered'
  OBVIOUS
<1>0. \A p \in Process : job[p] \in Job
  BY DEF TypeOK
<1>1. ASSUME NEW p \in Process, NEW next,
             job' = [job EXCEPT ![p] = next],
             next.pc \notin {"take", "between"},
             UNCHANGED <<present, cached, lasting>>
      PROVE  PromisesCovered'
  <2>1. job'[p] = next /\ \A q \in Process : q # p => job'[q] = job[q]
    BY <1>1 DEF TypeOK
  <2> QED BY <1>1, <2>1, OneMoves, PromisesKept
<1>2. ASSUME NEW p \in Process, GetCapacity(p) \/ Consume(p) \/ Die(p)
      PROVE  PromisesCovered'
  BY <1>1, <1>2 DEF GetCapacity, Consume, Die, NoJob
<1>3. ASSUME NEW p \in Process, Miss(p) \/ Enter(p) PROVE PromisesCovered'
  <2>1. PICK pc \in {"recalculate", "reread", "collect"} :
           job' = [job EXCEPT ![p] = [job[p] EXCEPT !.pc = pc]]
    BY <1>3 DEF Miss, Enter, Goto
  <2> QED BY <1>0, <1>1, <1>3, <2>1 DEF Miss, Enter, Job
<1>4. ASSUME NEW p \in Process, Hit(p) PROVE PromisesCovered'
  BY <1>0, <1>4, ProceedPromises DEF Hit, TypeOK, Key, Job
<1>5. ASSUME NEW p \in Process, Reread(p) PROVE PromisesCovered'
  <2> DEFINE v == IF job[p].key \in present THEN cached[job[p].key] ELSE 0
  <2>1. /\ Proceed(p, v) /\ v \in Int /\ cached["provide"] \in Int
        /\ job[p].key = "provide" /\ v > 0 => cached["provide"] > 0
        /\ UNCHANGED <<present, cached, lasting>>
    BY <1>0, <1>5 DEF Reread, TypeOK, Key, Job
  <2> HIDE DEF v
  <2> QED BY <2>1, ProceedPromises
<1>6. ASSUME NEW p \in Process, SetConsume(p) PROVE PromisesCovered'
  <2>1. /\ Proceed(p, job[p].result) /\ job[p].pc = "between"
        /\ job[p].result \in Int
        /\ cached'["provide"] = cached["provide"] /\ cached["provide"] \in Int
        /\ "provide" \in present' \ lasting' => "provide" \in present \ lasting
    BY <1>0, <1>6 DEF SetConsume, TypeOK, Key, Job
  <2>2. job[p].key = "provide" /\ job[p].result > 0 => p \in Promised
    BY <2>1 DEF Promised
  <2> QED BY <2>1, <2>2, ProceedPromises
<1>7. ASSUME NEW k \in Key, Expire(k) PROVE PromisesCovered'
  <2>1. /\ Promised' = Promised /\ cached'["provide"] \in Int
        /\ "provide" \in present' \ lasting' =>
             /\ "provide" \in present \ lasting
             /\ cached'["provide"] = cached["provide"]
    BY <1>7 DEF Expire, Promised, TypeOK, Key
  <2> QED BY <2>1, PromisesMove
<1>8. ASSUME NEW l \in Lock, Reap(l) \/ LoseLock(l) PROVE PromisesCovered'
  <2>1. Promised' = Promised /\ UNCHANGED <<present, cached, lasting>>
    BY <1>8 DEF Reap, LoseLock, Promised
  <2> QED BY <2>1, PromisesKept
<1>9. CASE UNCHANGED vars
  <2>1. Promised' = Promised /\ UNCHANGED <<present, cached, lasting>>
    BY <1>9 DEF vars, Promised
  <2> QED BY <2>1, PromisesKept
<1> QED
  BY <1>2, <1>3, <1>4, <1>5, <1>6, <1>7, <1>8, <1>9, SetProvidePromises,
     TakePromises DEF Next, Work

\* However many processes ask for capacity at once, the answers overdraw what
\* was calculated by less than one unit per process.
THEOREM OverdrawTheorem == Spec => []OverdrawBounded
<1>1. Init => PromisesCovered
  BY DEF Init, PromisesCovered
<1>2. TypeOK /\ PromisesCovered => OverdrawBounded
  <2> SUFFICES ASSUME TypeOK, PromisesCovered, "provide" \in present \ lasting
               PROVE  \E least \in Least :
                        cached["provide"] > least - Cardinality(Process)
    BY DEF OverdrawBounded, Least
  <2>1. PICK least \in Least :
           cached["provide"] - Cardinality(Promised)
             > least - Cardinality(Process)
    BY DEF PromisesCovered
  <2>2. least \in Int /\ cached["provide"] \in Int
    BY CalculatedInt DEF Least, TypeOK, Key
  <2> QED BY <2>1, <2>2, PromisedFew
<1>3. IInv => TypeOK
  BY DEF IInv
<1> QED
  BY <1>1, <1>2, <1>3, NextPromises, Invariance, PTL DEF Spec

-----------------------------------------------------------------------------
\* A key without a lifetime was made by a late decrement: it offers nothing.
LastingOffersNothing == \A k \in lasting : cached[k] < 0

LEMMA NextLasting ==
  TypeOK /\ LastingOffersNothing /\ [Next]_vars => LastingOffersNothing'
<1> SUFFICES ASSUME TypeOK, LastingOffersNothing, [Next]_vars
             PROVE  LastingOffersNothing'
  OBVIOUS
<1>1. UNCHANGED <<cached, lasting>> => LastingOffersNothing'
  BY DEF LastingOffersNothing
<1>2. ASSUME NEW k \in Key, UNCHANGED lasting, k \notin lasting,
             cached' = [cached EXCEPT ![k] = 0]
      PROVE  LastingOffersNothing'
  BY <1>2 DEF LastingOffersNothing, TypeOK
<1>3. ASSUME NEW k \in Key, NEW v \in Int, lasting' = lasting \ {k},
             cached' = [cached EXCEPT ![k] = v]
      PROVE  LastingOffersNothing'
  BY <1>3 DEF LastingOffersNothing, TypeOK
<1>4. ASSUME NEW p \in Process, SetProvide(p) \/ SetConsume(p)
      PROVE  LastingOffersNothing'
  BY <1>3, <1>4, CalculatedInt
     DEF SetProvide, SetConsume, TypeOK, Job, Key
<1>5. ASSUME NEW p \in Process, Take(p) PROVE LastingOffersNothing'
  <2> DEFINE k == job[p].key
  <2>1. /\ k \in Key /\ lasting \subseteq present
        /\ cached \in [Key -> Int]
        /\ lasting' = IF k \in present THEN lasting ELSE lasting \cup {k}
        /\ cached' = [cached EXCEPT ![k] = IF k \in present THEN @ - 1 ELSE -1]
    BY <1>5 DEF Take, TypeOK, Job
  <2> HIDE DEF k
  <2>2. ASSUME NEW x \in lasting' PROVE cached'[x] < 0
    <3>1. x \in lasting \/ (x = k /\ k \notin present)
      BY <2>1, <2>2
    <3>2. x \in Key
      BY <2>1, <3>1 DEF TypeOK
    <3> QED
      BY <2>1, <3>1, <3>2 DEF LastingOffersNothing
  <2> QED BY <2>2 DEF LastingOffersNothing
<1>6. ASSUME NEW k \in Key, Expire(k) PROVE LastingOffersNothing'
  BY <1>2, <1>6 DEF Expire
<1>7. ASSUME NEW p \in Process,
             GetCapacity(p) \/ Consume(p) \/ Die(p) \/ Hit(p) \/ Miss(p)
               \/ Enter(p) \/ Reread(p)
      PROVE  LastingOffersNothing'
  BY <1>1, <1>7 DEF GetCapacity, Consume, Die, Hit, Miss, Enter, Reread
<1>8. ASSUME NEW l \in Lock, Reap(l) \/ LoseLock(l)
      PROVE  LastingOffersNothing'
  BY <1>1, <1>8 DEF Reap, LoseLock
<1> QED
  BY <1>1, <1>4, <1>5, <1>6, <1>7, <1>8 DEF Next, Work, vars

LEMMA LastingInvariant == Spec => [](TypeOK /\ LastingOffersNothing)
<1>1. Init => LastingOffersNothing
  BY DEF Init, LastingOffersNothing
<1>2. IInv => TypeOK
  BY DEF IInv
<1> QED BY <1>1, <1>2, NextLasting, Invariance, PTL DEF Spec

\* What Stuck leaves a process to do: nobody is given a unit, and nobody sets
\* a key.
LEMMA StuckStep ==
  ASSUME TypeOK, LastingOffersNothing, Stuck, [Next]_vars
  PROVE  /\ Stuck'
         /\ \A p \in Process : job'[p].pc = "take" => job[p].pc = "take"
<1> DEFINE Calm(p) == /\ job'[p].pc \notin {"collect", "between"}
                      /\ job'[p].pc = "take" => job[p].pc = "take"
<1>1. /\ lasting = Key /\ present = Key
      /\ \A p \in Process : /\ job[p] \in Job /\ job[p].key \in Key
                            /\ job[p].pc \notin {"collect", "between"}
      /\ \A k \in Key : cached[k] \in Int /\ ~(cached[k] > 0)
  <2>1. \A p \in Process : job[p] \in Job /\ job[p].key \in Key
    BY DEF TypeOK, Job
  <2>2. \A k \in Key : cached[k] \in Int /\ cached[k] < 0
    BY DEF Stuck, LastingOffersNothing, TypeOK
  <2> QED BY <2>1, <2>2 DEF Stuck, TypeOK
<1>2. ASSUME NEW p \in Process, Calm(p),
             \A q \in Process : q # p => job'[q] = job[q]
      PROVE  \A q \in Process : Calm(q)
  BY <1>1, <1>2
<1>3. ASSUME lasting' = Key, \A q \in Process : Calm(q)
      PROVE  /\ Stuck'
             /\ \A p \in Process : job'[p].pc = "take" => job[p].pc = "take"
  BY <1>3 DEF Stuck
<1> HIDE DEF Calm
<1>4. ASSUME NEW p \in Process, NEW next,
             job' = [job EXCEPT ![p] = next],
             next.pc \notin {"collect", "between", "take"}, lasting' = Key
      PROVE  /\ Stuck'
             /\ \A q \in Process : job'[q].pc = "take" => job[q].pc = "take"
  <2>1. job'[p] = next /\ \A q \in Process : q # p => job'[q] = job[q]
    BY <1>4 DEF TypeOK
  <2>2. Calm(p)
    BY <1>4, <2>1 DEF Calm
  <2> QED BY <1>2, <1>3, <1>4, <2>1, <2>2
<1>5. ASSUME NEW p \in Process, GetCapacity(p) \/ Consume(p) \/ Die(p)
      PROVE  /\ Stuck'
             /\ \A q \in Process : job'[q].pc = "take" => job[q].pc = "take"
  BY <1>1, <1>4, <1>5 DEF GetCapacity, Consume, Die, NoJob
<1>6. ASSUME NEW p \in Process, Hit(p) \/ Reread(p)
      PROVE  /\ Stuck'
             /\ \A q \in Process : job'[q].pc = "take" => job[q].pc = "take"
  <2>1. job' = [job EXCEPT ![p] = NoJob] /\ lasting' = Key
    BY <1>1, <1>6 DEF Hit, Reread, Proceed
  <2> QED BY <1>4, <2>1 DEF NoJob
<1>7. ASSUME NEW p \in Process, Enter(p)
      PROVE  /\ Stuck'
             /\ \A q \in Process : job'[q].pc = "take" => job[q].pc = "take"
  <2>1. /\ job' = [job EXCEPT ![p] = [job[p] EXCEPT !.pc = "reread"]]
        /\ lasting' = Key
    BY <1>1, <1>7 DEF Enter, Goto
  <2> QED BY <1>1, <1>4, <2>1 DEF Job
<1>8. ASSUME NEW p \in Process, Take(p)
      PROVE  /\ Stuck'
             /\ \A q \in Process : job'[q].pc = "take" => job[q].pc = "take"
  <2>1. job' = [job EXCEPT ![p] = NoJob] /\ lasting' = Key
    BY <1>1, <1>8 DEF Take
  <2> QED BY <1>4, <2>1 DEF NoJob
<1>9. ASSUME NEW p \in Process PROVE ~Miss(p) /\ ~SetProvide(p) /\ ~SetConsume(p)
  BY <1>1 DEF Miss, SetProvide, SetConsume
<1>10. ASSUME NEW k \in Key PROVE ~Expire(k)
  BY <1>1 DEF Expire
<1>11. ASSUME UNCHANGED <<lasting, job>>
       PROVE  /\ Stuck'
              /\ \A q \in Process : job'[q].pc = "take" => job[q].pc = "take"
  BY <1>11 DEF Stuck
<1>12. ASSUME NEW l \in Lock, Reap(l) \/ LoseLock(l)
       PROVE  UNCHANGED <<lasting, job>>
  BY <1>12 DEF Reap, LoseLock
<1> QED
  BY <1>5, <1>6, <1>7, <1>8, <1>9, <1>10, <1>11, <1>12 DEF Next, Work, vars

\* Once both keys have lost their lifetime and nobody calculates, no operation
\* of any process gets the service out of it.
THEOREM StuckTheorem == Spec => StuckForGood
<1>1. TypeOK /\ LastingOffersNothing /\ [Next]_vars =>
        [Stuck => /\ Stuck'
                  /\ \A p \in Process :
                       job'[p].pc = "take" => job[p].pc = "take"]_vars
  BY StuckStep
<1> QED
  BY <1>1, LastingInvariant, PTL DEF Spec, StuckForGood

\* The violation of CapacityReturns is not an accident of fairness: no behaviour
\* that has once come to be stuck ever offers a unit again.
THEOREM RefusedForGoodTheorem == Spec /\ <>Stuck => ~CapacityReturns
<1>1. TypeOK /\ LastingOffersNothing /\ Stuck /\ [Next]_vars => Stuck'
  BY StuckStep
<1>2. TypeOK /\ LastingOffersNothing /\ Stuck =>
        ~("consume" \notin present \/ cached["consume"] > 0)
  BY DEF TypeOK, LastingOffersNothing, Stuck, Key
<1> QED
  BY <1>1, <1>2, LastingInvariant, PTL DEF Spec, CapacityReturns

\* Conversely only a key without a lifetime refuses for good: if the key
\* of consume expires as it should, which can happen whenever the guard of Expire
\* says so (the provers know nothing of ENABLED), a system that refuses for ever
\* does so behind such a key.
THEOREM RefusedByLastingTheorem ==
  /\ Spec /\ WF_vars(Expire("consume"))
  /\ []("consume" \in present \ lasting => ENABLED <<Expire("consume")>>_vars)
  => CapacityReturns \/ <>[]("consume" \in lasting)
<1> DEFINE Refuses == "consume" \in present /\ ~(cached["consume"] > 0)
           Lives == "consume" \notin lasting
<1>1. TypeOK /\ Refuses /\ Lives /\ [Next]_vars => (~Refuses \/ Lives)'
  <2> SUFFICES ASSUME TypeOK, Refuses, Lives, [Next]_vars PROVE Lives'
    OBVIOUS
  <2>1. ASSUME NEW p \in Process, Take(p) PROVE "consume" \notin lasting'
    BY <2>1 DEF Take
  <2>2. ASSUME NEW p \in Process, SetProvide(p) \/ SetConsume(p)
        PROVE  "consume" \notin lasting'
    BY <2>2 DEF SetProvide, SetConsume
  <2>3. ASSUME NEW p \in Process,
               GetCapacity(p) \/ Consume(p) \/ Die(p) \/ Hit(p) \/ Miss(p)
                 \/ Enter(p) \/ Reread(p)
        PROVE  UNCHANGED lasting
    BY <2>3 DEF GetCapacity, Consume, Die, Hit, Miss, Enter, Reread
  <2>4. ASSUME NEW k \in Key, Expire(k) PROVE UNCHANGED lasting
    BY <2>4 DEF Expire
  <2>5. ASSUME NEW l \in Lock, Reap(l) \/ LoseLock(l) PROVE UNCHANGED lasting
    BY <2>5 DEF Reap, LoseLock
  <2> QED
    BY <2>1, <2>2, <2>3, <2>4, <2>5 DEF Next, Work, vars
<1>2. /\ ~Lives <=> "consume" \in lasting
      /\ ~Refuses <=> "consume" \notin present \/ cached["consume"] > 0
  OBVIOUS
<1>3. Refuses /\ Lives => "consume" \in present \ lasting
  OBVIOUS
<1>4. TypeOK /\ <<Expire("consume")>>_vars => ~Refuses'
  BY DEF Expire
<1> HIDE DEF Refuses, Lives
<1> QED
  BY <1>1, <1>2, <1>3, <1>4, LastingInvariant, PTL DEF Spec, CapacityReturns
=============================================================================
