------------------------ MODULE KeyValueServiceProofs ------------------------
(***************************************************************************)
(* The lists of the key-value implementation are exact for any number of   *)
(* users, deliveries and executions, and the implementation answers what   *)
(* the registry promises.                                                  *)
(***************************************************************************)
EXTENDS KeyValueService, TLAPS

\* The lists by status that match the records st and the unlisted unl.
Lists(st, unl) ==
  [k \in User \X State |->
     {e \in Execution : UserOf[e] = k[1] /\ st[e] = k[2] /\ e \notin unl}]

\* An identifier is hidden by a deletion only after its execution was spawned.
BornFirst ==
  \A e \in Execution : e \in unlisted \cup unattempted => status[e] # UNBORN

IInv == TypeOK /\ IndexExact /\ AttemptsExact /\ BornFirst

\* No mark of a missing record is a state, and the states differ.
LEMMA StatesDiffer ==
  /\ UNBORN \notin State /\ GONE \notin State /\ GHOST \notin State
  /\ UNBORN # GONE /\ UNBORN # GHOST
  /\ ACTIVE \in State /\ PAUSED \in State
BY DEF State, ACTIVE, PAUSED, FINISHED, TERMINATED, UNBORN, GONE, GHOST

-----------------------------------------------------------------------------
\* IndexExact, said of the whole function of lists.
LEMMA ListsExact ==
  ASSUME TypeOK
  PROVE  IndexExact <=> statusList = Lists(status, unlisted)
<1>1. IndexExact => statusList = Lists(status, unlisted)
  <2> SUFFICES ASSUME IndexExact
               PROVE  statusList = Lists(status, unlisted)
    OBVIOUS
  <2>1. statusList = [k \in User \X State |-> statusList[k]]
    BY DEF TypeOK
  <2>2. \A k \in User \X State : statusList[k] = Lists(status, unlisted)[k]
    BY DEF IndexExact, Lists
  <2> QED BY <2>1, <2>2 DEF Lists
<1>2. statusList = Lists(status, unlisted) => IndexExact
  BY DEF IndexExact, Lists
<1> QED BY <1>1, <1>2

\* Reading a list whose every entry has its status changes no list.
LEMMA MendedSame ==
  ASSUME NEW list \in [User \X State -> SUBSET Execution], NEW st,
         NEW u \in User, NEW s \in State,
         \A e \in list[<<u, s>>] : st[e] = s
  PROVE  Mended(list, st, u, s) = list
<1>1. list = [k \in User \X State |-> list[k]]
  OBVIOUS
<1>2. ASSUME NEW k \in User \X State
      PROVE  (IF k = <<u, s>> THEN {e \in list[k] : st[e] = s}
              ELSE list[k] \cup {e \in list[<<u, s>>] : k = <<u, st[e]>>})
             = list[k]
  <2>1. CASE k = <<u, s>>
    BY <2>1
  <2>2. CASE k # <<u, s>>
    BY <2>2
  <2> QED BY <2>1, <2>2
<1> QED BY <1>1, <1>2 DEF Mended

\* Exact lists stay as they are when read.
LEMMA MendedExact ==
  ASSUME NEW st, NEW unl, NEW u \in User, NEW s \in State
  PROVE  Mended(Lists(st, unl), st, u, s) = Lists(st, unl)
<1>1. Lists(st, unl) \in [User \X State -> SUBSET Execution]
  BY DEF Lists
<1>2. \A e \in Lists(st, unl)[<<u, s>>] : st[e] = s
  BY DEF Lists
<1> QED BY <1>1, <1>2, MendedSame

\* Adding a new execution to exact lists gives exact lists.
LEMMA AddedExact ==
  ASSUME NEW st \in [Execution -> Stored \cup {GHOST}], NEW unl,
         NEW e \in Execution, NEW s \in State,
         st[e] = UNBORN, e \notin unl
  PROVE  Added(Lists(st, unl), [st EXCEPT ![e] = s], e, s)
           = Lists([st EXCEPT ![e] = s], unl)
<1> DEFINE new == [st EXCEPT ![e] = s]
           L == Lists(st, unl)
           u == UserOf[e]
<1>0. u \in User
  BY ConstantsAssumption
<1>1. L \in [User \X State -> SUBSET Execution]
  BY DEF Lists
<1>2. \A x \in L[<<u, s>>] : new[x] = s
  BY <1>0, StatesDiffer DEF Lists
<1>3. Mended(L, new, u, s) = L
  <2> HIDE DEF L, new, u
  <2> QED BY <1>0, <1>1, <1>2, MendedSame
<1>4. Added(L, new, e, s) = [L EXCEPT ![<<u, s>>] = @ \cup {e}]
  BY <1>3 DEF Added
<1>5. ASSUME NEW k \in User \X State
      PROVE  [L EXCEPT ![<<u, s>>] = @ \cup {e}][k] = Lists(new, unl)[k]
  <2>1. PICK v \in User, t \in State : k = <<v, t>>
    BY <1>5
  <2>2. L[k] = {x \in Execution : UserOf[x] = v /\ st[x] = t /\ x \notin unl}
    BY <2>1 DEF Lists
  <2>3. Lists(new, unl)[k] =
          {x \in Execution : UserOf[x] = v /\ new[x] = t /\ x \notin unl}
    BY <2>1 DEF Lists
  <2>4. \A x \in Execution : new[x] = IF x = e THEN s ELSE st[x]
    OBVIOUS
  <2>5. CASE k = <<u, s>>
    <3>1. [L EXCEPT ![<<u, s>>] = @ \cup {e}][k] = L[k] \cup {e}
      BY <1>1, <2>5
    <3>2. v = u /\ t = s
      BY <2>1, <2>5
    <3>3. \A x \in Execution :
            (UserOf[x] = v /\ new[x] = t /\ x \notin unl)
              <=> (UserOf[x] = v /\ st[x] = t /\ x \notin unl) \/ x = e
      BY <2>4, <3>2
    <3>4. {x \in Execution : UserOf[x] = v /\ new[x] = t /\ x \notin unl}
          = {x \in Execution : UserOf[x] = v /\ st[x] = t /\ x \notin unl}
              \cup {e}
      <4> HIDE DEF new, u
      <4> QED BY <3>3
    <3> QED BY <2>2, <2>3, <3>1, <3>4
  <2>6. CASE k # <<u, s>>
    <3>1. [L EXCEPT ![<<u, s>>] = @ \cup {e}][k] = L[k]
      BY <1>1, <2>6
    <3>2. v # u \/ t # s
      BY <2>1, <2>6
    <3>3. \A x \in Execution :
            (UserOf[x] = v /\ st[x] = t) <=> (UserOf[x] = v /\ new[x] = t)
      BY <2>4, <3>2, StatesDiffer
    <3> QED BY <2>2, <2>3, <3>1, <3>3
  <2> QED BY <2>5, <2>6
<1>6. Lists(new, unl) = [k \in User \X State |-> Lists(new, unl)[k]]
  BY DEF Lists
<1>7. [L EXCEPT ![<<u, s>>] = @ \cup {e}] =
        [k \in User \X State |-> [L EXCEPT ![<<u, s>>] = @ \cup {e}][k]]
  BY <1>1
<1>8. [L EXCEPT ![<<u, s>>] = @ \cup {e}] = Lists(new, unl)
  BY <1>5, <1>6, <1>7
<1> QED BY <1>4, <1>8

\* Dropping the entry from the old list and adding it to the new one leaves
\* exact lists, in which the execution is visible again.
LEMMA MovedExact ==
  ASSUME NEW st \in [Execution -> Stored \cup {GHOST}], NEW unl,
         NEW e \in Execution, NEW s \in State,
         st[e] \in State, st[e] # s
  PROVE  Added(Dropped(Lists(st, unl), [st EXCEPT ![e] = s], e, st[e]),
               [st EXCEPT ![e] = s], e, s)
           = Lists([st EXCEPT ![e] = s], unl \ {e})
<1> DEFINE new == [st EXCEPT ![e] = s]
           L == Lists(st, unl)
           u == UserOf[e]
           D == Dropped(L, new, e, st[e])
<1>0. u \in User /\ new[e] = s
  BY ConstantsAssumption
<1>1. L \in [User \X State -> SUBSET Execution]
  BY DEF Lists
<1>2. \A k \in User \X State :
        L[k] = {x \in Execution : UserOf[x] = k[1] /\ st[x] = k[2] /\ x \notin unl}
  BY DEF Lists
<1>3. \A x \in Execution : x # e => new[x] = st[x]
  OBVIOUS
\* The entry leaves its old list; fixStatus may already have moved it.
<1>4. /\ D \in [User \X State -> SUBSET Execution]
      /\ \A k \in User \X State :
           /\ k # <<u, s>> => D[k] = L[k] \ {e}
           /\ k = <<u, s>> => D[k] \cup {e} = L[k] \cup {e}
  <2> DEFINE M == Mended(L, new, u, st[e])
             old == <<u, st[e]>>
  <2>1. \A k \in User \X State :
          M[k] = IF k = old THEN {x \in L[k] : new[x] = st[e]}
                 ELSE L[k] \cup {x \in L[old] : k = <<u, new[x]>>}
    BY DEF Mended
  <2>2. M \in [User \X State -> SUBSET Execution]
    <3>1. old \in User \X State
      BY <1>0
    <3> QED BY <1>1, <3>1 DEF Mended
  <2>3. D = [M EXCEPT ![old] = @ \ {e}]
    BY DEF Dropped
  <2>4. old \in User \X State /\ old # <<u, s>>
    BY <1>0
  <2>5. \A x \in L[old] : x \in Execution /\ st[x] = st[e]
    BY <1>2, <2>4
  <2>6. M[old] = L[old] \ {e}
    <3>1. \A x \in L[old] : new[x] = st[e] <=> x # e
      BY <1>0, <1>3, <2>5
    <3> HIDE DEF M, L, new, old
    <3> QED BY <2>1, <2>4, <3>1
  <2>7. ASSUME NEW k \in User \X State, k # old
        PROVE  \A x \in L[old] : k = <<u, new[x]>> => x = e /\ k = <<u, s>>
    <3>1. SUFFICES ASSUME NEW x \in L[old], k = <<u, new[x]>>
                   PROVE  x = e /\ k = <<u, s>>
      OBVIOUS
    <3>2. CASE x = e
      BY <1>0, <3>1, <3>2
    <3>3. CASE x # e
      <4>1. new[x] = st[e]
        BY <1>3, <2>5, <3>1, <3>3
      <4> QED BY <2>7, <3>1, <4>1
    <3> QED BY <3>2, <3>3
  <2>8. \A k \in User \X State : k # old /\ k # <<u, s>> => M[k] = L[k]
    <3> HIDE DEF M, L, new, old, u
    <3> QED BY <2>1, <2>7
  <2>9. M[<<u, s>>] \cup {e} = L[<<u, s>>] \cup {e}
    <3>1. <<u, s>> \in User \X State
      BY <1>0
    <3>2. M[<<u, s>>] =
            L[<<u, s>>] \cup {x \in L[old] : <<u, s>> = <<u, new[x]>>}
      <4> HIDE DEF M, L, new, old, u
      <4> QED BY <2>1, <2>4, <3>1
    <3>3. \A x \in L[old] : <<u, s>> = <<u, new[x]>> => x = e
      <4> HIDE DEF M, L, new, old, u
      <4> QED BY <2>4, <2>7, <3>1
    <3> HIDE DEF M, L, new, old, u
    <3> QED BY <3>2, <3>3
  <2>10. \A k \in User \X State : k # old /\ k # <<u, s>> => e \notin L[k]
    <3> HIDE DEF L, new, old
    <3>1. SUFFICES ASSUME NEW k \in User \X State, e \in L[k]
                   PROVE  k = <<u, st[e]>>
      BY DEF old
    <3>2. UserOf[e] = k[1] /\ st[e] = k[2]
      BY <1>2, <3>1
    <3> QED BY <3>2
  <2>11. D \in [User \X State -> SUBSET Execution]
    <3> HIDE DEF M, L, D, old
    <3> QED BY <2>2, <2>3
  <2>12. \A k \in User \X State : k # old => D[k] = M[k]
    <3> HIDE DEF M, L, D, old
    <3> QED BY <2>2, <2>3
  <2>13. D[old] = L[old] \ {e}
    <3> HIDE DEF M, L, D, old
    <3> QED BY <2>2, <2>3, <2>4, <2>6
  <2> HIDE DEF M, L, D, old, u
  <2> QED BY <2>4, <2>8, <2>9, <2>10, <2>11, <2>12, <2>13
\* The list of the new status holds only entries of that status.
<1>5. Mended(D, new, u, s) = D
  <2>1. \A x \in D[<<u, s>>] : new[x] = s
    <3>1. SUFFICES ASSUME NEW x \in D[<<u, s>>] PROVE new[x] = s
      OBVIOUS
    <3>2. <<u, s>> \in User \X State
      BY <1>0
    <3>3. x = e \/ x \in L[<<u, s>>]
      <4> HIDE DEF D, L, new, u
      <4> QED BY <1>4, <3>1, <3>2
    <3>4. CASE x = e
      BY <1>0, <3>4
    <3>5. CASE x # e
      <4>1. x \in L[<<u, s>>]
        BY <3>3, <3>5
      <4>2. x \in Execution /\ st[x] = s
        BY <1>2, <3>2, <4>1
      <4> QED BY <1>3, <3>5, <4>2
    <3> QED BY <3>4, <3>5
  <2>2. D \in [User \X State -> SUBSET Execution]
    BY <1>4
  <2>3. u \in User
    BY <1>0
  <2> HIDE DEF D, L, new, u
  <2> QED BY <2>1, <2>2, <2>3, MendedSame, ZenonT(60)
<1>6. Added(D, new, e, s) = [D EXCEPT ![<<u, s>>] = @ \cup {e}]
  BY <1>5 DEF Added
<1>7. ASSUME NEW k \in User \X State
      PROVE  [D EXCEPT ![<<u, s>>] = @ \cup {e}][k] = Lists(new, unl \ {e})[k]
  <2>1. Lists(new, unl \ {e})[k] =
          {x \in Execution : /\ UserOf[x] = k[1] /\ new[x] = k[2]
                             /\ x \notin unl \ {e}}
    BY DEF Lists
  <2>2. CASE k = <<u, s>>
    <3>1. [D EXCEPT ![<<u, s>>] = @ \cup {e}][k] = L[k] \cup {e}
      <4>1. [D EXCEPT ![<<u, s>>] = @ \cup {e}][k] = D[k] \cup {e}
        <5> HIDE DEF D, u
        <5> QED BY <1>4, <2>2
      <4> HIDE DEF D, u, L
      <4> QED BY <1>4, <2>2, <4>1
    <3>2. k[1] = UserOf[e] /\ k[2] = new[e]
      BY <1>0, <2>2
    <3>3. \A x \in Execution :
            (UserOf[x] = k[1] /\ new[x] = k[2] /\ x \notin unl \ {e})
              <=> (UserOf[x] = k[1] /\ st[x] = k[2] /\ x \notin unl) \/ x = e
      <4> HIDE DEF D, u, L, new
      <4>1. SUFFICES ASSUME NEW x \in Execution
                     PROVE (UserOf[x] = k[1] /\ new[x] = k[2] /\ x \notin unl \ {e})
              <=> (UserOf[x] = k[1] /\ st[x] = k[2] /\ x \notin unl) \/ x = e
        OBVIOUS
      <4>2. CASE x = e
        BY <3>2, <4>2
      <4>3. CASE x # e
        BY <1>3, <4>3
      <4> QED BY <4>2, <4>3
    <3>4. L[k] = {x \in Execution : UserOf[x] = k[1] /\ st[x] = k[2] /\ x \notin unl}
      BY <1>2
    <3>5. {x \in Execution : /\ UserOf[x] = k[1] /\ new[x] = k[2]
                             /\ x \notin unl \ {e}}
          = {x \in Execution : UserOf[x] = k[1] /\ st[x] = k[2] /\ x \notin unl}
              \cup {e}
      <4> HIDE DEF D, u, L, new
      <4> QED BY <3>3
    <3> HIDE DEF D, u, L, new
    <3> QED BY <2>1, <3>1, <3>4, <3>5, Zenon
  <2>3. CASE k # <<u, s>>
    <3>1. [D EXCEPT ![<<u, s>>] = @ \cup {e}][k] = L[k] \ {e}
      <4>1. [D EXCEPT ![<<u, s>>] = @ \cup {e}][k] = D[k]
        <5> HIDE DEF D, u
        <5> QED BY <1>4, <2>3
      <4> HIDE DEF D, u, L
      <4> QED BY <1>4, <2>3, <4>1
    <3>2. ~(k[1] = UserOf[e] /\ k[2] = new[e])
      BY <1>0, <1>7, <2>3
    <3>3. \A x \in Execution :
            (UserOf[x] = k[1] /\ new[x] = k[2] /\ x \notin unl \ {e})
              <=> (UserOf[x] = k[1] /\ st[x] = k[2] /\ x \notin unl) /\ x # e
      <4> HIDE DEF D, u, L, new
      <4>1. SUFFICES ASSUME NEW x \in Execution
                     PROVE (UserOf[x] = k[1] /\ new[x] = k[2] /\ x \notin unl \ {e})
              <=> (UserOf[x] = k[1] /\ st[x] = k[2] /\ x \notin unl) /\ x # e
        OBVIOUS
      <4>2. CASE x = e
        BY <3>2, <4>2
      <4>3. CASE x # e
        BY <1>3, <4>3
      <4> QED BY <4>2, <4>3
    <3>4. L[k] = {x \in Execution : UserOf[x] = k[1] /\ st[x] = k[2] /\ x \notin unl}
      BY <1>2
    <3>5. {x \in Execution : /\ UserOf[x] = k[1] /\ new[x] = k[2]
                             /\ x \notin unl \ {e}}
          = {x \in Execution : UserOf[x] = k[1] /\ st[x] = k[2] /\ x \notin unl}
              \ {e}
      <4> HIDE DEF D, u, L, new
      <4> QED BY <3>3
    <3> HIDE DEF D, u, L, new
    <3> QED BY <2>1, <3>1, <3>4, <3>5, Zenon
  <2> QED BY <2>2, <2>3
<1>8. Lists(new, unl \ {e}) =
        [k \in User \X State |-> Lists(new, unl \ {e})[k]]
  BY DEF Lists
<1>9. [D EXCEPT ![<<u, s>>] = @ \cup {e}] =
        [k \in User \X State |-> [D EXCEPT ![<<u, s>>] = @ \cup {e}][k]]
  <2> HIDE DEF D, u
  <2> QED BY <1>4
<1>10. [D EXCEPT ![<<u, s>>] = @ \cup {e}] = Lists(new, unl \ {e})
  <2> HIDE DEF D, u, new
  <2> QED BY <1>7, <1>8, <1>9
<1> QED BY <1>6, <1>10

-----------------------------------------------------------------------------
\* AttemptsExact, said of the whole function of lists.
AttemptLists(st, un) ==
  [k \in User \X Delivery |->
     {e \in Execution : /\ UserOf[e] = k[1] /\ DeliveryOf[e] = k[2]
                        /\ st[e] \in State /\ e \notin un}]

LEMMA AttemptListsExact ==
  ASSUME TypeOK
  PROVE  AttemptsExact <=> userList = AttemptLists(status, unattempted)
<1>1. AttemptsExact => userList = AttemptLists(status, unattempted)
  <2> SUFFICES ASSUME AttemptsExact
               PROVE  userList = AttemptLists(status, unattempted)
    OBVIOUS
  <2>1. userList = [k \in User \X Delivery |-> userList[k]]
    BY DEF TypeOK
  <2>2. \A k \in User \X Delivery :
          userList[k] = AttemptLists(status, unattempted)[k]
    BY DEF AttemptsExact, AttemptLists, Alive
  <2> QED BY <2>1, <2>2 DEF AttemptLists
<1>2. userList = AttemptLists(status, unattempted) => AttemptsExact
  BY DEF AttemptsExact, AttemptLists, Alive
<1> QED BY <1>1, <1>2

LEMMA InitInv == Init => IInv
<1> SUFFICES ASSUME Init PROVE IInv
  OBVIOUS
<1>1. TypeOK
  BY DEF Init, TypeOK, Stored
<1>2. IndexExact
  BY StatesDiffer DEF Init, IndexExact
<1>3. AttemptsExact
  BY StatesDiffer DEF Init, AttemptsExact, Alive
<1>4. BornFirst
  BY DEF Init, BornFirst
<1> QED BY <1>1, <1>2, <1>3, <1>4 DEF IInv

\* What spawning does to the lists by status.
LEMMA SpawnStep ==
  ASSUME IInv, NEW e \in Execution, NEW s \in State, Spawn(e, s)
  PROVE  IInv'
<1> USE DEF IInv
<1>1. status \in [Execution -> Stored \cup {GHOST}] /\ status[e] = UNBORN
  BY DEF Spawn, TypeOK
<1>2. e \notin unlisted /\ e \notin unattempted
  BY <1>1 DEF BornFirst
<1>3. status' = [status EXCEPT ![e] = s] /\ s \in Stored
  BY DEF Spawn, Stored
<1>4. statusList = Lists(status, unlisted)
  BY ListsExact
<1>5. statusList' = Lists(status', unlisted')
  <2>1. statusList' = Added(Lists(status, unlisted), status', e, s)
    BY <1>4 DEF Spawn
  <2>2. unlisted' = unlisted
    BY DEF Spawn
  <2> QED BY <1>1, <1>2, <1>3, <2>1, <2>2, AddedExact
<1>6. UserOf[e] \in User /\ DeliveryOf[e] \in Delivery
  BY ConstantsAssumption
<1>7. userList' = [userList EXCEPT ![<<UserOf[e], DeliveryOf[e]>>] = @ \cup {e}]
  BY DEF Spawn
<1>8. TypeOK'
  <2>1. status' \in [Execution -> Stored \cup {GHOST}]
    BY <1>1, <1>3
  <2>2. statusList' \in [User \X State -> SUBSET Execution]
    BY <1>5 DEF Lists
  <2>3. userList' \in [User \X Delivery -> SUBSET Execution]
    BY <1>7 DEF TypeOK
  <2> QED BY <2>1, <2>2, <2>3 DEF TypeOK, Spawn
<1>9. IndexExact'
  <2>1. \A u \in User, t \in State :
          statusList'[<<u, t>>] =
            {x \in Execution : UserOf[x] = u /\ status'[x] = t /\ x \notin unlisted'}
    BY <1>5 DEF Lists
  <2> QED BY <2>1 DEF IndexExact
<1>10. AttemptsExact'
  <2>1. \A x \in Execution :
          status'[x] \in State <=> status[x] \in State \/ x = e
    BY <1>1, <1>3
  <2>2. SUFFICES ASSUME NEW u \in User, NEW d \in Delivery
                 PROVE  userList'[<<u, d>>] =
                   {x \in Execution : /\ UserOf[x] = u /\ DeliveryOf[x] = d
                                      /\ Alive(x)' /\ x \notin unattempted}
    BY DEF AttemptsExact, Spawn
  <2>3. userList[<<u, d>>] =
          {x \in Execution : /\ UserOf[x] = u /\ DeliveryOf[x] = d
                             /\ status[x] \in State /\ x \notin unattempted}
    BY DEF AttemptsExact, Alive
  <2>4. CASE u = UserOf[e] /\ d = DeliveryOf[e]
    <3>1. userList'[<<u, d>>] = userList[<<u, d>>] \cup {e}
      BY <1>7, <2>4 DEF TypeOK
    <3> QED BY <1>2, <2>1, <2>3, <2>4, <3>1 DEF Alive
  <2>5. CASE ~(u = UserOf[e] /\ d = DeliveryOf[e])
    <3>1. userList'[<<u, d>>] = userList[<<u, d>>]
      BY <1>6, <1>7, <2>5 DEF TypeOK
    <3> QED BY <2>1, <2>3, <2>5, <3>1 DEF Alive
  <2> QED BY <2>4, <2>5
<1>11. BornFirst'
  BY <1>1, <1>3, StatesDiffer DEF BornFirst, Spawn
<1> QED BY <1>8, <1>9, <1>10, <1>11

LEMMA SetStateStep ==
  ASSUME IInv, NEW e \in Execution, NEW s \in State, SetState(e, s)
  PROVE  IInv'
<1> USE DEF IInv
<1>1. /\ status \in [Execution -> Stored \cup {GHOST}]
      /\ status[e] \in State /\ status[e] # s
  BY DEF SetState, TypeOK, Alive
<1>2. status' = [status EXCEPT ![e] = s] /\ s \in Stored
  BY DEF SetState, Stored
<1>3. statusList = Lists(status, unlisted)
  BY ListsExact
<1>4. statusList' = Lists(status', unlisted')
  <2>1. statusList' =
          Added(Dropped(Lists(status, unlisted), status', e, status[e]),
                status', e, s)
    BY <1>3 DEF SetState
  <2>2. unlisted' = unlisted \ {e}
    BY DEF SetState
  <2>3. Added(Dropped(Lists(status, unlisted), [status EXCEPT ![e] = s], e,
                      status[e]), [status EXCEPT ![e] = s], e, s)
          = Lists([status EXCEPT ![e] = s], unlisted \ {e})
    BY <1>1, MovedExact, ZenonT(60)
  <2> QED BY <1>2, <2>1, <2>2, <2>3
<1>5. TypeOK'
  <2>1. status' \in [Execution -> Stored \cup {GHOST}]
    BY <1>1, <1>2
  <2>2. statusList' \in [User \X State -> SUBSET Execution]
    BY <1>4 DEF Lists
  <2> QED BY <2>1, <2>2 DEF TypeOK, SetState
<1>6. IndexExact'
  <2>1. \A u \in User, t \in State :
          statusList'[<<u, t>>] =
            {x \in Execution : UserOf[x] = u /\ status'[x] = t /\ x \notin unlisted'}
    BY <1>4 DEF Lists
  <2> QED BY <2>1 DEF IndexExact
<1>7. \A x \in Execution : status'[x] \in State <=> status[x] \in State
  BY <1>1, <1>2
<1>8. AttemptsExact'
  BY <1>7 DEF AttemptsExact, Alive, SetState
<1>9. BornFirst'
  BY <1>1, <1>2, StatesDiffer DEF BornFirst, SetState
<1> QED BY <1>5, <1>6, <1>8, <1>9

LEMMA AddMetadataStep ==
  ASSUME IInv, NEW e \in Execution, AddMetadata(e)
  PROVE  IInv'
<1> USE DEF IInv
<1>1. /\ status \in [Execution -> Stored \cup {GHOST}]
      /\ status[e] = GONE /\ status' = [status EXCEPT ![e] = GHOST]
  BY DEF AddMetadata, TypeOK
<1>2. \A x \in Execution, t \in State : status'[x] = t <=> status[x] = t
  BY <1>1, StatesDiffer
<1>3. TypeOK'
  BY <1>1 DEF AddMetadata, TypeOK
<1>4. IndexExact'
  BY <1>2 DEF IndexExact, AddMetadata
<1>5. \A x \in Execution : status'[x] \in State <=> status[x] \in State
  BY <1>2
<1>6. AttemptsExact'
  BY <1>5 DEF AttemptsExact, Alive, AddMetadata
<1>7. BornFirst'
  BY <1>1, StatesDiffer DEF BornFirst, AddMetadata
<1> QED BY <1>3, <1>4, <1>6, <1>7

LEMMA DeleteStep ==
  ASSUME IInv, NEW e \in Execution, Delete(e)
  PROVE  IInv'
<1> USE DEF IInv
<1> DEFINE u == UserOf[e]
           d == DeliveryOf[e]
<1>1. /\ status \in [Execution -> Stored \cup {GHOST}]
      /\ status[e] \in State /\ status' = [status EXCEPT ![e] = GONE]
  BY DEF Delete, TypeOK, Alive
<1>2. u \in User /\ d \in Delivery
  BY ConstantsAssumption
<1>3. /\ statusList' = [k \in User \X State |->
                          IF k[1] = u THEN {} ELSE statusList[k]]
      /\ userList' = [userList EXCEPT ![<<u, d>>] = {}]
  BY DEF Delete
<1>4. \A x \in Execution :
        /\ x \in unlisted' <=>
             x \in unlisted \/ (UserOf[x] = u /\ status[x] \in State)
        /\ x \in unattempted' <=>
             \/ x \in unattempted
             \/ UserOf[x] = u /\ status[x] \in State /\ DeliveryOf[x] = d
  BY DEF Delete, Alive
<1>5. \A x \in Execution :
        status'[x] \in State <=> status[x] \in State /\ x # e
  BY <1>1, StatesDiffer
<1>6. \A x \in Execution : x # e => status'[x] = status[x]
  BY <1>1
<1>7. TypeOK'
  <2>1. status' \in [Execution -> Stored \cup {GHOST}]
    BY <1>1 DEF Stored
  <2>2. statusList' \in [User \X State -> SUBSET Execution]
    BY <1>3 DEF TypeOK
  <2>3. userList' \in [User \X Delivery -> SUBSET Execution]
    BY <1>3 DEF TypeOK
  <2>4. unlisted' \subseteq Execution /\ unattempted' \subseteq Execution
    BY DEF Delete, TypeOK
  <2>5. deliveries' = deliveries
    BY DEF Delete
  <2> QED BY <2>1, <2>2, <2>3, <2>4, <2>5 DEF TypeOK
<1>8. IndexExact'
  <2>1. SUFFICES ASSUME NEW v \in User, NEW t \in State
                 PROVE  statusList'[<<v, t>>] =
                   {x \in Execution : /\ UserOf[x] = v /\ status'[x] = t
                                      /\ x \notin unlisted'}
    BY DEF IndexExact
  <2>2. statusList[<<v, t>>] =
          {x \in Execution : UserOf[x] = v /\ status[x] = t /\ x \notin unlisted}
    BY DEF IndexExact
  <2>3. CASE v = u
    <3>1. statusList'[<<v, t>>] = {}
      BY <1>3, <2>3
    <3>2. \A x \in Execution :
            ~(UserOf[x] = v /\ status'[x] = t /\ x \notin unlisted')
      BY <1>4, <1>5, <1>6, <2>3
    <3> QED BY <3>1, <3>2
  <2>4. CASE v # u
    <3>1. statusList'[<<v, t>>] = statusList[<<v, t>>]
      BY <1>3, <2>4
    <3>2. \A x \in Execution : UserOf[x] = v =>
            /\ status'[x] = status[x]
            /\ x \in unlisted' <=> x \in unlisted
      BY <1>4, <1>6, <2>4
    <3> QED BY <2>2, <3>1, <3>2
  <2> QED BY <2>3, <2>4
<1>9. AttemptsExact'
  <2>1. SUFFICES ASSUME NEW v \in User, NEW c \in Delivery
                 PROVE  userList'[<<v, c>>] =
                   {x \in Execution : /\ UserOf[x] = v /\ DeliveryOf[x] = c
                                      /\ status'[x] \in State
                                      /\ x \notin unattempted'}
    BY DEF AttemptsExact, Alive
  <2>2. userList[<<v, c>>] =
          {x \in Execution : /\ UserOf[x] = v /\ DeliveryOf[x] = c
                             /\ status[x] \in State /\ x \notin unattempted}
    BY DEF AttemptsExact, Alive
  <2>3. CASE v = u /\ c = d
    <3>1. userList'[<<v, c>>] = {}
      BY <1>2, <1>3, <2>3 DEF TypeOK
    <3>2. \A x \in Execution :
            ~(/\ UserOf[x] = v /\ DeliveryOf[x] = c
              /\ status'[x] \in State /\ x \notin unattempted')
      BY <1>4, <1>5, <2>3
    <3> QED BY <3>1, <3>2
  <2>4. CASE ~(v = u /\ c = d)
    <3>1. userList'[<<v, c>>] = userList[<<v, c>>]
      BY <1>2, <1>3, <2>4 DEF TypeOK
    <3>2. \A x \in Execution : UserOf[x] = v /\ DeliveryOf[x] = c =>
            /\ status'[x] \in State <=> status[x] \in State
            /\ x \in unattempted' <=> x \in unattempted
      BY <1>4, <1>5, <2>4
    <3> QED BY <2>2, <3>1, <3>2
  <2> QED BY <2>3, <2>4
<1>10. BornFirst'
  <2>1. \A x \in Execution : status'[x] = UNBORN => status[x] = UNBORN
    BY <1>1, StatesDiffer
  <2> QED BY <1>4, <2>1, StatesDiffer DEF BornFirst
<1> QED BY <1>7, <1>8, <1>9, <1>10

\* A query changes no list and no record.
LEMMA QueryMends ==
  ASSUME IInv, NEW u \in User, NEW s \in State
  PROVE  Mended(statusList, status, u, s) = statusList
<1>1. statusList = Lists(status, unlisted)
  BY ListsExact DEF IInv
<1> QED BY <1>1, MendedExact

LEMMA ByStatusSame ==
  ASSUME IInv, NEW u \in User, NEW s \in State, ByStatus(u, s)
  PROVE  /\ UNCHANGED <<status, statusList, userList, unlisted, unattempted,
                        deliveries>>
         /\ Answer("status", u, s, {e \in statusList[<<u, s>>] : status[e] = s})
BY QueryMends DEF ByStatus

LEMMA ResumableSame ==
  ASSUME IInv, NEW u \in User, Resumable(u)
  PROVE  /\ UNCHANGED <<status, statusList, userList, unlisted, unattempted,
                        deliveries>>
         /\ Answer("resumable", u, u,
                   {e \in statusList[<<u, ACTIVE>>]
                            \cup statusList[<<u, PAUSED>>] :
                      DeliveryOf[e] \in deliveries})
BY QueryMends, StatesDiffer DEF Resumable

LEMMA SameInv ==
  ASSUME IInv, deliveries' \in SUBSET Delivery,
         UNCHANGED <<status, statusList, userList, unlisted, unattempted>>
  PROVE  IInv'
BY DEF IInv, TypeOK, IndexExact, AttemptsExact, BornFirst, Alive

LEMMA NextInv == IInv /\ [Next]_vars => IInv'
<1> SUFFICES ASSUME IInv, [Next]_vars PROVE IInv'
  OBVIOUS
<1>0. deliveries \in SUBSET Delivery
  BY DEF IInv, TypeOK
<1>1. ASSUME NEW e \in Execution, NEW s \in State, Spawn(e, s) PROVE IInv'
  BY <1>1, SpawnStep
<1>2. ASSUME NEW e \in Execution, NEW s \in State, SetState(e, s) PROVE IInv'
  BY <1>2, SetStateStep
<1>3. ASSUME NEW e \in Execution, AddMetadata(e) PROVE IInv'
  BY <1>3, AddMetadataStep
<1>4. ASSUME NEW e \in Execution, Delete(e) PROVE IInv'
  BY <1>4, DeleteStep
<1>5. ASSUME NEW u \in User, NEW s \in State, ByStatus(u, s) PROVE IInv'
  BY <1>0, <1>5, ByStatusSame, SameInv
<1>6. ASSUME NEW u \in User, Resumable(u) PROVE IInv'
  BY <1>0, <1>6, ResumableSame, SameInv
<1>7. ASSUME NEW u \in User, NEW d \in Delivery, UserExecutions(u, d)
      PROVE  IInv'
  BY <1>0, <1>7, SameInv DEF UserExecutions
<1>8. ASSUME NEW u \in User, NEW d \in Delivery, Attempts(u, d) PROVE IInv'
  BY <1>0, <1>8, SameInv DEF Attempts
<1>9. CASE UNCHANGED vars
  BY <1>0, <1>9, SameInv DEF vars
<1>10. ASSUME NEW d \in Delivery, DeleteDelivery(d) PROVE IInv'
  BY <1>0, <1>10, SameInv DEF DeleteDelivery
<1> QED BY <1>1, <1>2, <1>3, <1>4, <1>5, <1>6, <1>7, <1>8, <1>9, <1>10 DEF Next

\* The lists always match the records.
THEOREM InvTheorem == Spec => []IInv
BY InitInv, NextInv, PTL DEF Spec

\* The records, lists and marks keep their types.
THEOREM TypeCorrect == Spec => []TypeOK
<1>1. IInv => TypeOK
  BY DEF IInv
<1> QED BY <1>1, InvTheorem, PTL

\* Each list by status holds the visible executions in that status and no
\* other, for any users, deliveries and executions.
THEOREM IndexTheorem == Spec => []IndexExact
<1>1. IInv => IndexExact
  BY DEF IInv
<1> QED BY <1>1, InvTheorem, PTL

\* Each list by delivery holds the executions no deletion took off.
THEOREM AttemptsTheorem == Spec => []AttemptsExact
<1>1. IInv => AttemptsExact
  BY DEF IInv
<1> QED BY <1>1, InvTheorem, PTL

-----------------------------------------------------------------------------
\* The refinement: with exact lists every answer read off them is the answer
\* the registry gives from the records, and every change is the registry's.
\* The registry gives the same names to states and marks.
LEMMA SameNames ==
  /\ Registry!State = State /\ Registry!ResumableStates = ResumableStates
  /\ Registry!ACTIVE = ACTIVE /\ Registry!PAUSED = PAUSED
  /\ Registry!UNBORN = UNBORN /\ Registry!GONE = GONE /\ Registry!GHOST = GHOST
  /\ Registry!NoAnswer = NoAnswer
BY DEF State, ResumableStates, ACTIVE, PAUSED, FINISHED, TERMINATED, UNBORN,
       GONE, GHOST, NoAnswer, Registry!State, Registry!ResumableStates,
       Registry!ACTIVE, Registry!PAUSED, Registry!FINISHED,
       Registry!TERMINATED, Registry!UNBORN, Registry!GONE, Registry!GHOST,
       Registry!NoAnswer

LEMMA InitImplements == Init => Registry!Init
BY SameNames DEF Init, Registry!Init

LEMMA AnswerImplements ==
  ASSUME NEW q, NEW u, NEW x, NEW found, Answer(q, u, x, found),
         UNCHANGED <<status, unlisted, unattempted, deliveries>>
  PROVE  Registry!Answer(q, u, x, found)
BY DEF Answer, Registry!Answer

LEMMA DeleteImplements ==
  ASSUME NEW e \in Execution, Delete(e)
  PROVE  Registry!Delete(e)
<1>1. {x \in Execution : UserOf[x] = UserOf[e] /\ Alive(x)}
        = {x \in Execution : UserOf[x] = UserOf[e] /\ Registry!Alive(x)}
  BY SameNames DEF Alive, Registry!Alive
<1>2. {x \in {y \in Execution : UserOf[y] = UserOf[e] /\ Alive(y)} :
         DeliveryOf[x] = DeliveryOf[e]}
        = {x \in Execution : /\ UserOf[x] = UserOf[e] /\ Registry!Alive(x)
                             /\ DeliveryOf[x] = DeliveryOf[e]}
  BY SameNames DEF Alive, Registry!Alive
<1> QED BY <1>1, <1>2, SameNames
      DEF Delete, Registry!Delete, Alive, Registry!Alive

LEMMA NextImplements == IInv /\ [Next]_vars => [Registry!Next]_(Registry!vars)
<1> SUFFICES ASSUME IInv, [Next]_vars
             PROVE  [Registry!Next]_(Registry!vars)
  OBVIOUS
<1>1. ASSUME NEW e \in Execution, NEW s \in State, Spawn(e, s)
      PROVE  Registry!Next
  <2>1. Registry!Spawn(e, s)
    BY <1>1, SameNames DEF Spawn, Registry!Spawn
  <2> QED BY <2>1, SameNames DEF Registry!Next
<1>2. ASSUME NEW e \in Execution, NEW s \in State, SetState(e, s)
      PROVE  Registry!Next
  <2>1. Registry!SetState(e, s)
    BY <1>2, SameNames DEF SetState, Registry!SetState, Alive, Registry!Alive
  <2> QED BY <2>1, SameNames DEF Registry!Next
<1>3. ASSUME NEW e \in Execution, AddMetadata(e) PROVE Registry!Next
  <2>1. Registry!AddMetadata(e)
    BY <1>3, SameNames DEF AddMetadata, Registry!AddMetadata
  <2> QED BY <2>1, SameNames DEF Registry!Next
<1>4. ASSUME NEW e \in Execution, Delete(e) PROVE Registry!Next
  <2>1. Registry!Delete(e)
    BY <1>4, DeleteImplements
  <2> QED BY <2>1, SameNames DEF Registry!Next
<1>5. ASSUME NEW u \in User, NEW s \in State, ByStatus(u, s)
      PROVE  Registry!Next
  <2>1. {e \in statusList[<<u, s>>] : status[e] = s} = Registry!Listed(u, s)
    BY SameNames DEF IInv, IndexExact, Registry!Listed
  <2>2. Registry!ByStatus(u, s)
    BY <1>5, <2>1, ByStatusSame, AnswerImplements DEF Registry!ByStatus
  <2> QED BY <2>2, SameNames DEF Registry!Next
<1>6. ASSUME NEW u \in User, Resumable(u) PROVE Registry!Next
  <2>1. /\ statusList[<<u, ACTIVE>>] = Registry!Listed(u, ACTIVE)
        /\ statusList[<<u, PAUSED>>] = Registry!Listed(u, PAUSED)
    BY SameNames, StatesDiffer DEF IInv, IndexExact, Registry!Listed
  <2>2. statusList[<<u, ACTIVE>>] \cup statusList[<<u, PAUSED>>]
          = UNION {Registry!Listed(u, s) : s \in Registry!ResumableStates}
    BY <2>1, SameNames DEF ResumableStates
  <2>3. {e \in statusList[<<u, ACTIVE>>] \cup statusList[<<u, PAUSED>>] :
           DeliveryOf[e] \in deliveries}
          = {e \in UNION {Registry!Listed(u, s) :
                            s \in Registry!ResumableStates} :
               DeliveryOf[e] \in deliveries}
    BY <2>2
  <2>4. Registry!Resumable(u)
    BY <1>6, <2>3, ResumableSame, AnswerImplements DEF Registry!Resumable
  <2> QED BY <2>4, SameNames DEF Registry!Next
<1>7. ASSUME NEW u \in User, NEW d \in Delivery, UserExecutions(u, d)
      PROVE  Registry!Next
  <2>1. userList[<<u, d>>] = Registry!Attempted(u, d)
    BY SameNames DEF IInv, AttemptsExact, Alive, Registry!Attempted, Registry!Alive
  <2>2. Registry!UserExecutions(u, d)
    BY <1>7, <2>1, AnswerImplements DEF UserExecutions, Registry!UserExecutions
  <2> QED BY <2>2, SameNames DEF Registry!Next
<1>8. ASSUME NEW u \in User, NEW d \in Delivery, Attempts(u, d)
      PROVE  Registry!Next
  <2>1. userList[<<u, d>>] = Registry!Attempted(u, d)
    BY SameNames DEF IInv, AttemptsExact, Alive, Registry!Attempted, Registry!Alive
  <2>2. Registry!Attempts(u, d)
    BY <1>8, <2>1, AnswerImplements DEF Attempts, Registry!Attempts
  <2> QED BY <2>2, SameNames DEF Registry!Next
<1>9. CASE UNCHANGED vars
  BY <1>9 DEF vars, Registry!vars
<1>10. ASSUME NEW d \in Delivery, DeleteDelivery(d) PROVE Registry!Next
  <2>1. Registry!DeleteDelivery(d)
    BY <1>10, SameNames DEF DeleteDelivery, Registry!DeleteDelivery
  <2> QED BY <2>1 DEF Registry!Next
<1> QED
  BY <1>1, <1>2, <1>3, <1>4, <1>5, <1>6, <1>7, <1>8, <1>9, <1>10 DEF Next

\* The key-value implementation implements the registry: what its lists
\* answer is what the records say, less what deletions made invisible.
THEOREM Refinement == Spec => ImplementsRegistry
<1>1. Init => Registry!Init
  BY InitImplements
<1>2. IInv /\ [Next]_vars => [Registry!Next]_(Registry!vars)
  BY NextImplements
<1> QED BY <1>1, <1>2, InvTheorem, PTL DEF Spec, ImplementsRegistry, Registry!Spec

-----------------------------------------------------------------------------
\* An answer about a delivery stands until a record changes: it lacks the
\* executions that a deletion took off the list, and no other.
Told ==
  answer # NoAnswer /\ answer.query = "delivery" =>
    answer.found = {e \in Execution : /\ UserOf[e] = answer.user
                                      /\ DeliveryOf[e] = answer.arg
                                      /\ Alive(e) /\ e \notin unattempted}

\* Every operation withdraws the last answer or gives a new one.
LEMMA AnswerFresh ==
  ASSUME [Next]_vars
  PROVE  \/ UNCHANGED <<answer, status, unattempted>>
         \/ answer' = NoAnswer
         \/ /\ UNCHANGED <<status, unattempted>>
            /\ \/ answer'.query # "delivery"
               \/ \E u \in User, d \in Delivery : UserExecutions(u, d)
<1>1. CASE \/ \E e \in Execution :
                \/ \E s \in State : Spawn(e, s) \/ SetState(e, s)
                \/ AddMetadata(e) \/ Delete(e)
           \/ \E d \in Delivery : DeleteDelivery(d)
  BY <1>1 DEF Spawn, SetState, AddMetadata, Delete, DeleteDelivery
<1>2. ASSUME NEW u \in User, NEW q, NEW x, NEW found, q # "delivery",
             Answer(q, u, x, found)
      PROVE  answer'.query # "delivery"
  BY <1>2 DEF Answer
<1>3. ASSUME NEW u \in User, NEW s \in State, ByStatus(u, s)
      PROVE  UNCHANGED <<status, unattempted>> /\ answer'.query # "delivery"
  BY <1>2, <1>3 DEF ByStatus
<1>4. ASSUME NEW u \in User, Resumable(u)
      PROVE  UNCHANGED <<status, unattempted>> /\ answer'.query # "delivery"
  BY <1>2, <1>4 DEF Resumable
<1>5. ASSUME NEW u \in User, NEW d \in Delivery, Attempts(u, d)
      PROVE  UNCHANGED <<status, unattempted>> /\ answer'.query # "delivery"
  BY <1>2, <1>5 DEF Attempts
<1>6. ASSUME NEW u \in User, NEW d \in Delivery, UserExecutions(u, d)
      PROVE  UNCHANGED <<status, unattempted>>
  BY <1>6 DEF UserExecutions
<1>7. CASE UNCHANGED vars
  BY <1>7 DEF vars
<1> QED BY <1>1, <1>3, <1>4, <1>5, <1>6, <1>7 DEF Next

LEMMA NextTold == IInv /\ Told /\ [Next]_vars => Told'
<1> SUFFICES ASSUME IInv, Told, [Next]_vars, answer' # NoAnswer,
                    answer'.query = "delivery"
             PROVE  answer'.found =
                      {e \in Execution :
                         /\ UserOf[e] = answer'.user
                         /\ DeliveryOf[e] = answer'.arg
                         /\ Alive(e)' /\ e \notin unattempted'}
  BY DEF Told
<1>1. CASE UNCHANGED <<answer, status, unattempted>>
  BY <1>1 DEF Told, Alive
<1>2. ASSUME UNCHANGED <<status, unattempted>>, NEW u \in User,
             NEW d \in Delivery, UserExecutions(u, d)
      PROVE  answer'.found =
               {e \in Execution :
                  /\ UserOf[e] = answer'.user
                  /\ DeliveryOf[e] = answer'.arg
                  /\ Alive(e)' /\ e \notin unattempted'}
  <2>1. /\ answer'.user = u /\ answer'.arg = d
        /\ answer'.found = userList[<<u, d>>]
    BY <1>2 DEF UserExecutions, Answer
  <2>2. userList[<<u, d>>] =
          {e \in Execution : /\ UserOf[e] = u /\ DeliveryOf[e] = d
                             /\ Alive(e) /\ e \notin unattempted}
    BY DEF IInv, AttemptsExact
  <2> QED BY <1>2, <2>1, <2>2 DEF Alive
<1> QED BY <1>1, <1>2, AnswerFresh

\* getUserExecutions finds every execution the user has of the delivery as
\* long as no deletion has taken a living execution off its list: deletion is
\* the only operation that makes the answer incomplete.
THEOREM AttemptsCompleteTheorem ==
  Spec => []((\A e \in unattempted : ~Alive(e)) => AttemptsComplete)
<1>1. Init => Told
  BY DEF Init, Told
<1>2. IInv /\ Told /\ [Next]_vars => Told'
  BY NextTold
<1>3. Told => ((\A e \in unattempted : ~Alive(e)) => AttemptsComplete)
  BY DEF Told, AttemptsComplete
<1> QED BY <1>1, <1>2, <1>3, InvTheorem, PTL DEF Spec

-----------------------------------------------------------------------------
\* The identifiers on the list kept for the user and the delivery of e.
Mates(e) == userList[<<UserOf[e], DeliveryOf[e]>>]

\* e has been spawned and is not on that list.
OffList(e) == status[e] # UNBORN /\ e \notin Mates(e)

\* The lists by delivery change when an execution is spawned, which adds it,
\* and when one is deleted, which empties the list it was on.
LEMMA MatesChange ==
  ASSUME TypeOK, [Next]_vars, NEW e \in Execution
  PROVE  \/ Mates(e)' = Mates(e)
         \/ \E x \in Execution :
              /\ status[x] = UNBORN
              /\ Mates(e)' = Mates(e) \cup {x}
         \/ \E x \in Execution :
              /\ UserOf[x] = UserOf[e] /\ DeliveryOf[x] = DeliveryOf[e]
              /\ Delete(x)
<1> DEFINE k == <<UserOf[e], DeliveryOf[e]>>
<1>1. k \in User \X Delivery /\ userList \in [User \X Delivery -> SUBSET Execution]
  BY ConstantsAssumption DEF TypeOK
<1>2. ASSUME NEW x \in Execution, NEW s \in State, Spawn(x, s)
      PROVE  Mates(e)' = Mates(e) \/ Mates(e)' = Mates(e) \cup {x}
  <2>1. userList' = [userList EXCEPT ![<<UserOf[x], DeliveryOf[x]>>] = @ \cup {x}]
    BY <1>2 DEF Spawn
  <2>2. QED
    BY <1>1, <2>1 DEF Mates
<1>3. ASSUME NEW x \in Execution, Delete(x)
      PROVE  \/ Mates(e)' = Mates(e)
             \/ UserOf[x] = UserOf[e] /\ DeliveryOf[x] = DeliveryOf[e]
  <2>1. userList' = [userList EXCEPT ![<<UserOf[x], DeliveryOf[x]>>] = {}]
    BY <1>3 DEF Delete
  <2>2. QED
    BY <1>1, <2>1 DEF Mates
<1>4. CASE userList' = userList
  BY <1>4 DEF Mates
<1>5. ASSUME NEW x \in Execution, NEW s \in State, Spawn(x, s)
      PROVE  status[x] = UNBORN
  BY <1>5 DEF Spawn
<1>6. QED
  BY <1>2, <1>3, <1>4, <1>5
     DEF Next, vars, SetState, AddMetadata, ByStatus, Resumable,
         UserExecutions, Attempts, DeleteDelivery

\* A spawned identifier is never free again.
LEMMA BornForGood ==
  ASSUME TypeOK, [Next]_vars, NEW e \in Execution, status[e] # UNBORN
  PROVE  status'[e] # UNBORN
<1>1. ASSUME NEW x \in Execution, NEW v, status' = [status EXCEPT ![x] = v],
             v # UNBORN
      PROVE  status'[e] # UNBORN
  BY <1>1 DEF TypeOK
<1>2. CASE status' = status
  BY <1>2
<1>3. QED
  BY <1>1, <1>2, StatesDiffer
     DEF Next, vars, Spawn, SetState, AddMetadata, Delete, ByStatus, Resumable,
         UserExecutions, Attempts, DeleteDelivery

\* An execution leaves the list of its user and delivery only when an execution
\* of the same user and delivery is deleted: deleteDeliveryExecutionData
\* removes that whole list, and nothing else takes an identifier off it.
THEOREM OffListByDeletion ==
  Spec => [][\A e \in Execution : e \in Mates(e) /\ e \notin Mates(e)' =>
               \E x \in Execution :
                 /\ UserOf[x] = UserOf[e] /\ DeliveryOf[x] = DeliveryOf[e]
                 /\ Delete(x)]_vars
<1>1. TypeOK /\ [Next]_vars =>
        [\A e \in Execution : e \in Mates(e) /\ e \notin Mates(e)' =>
           \E x \in Execution :
             /\ UserOf[x] = UserOf[e] /\ DeliveryOf[x] = DeliveryOf[e]
             /\ Delete(x)]_vars
  BY MatesChange
<1>2. QED
  BY <1>1, TypeCorrect, PTL DEF Spec

\* An execution that is off the list of its user and delivery never returns to
\* it, whatever becomes of its state: spawnDeliveryExecution alone adds to the
\* list, and adds the new identifier. It is lost to getUserExecutions and to
\* the count of attempts for good.
THEOREM OffListForGood ==
  ASSUME NEW e \in Execution
  PROVE  Spec => [](OffList(e) => []OffList(e))
<1>1. TypeOK /\ OffList(e) /\ [Next]_vars => OffList(e)'
  <2> SUFFICES ASSUME TypeOK, OffList(e), [Next]_vars PROVE OffList(e)'
    OBVIOUS
  <2>1. status'[e] # UNBORN
    BY BornForGood DEF OffList
  <2>2. ASSUME NEW x \in Execution, Delete(x), UserOf[x] = UserOf[e],
               DeliveryOf[x] = DeliveryOf[e]
        PROVE  Mates(e)' = {}
    <3>1. <<UserOf[e], DeliveryOf[e]>> \in User \X Delivery
      BY ConstantsAssumption
    <3>2. QED
      BY <2>2, <3>1 DEF Delete, Mates, TypeOK
  <2>3. e \notin Mates(e)'
    BY <2>2, MatesChange DEF OffList
  <2>4. QED
    BY <2>1, <2>3 DEF OffList
<1>2. QED
  BY <1>1, TypeCorrect, PTL DEF Spec
=============================================================================
