-------------------------- MODULE SamplerLeaseProofs --------------------------
(***************************************************************************)
(* The lease of the sampler keeps a second writer out, for any number of   *)
(* instances, any lease and interval and any number of faults.             *)
(***************************************************************************)
EXTENDS SamplerLease, TLAPS

\* What the invariant says of the key, beside AsksFirst and the clock's part, Paced.
Held == TypeOK /\ Owned /\ OwnerLives

\* The initial states satisfy the invariant: nobody runs, there is no key.
LEMMA InitIInv == Init => IInv
  BY LeaseAssumption DEF Init, IInv, TypeOK, Owned, AsksFirst, Relying, OwnerLives, Owners, Pcs,
     TaskPcs, Renewing, Sampling, Paced, PacedAt

\* SET NX on a free key, and EXPIRE on one's own, keep the key's invariant.
LEMMA SetKeeps ==
  ASSUME TypeOK, Owned, NEW i \in Instances, SetIfFree(i)
  PROVE  /\ owner' \in Owners /\ ttl' \in 0..Lease /\ (ttl' = 0 <=> owner' = {})
         /\ belief' \in [Instances -> 0..Lease] /\ late' \in [Instances -> 0..Lease]
         /\ wronged' \subseteq Instances
         /\ Owned'
         /\ owner' = owner \/ owner' = {i}
  <1>1. CASE owner = {}
    <2>1. /\ owner' = {i} /\ ttl' = Lease /\ wronged' = wronged \ {i}
          /\ belief' = [belief EXCEPT ![i] = Lease] /\ late' = [late EXCEPT ![i] = 0]
      BY <1>1 DEF SetIfFree, Renewed
    <2>2. \A j \in Instances \ {i} : belief[j] > 0 => j \in wronged
      BY <1>1 DEF Owned
    <2>3. Owned'
      BY <2>1, <2>2, LeaseAssumption DEF Owned, TypeOK
    <2> QED BY <2>1, <2>3, LeaseAssumption DEF TypeOK, Owners
  <1>2. CASE owner # {}
    BY <1>2 DEF SetIfFree, TypeOK, Owned
  <1> QED BY <1>1, <1>2

LEMMA ExtendKeeps ==
  ASSUME TypeOK, Owned, AsksFirst, NEW i \in Instances, pc[i] = "expire", Extend(i)
  PROVE  /\ owner' \in Owners /\ ttl' \in 0..Lease /\ (ttl' = 0 <=> owner' = {})
         /\ belief' \in [Instances -> 0..Lease] /\ late' \in [Instances -> 0..Lease]
         /\ wronged' \subseteq Instances
         /\ Owned'
         /\ owner' = owner
  <1>1. CASE owner = {i}
    <2>1. /\ owner' = owner /\ ttl' = Lease /\ wronged' = wronged \ {i}
          /\ belief' = [belief EXCEPT ![i] = Lease] /\ late' = [late EXCEPT ![i] = 0]
      BY <1>1 DEF Extend, Renewed
    <2>2. Owned'
      BY <1>1, <2>1, LeaseAssumption DEF Owned, TypeOK
    <2> QED BY <1>1, <2>1, <2>2, LeaseAssumption DEF TypeOK
  <1>2. CASE owner # {i}
    <2>1. /\ owner' = owner /\ ttl' = (IF owner = {} THEN 0 ELSE Lease)
          /\ wronged' = wronged /\ i \in wronged
          /\ belief' = [belief EXCEPT ![i] = Lease] /\ late' = [late EXCEPT ![i] = 0]
      BY <1>2 DEF Extend, AsksFirst, Relying
    <2>2. Owned'
      BY <2>1, LeaseAssumption DEF Owned, TypeOK
    <2> QED BY <2>1, <2>2, LeaseAssumption DEF TypeOK
  <1> QED BY <1>1, <1>2

\* One step for each action of an instance, and one for time.
LEMMA NextHeld == Held /\ AsksFirst /\ [Next]_vars => Held'
  <1> SUFFICES ASSUME Held, AsksFirst, [Next]_vars PROVE Held'
    OBVIOUS
  <1> USE LeaseAssumption DEF Held
  <1>1. ASSUME NEW i \in Instances, Start(i) \/ Wake(i) PROVE Held'
    BY <1>1 DEF Start, Wake, Goto, TypeOK, Owned, OwnerLives, Pcs, TaskPcs, Renewing, Sampling
  <1>2. ASSUME NEW i \in Instances, AcquireSet(i) PROVE Held'
    <2>1. SetIfFree(i) /\ sleep' = sleep /\ faults' = faults
          /\ pc' = [pc EXCEPT ![i] = IF owner = {} THEN "probe" ELSE "get"]
      BY <1>2 DEF AcquireSet, Goto
    <2>2. TypeOK'
      BY <2>1, SetKeeps DEF TypeOK, Pcs, TaskPcs, Renewing, Sampling
    <2>3. OwnerLives'
      BY <2>1, SetKeeps DEF OwnerLives, TypeOK
    <2> QED BY <2>1, <2>2, <2>3, SetKeeps
  <1>3. ASSUME NEW i \in Instances, AcquireGet(i) PROVE Held'
    <2>1. pc' \in [Instances -> Pcs] /\ sleep' \in [Instances -> 0..Interval]
      BY <1>3 DEF AcquireGet, Goto, ToSleep, TypeOK, Pcs, TaskPcs, Renewing
    <2>2. \A j \in Instances : pc[j] # "down" => pc'[j] # "down"
      BY <1>3 DEF AcquireGet, Goto, ToSleep, TypeOK
    <2> QED BY <1>3, <2>1, <2>2 DEF AcquireGet, TypeOK, Owned, OwnerLives
  <1>4. ASSUME NEW i \in Instances, AcquireExpire(i) PROVE Held'
    <2>1. Extend(i) /\ sleep' = sleep /\ faults' = faults /\ pc[i] = "expire"
          /\ pc' = [pc EXCEPT ![i] = "probe"]
      BY <1>4 DEF AcquireExpire, Goto
    <2>2. TypeOK'
      BY <2>1, ExtendKeeps DEF TypeOK, Pcs, TaskPcs, Sampling
    <2>3. OwnerLives'
      BY <2>1, ExtendKeeps DEF OwnerLives, TypeOK
    <2> QED BY <2>1, <2>2, <2>3, ExtendKeeps
  <1>5. ASSUME NEW i \in Instances, Sample(i) \/ SampleDone(i) PROVE Held'
    <2>1. pc' \in [Instances -> Pcs] /\ sleep' \in [Instances -> 0..Interval]
      BY <1>5 DEF Sample, SampleDone, Goto, ToSleep, TypeOK, Pcs, TaskPcs, Sampling
    <2>2. \A j \in Instances : pc[j] # "down" => pc'[j] # "down"
      BY <1>5 DEF Sample, SampleDone, Goto, ToSleep, TypeOK
    <2> QED BY <1>5, <2>1, <2>2 DEF Sample, SampleDone, TypeOK, Owned, OwnerLives
  <1>6. ASSUME NEW i \in Instances, TickFails(i) PROVE Held'
    <2>1. /\ faults' \in 0..MaxFaults
          /\ pc' = [pc EXCEPT ![i] = "sleep"] /\ sleep' = [sleep EXCEPT ![i] = Interval]
      BY <1>6 DEF TickFails, ToSleep, Goto, TypeOK
    <2>2. pc[i] # "down"
      BY <1>6 DEF TickFails, Renewing, Sampling
    <2>3. /\ owner' \in Owners /\ ttl' \in 0..Lease /\ (ttl' = 0 <=> owner' = {})
          /\ owner' = owner \/ owner' = {i}
          /\ wronged' = wronged /\ belief' = belief
          /\ owner # {} => owner' = owner /\ ttl' >= ttl
      <3>1. CASE owner = {} /\ owner' = {i} /\ ttl' = Lease /\ UNCHANGED <<belief, late, wronged>>
        <4>1. {i} \in Owners /\ {i} # {}
          BY DEF Owners
        <4> QED BY <3>1, <4>1
      <3>2. CASE owner # {} /\ ttl' = Lease /\ UNCHANGED <<owner, belief, late, wronged>>
        BY <3>2 DEF TypeOK
      <3>3. CASE UNCHANGED <<owner, ttl, belief, wronged>>
        BY <3>3 DEF TypeOK
      <3> QED BY <1>6, <3>1, <3>2, <3>3 DEF TickFails
    <2>4. late' \in [Instances -> 0..Lease]
      BY <1>6 DEF TickFails, TypeOK
    <2>5. TypeOK'
      <3>1. pc' \in [Instances -> Pcs]
        BY <2>1 DEF TypeOK, Pcs, TaskPcs
      <3>2. sleep' \in [Instances -> 0..Interval]
        BY <2>1 DEF TypeOK
      <3> QED BY <2>1, <2>3, <2>4, <3>1, <3>2 DEF TypeOK
    <2>6. Owned'
      BY <2>3 DEF Owned, TypeOK
    <2>7. OwnerLives'
      BY <2>1, <2>2, <2>3 DEF OwnerLives, TypeOK
    <2> QED BY <2>5, <2>6, <2>7
  <1>7. ASSUME NEW i \in Instances, Stop(i) PROVE Held'
    <2>1. /\ pc' = [pc EXCEPT ![i] = "release"] /\ sleep' = sleep /\ faults' = faults
          /\ \/ UNCHANGED <<owner, ttl, belief, late, wronged>>
             \/ SetIfFree(i)
             \/ pc[i] = "expire" /\ Extend(i)
      BY <1>7 DEF Stop, Goto
    <2>2. /\ owner' \in Owners /\ ttl' \in 0..Lease /\ (ttl' = 0 <=> owner' = {})
          /\ belief' \in [Instances -> 0..Lease] /\ late' \in [Instances -> 0..Lease]
          /\ wronged' \subseteq Instances
          /\ Owned'
          /\ owner' = owner \/ owner' = {i}
      <3>1. CASE UNCHANGED <<owner, ttl, belief, late, wronged>>
        BY <3>1 DEF TypeOK, Owned
      <3>2. CASE SetIfFree(i)
        BY <3>2, SetKeeps
      <3>3. CASE pc[i] = "expire" /\ Extend(i)
        BY <3>3, ExtendKeeps
      <3> QED BY <2>1, <3>1, <3>2, <3>3
    <2>3. TypeOK'
      BY <2>1, <2>2 DEF TypeOK, Pcs
    <2>4. OwnerLives'
      BY <2>1, <2>2 DEF OwnerLives, TypeOK
    <2> QED BY <2>2, <2>3, <2>4
  <1>8. ASSUME NEW i \in Instances, ReleaseGet(i) PROVE Held'
    <2>1. /\ owner' = owner /\ ttl' = ttl /\ faults' = faults /\ wronged' = wronged \ {i}
          /\ pc' = [pc EXCEPT ![i] = IF owner = {i} THEN "delete" ELSE "down"]
          /\ sleep' = [sleep EXCEPT ![i] = 0] /\ belief' = [belief EXCEPT ![i] = 0]
          /\ late' = [late EXCEPT ![i] = 0]
      BY <1>8 DEF ReleaseGet, Goto, Forget
    <2>2. TypeOK'
      BY <2>1 DEF TypeOK, Pcs
    <2>3. Owned'
      BY <2>1 DEF Owned, TypeOK
    <2>4. OwnerLives'
      BY <2>1 DEF OwnerLives, TypeOK
    <2> QED BY <2>2, <2>3, <2>4
  <1>9. ASSUME NEW i \in Instances, ReleaseDelete(i) PROVE Held'
    <2>1. /\ owner' = {} /\ ttl' = 0 /\ faults' = faults
          /\ wronged' = (IF i \in wronged
                         THEN (wronged \ {i}) \cup ((owner \ {i}) \cap Instances) ELSE wronged)
          /\ pc' = [pc EXCEPT ![i] = "down"]
          /\ sleep' = [sleep EXCEPT ![i] = 0] /\ belief' = [belief EXCEPT ![i] = 0]
          /\ late' = [late EXCEPT ![i] = 0]
          /\ i \in wronged \/ owner = {i}
      BY <1>9 DEF ReleaseDelete, Goto, Forget, Delete, AsksFirst, Relying
    <2>2. TypeOK'
      BY <2>1 DEF TypeOK, Pcs, Owners
    <2>3. Owned'
      BY <2>1 DEF Owned, TypeOK
    <2>4. OwnerLives'
      BY <2>1 DEF OwnerLives
    <2> QED BY <2>2, <2>3, <2>4
  <1>10. ASSUME NEW i \in Instances, Crash(i) PROVE Held'
    <2>1. /\ owner' = (IF owner = {i} THEN {Nobody} ELSE owner) /\ ttl' = ttl
          /\ faults' \in 0..MaxFaults /\ wronged' = wronged \ {i}
          /\ pc' = [pc EXCEPT ![i] = "down"]
          /\ sleep' = [sleep EXCEPT ![i] = 0] /\ belief' = [belief EXCEPT ![i] = 0]
          /\ late' = [late EXCEPT ![i] = 0]
      BY <1>10 DEF Crash, Goto, Forget, Orphaned, TypeOK
    <2>2. TypeOK'
      BY <2>1 DEF TypeOK, Pcs, Owners
    <2>3. Owned'
      BY <2>1 DEF Owned, TypeOK
    <2>4. OwnerLives'
      BY <2>1 DEF OwnerLives, TypeOK
    <2> QED BY <2>2, <2>3, <2>4
  <1>11. ASSUME Second PROVE Held'
    <2>1. /\ ttl' = (IF ttl \in 1..Lease THEN ttl - 1 ELSE ttl)
          /\ owner' = (IF ttl = 1 THEN {} ELSE owner)
          /\ pc' = pc /\ faults' = faults
          /\ wronged \subseteq wronged' /\ wronged' \subseteq Instances
      BY <1>11 DEF Second, TypeOK
    <2>2. /\ sleep' \in [Instances -> 0..Interval]
          /\ belief' \in [Instances -> 0..Lease]
          /\ \A i \in Instances : belief'[i] = IF belief[i] = 0 THEN 0 ELSE belief[i] - 1
      BY <1>11 DEF Second, Less, TypeOK
    <2>3. late' \in [Instances -> 0..Lease]
      BY <1>11 DEF Second, TypeOK
    <2>4. TypeOK'
      BY <2>1, <2>2, <2>3 DEF TypeOK, Owners
    <2>5. Owned'
      BY <2>1, <2>2 DEF Owned, TypeOK
    <2>6. OwnerLives'
      BY <2>1 DEF OwnerLives
    <2> QED BY <2>4, <2>5, <2>6
  <1>12. CASE UNCHANGED vars
    BY <1>12 DEF vars, TypeOK, Owned, OwnerLives
  <1> QED
    BY <1>1, <1>2, <1>3, <1>4, <1>5, <1>6, <1>7, <1>8, <1>9, <1>10, <1>11, <1>12
    DEF Next, Step, Shutdown

\* Who relies on a GET has its key, or has been wronged.
LEMMA NextAsks == TypeOK /\ AsksFirst /\ [Next]_vars => AsksFirst'
  <1> SUFFICES ASSUME TypeOK, AsksFirst, [Next]_vars, NEW j \in Instances,
                      Relying(j)', j \notin wronged'
               PROVE  owner' = {j}
    BY DEF AsksFirst
  <1>1. ASSUME Relying(j), j \notin wronged PROVE owner = {j}
    BY <1>1 DEF AsksFirst
  <1>3. ASSUME NEW i \in Instances, Start(i) \/ Wake(i) \/ Sample(i) \/ SampleDone(i)
        PROVE  owner' = {j}
    <2>1. UNCHANGED <<owner, wronged>> /\ pc'[i] \in {"set", "append", "publish", "retain", "trim", "sleep"}
          /\ (i # j => pc'[j] = pc[j])
      BY <1>3 DEF Start, Wake, Sample, SampleDone, Goto, ToSleep, TypeOK
    <2> QED BY <1>1, <2>1 DEF Relying
  <1>4. ASSUME NEW i \in Instances, AcquireSet(i) PROVE owner' = {j}
    <2>1. i # j /\ pc'[j] = pc[j] /\ pc[i] = "set" /\ SetIfFree(i)
      BY <1>4 DEF AcquireSet, Goto, Relying, TypeOK
    <2>2. owner = {} => owner # {j}
      OBVIOUS
    <2> QED BY <1>1, <2>1, <2>2 DEF SetIfFree, Renewed, Relying
  <1>5. ASSUME NEW i \in Instances, AcquireGet(i) PROVE owner' = {j}
    <2>1. UNCHANGED <<owner, wronged>> /\ (i # j => pc'[j] = pc[j])
          /\ pc'[i] = IF owner = {i} THEN "expire" ELSE "sleep"
      BY <1>5 DEF AcquireGet, Goto, ToSleep, TypeOK
    <2> QED BY <1>1, <2>1 DEF Relying
  <1>6. ASSUME NEW i \in Instances, AcquireExpire(i) PROVE owner' = {j}
    <2>1. i # j /\ pc'[j] = pc[j] /\ Extend(i)
      BY <1>6 DEF AcquireExpire, Goto, Relying, TypeOK
    <2> QED BY <1>1, <2>1 DEF Extend, Renewed, Relying
  <1>7. ASSUME NEW i \in Instances, TickFails(i) PROVE owner' = {j}
    <2>1. i # j /\ pc'[j] = pc[j] /\ wronged' = wronged
      BY <1>7 DEF TickFails, ToSleep, Goto, Relying, TypeOK
    <2>2. owner' = owner \/ owner = {}
      BY <1>7 DEF TickFails
    <2>3. owner = {j}
      BY <1>1, <2>1 DEF Relying
    <2> QED BY <2>2, <2>3
  <1>8. ASSUME NEW i \in Instances, Stop(i) PROVE owner' = {j}
    <2>1. /\ i # j /\ pc'[j] = pc[j]
          /\ UNCHANGED <<owner, wronged>> \/ SetIfFree(i) \/ Extend(i)
      BY <1>8 DEF Stop, Goto, Relying, TypeOK
    <2>2. j \notin wronged /\ (owner # {} => owner' = owner)
      BY <2>1 DEF SetIfFree, Extend, Renewed
    <2>3. owner = {j}
      BY <1>1, <2>1, <2>2 DEF Relying
    <2> QED BY <2>2, <2>3
  <1>9. ASSUME NEW i \in Instances, ReleaseGet(i) PROVE owner' = {j}
    <2>1. owner' = owner /\ wronged' = wronged \ {i} /\ (i # j => pc'[j] = pc[j])
          /\ pc'[i] = IF owner = {i} THEN "delete" ELSE "down"
      BY <1>9 DEF ReleaseGet, Goto, TypeOK
    <2> QED BY <1>1, <2>1 DEF Relying
  <1>10. ASSUME NEW i \in Instances, ReleaseDelete(i) PROVE owner' = {j}
    <2>1. i # j /\ pc'[j] = pc[j] /\ pc[i] = "delete"
      BY <1>10 DEF ReleaseDelete, Goto, Relying, TypeOK
    <2>2. wronged' = IF i \in wronged
                     THEN (wronged \ {i}) \cup ((owner \ {i}) \cap Instances) ELSE wronged
      BY <1>10 DEF ReleaseDelete, Delete
    <2>3. owner = {j}
      BY <1>1, <2>1, <2>2 DEF Relying
    <2>4. i \in wronged
      BY <2>1, <2>3 DEF AsksFirst, Relying
    <2> QED BY <2>1, <2>2, <2>3, <2>4
  <1>11. ASSUME NEW i \in Instances, Crash(i) PROVE owner' = {j}
    <2>1. i # j /\ pc'[j] = pc[j] /\ wronged' = wronged \ {i}
          /\ owner' = (IF owner = {i} THEN {Nobody} ELSE owner)
      BY <1>11 DEF Crash, Goto, Orphaned, Relying, TypeOK
    <2>2. owner = {j}
      BY <1>1, <2>1 DEF Relying
    <2> QED BY <2>1, <2>2
  <1>12. ASSUME Second PROVE owner' = {j}
    <2>1. pc' = pc /\ owner' = (IF ttl = 1 THEN {} ELSE owner)
          /\ wronged' = wronged \cup {i \in Instances : owner = {i} /\ ttl = 1 /\ Relying(i)}
      BY <1>12 DEF Second
    <2>2. Relying(j) /\ j \notin wronged
      BY <2>1 DEF Relying
    <2> QED BY <1>1, <2>1, <2>2
  <1>13. CASE UNCHANGED vars
    BY <1>1, <1>13 DEF vars, Relying
  <1> QED
    BY <1>3, <1>4, <1>5, <1>6, <1>7, <1>8, <1>9, <1>10, <1>11, <1>12, <1>13
    DEF Next, Step, Shutdown

-----------------------------------------------------------------------------
\* What a step of one instance, or a change of the key, leaves of another.
LEMMA OthersPaced ==
  ASSUME TypeOK, Paced, NEW j \in Instances,
         pc'[j] = pc[j], sleep'[j] = sleep[j], belief'[j] = belief[j], late'[j] = late[j],
         owner' = {j} => owner = {j} /\ ttl' \in Nat /\ ttl' >= ttl
                         /\ (j \in wronged' => j \in wronged)
  PROVE  PacedAt(j)'
  <1>1. PacedAt(j)
    BY DEF Paced
  <1>2. Slept(j)' = Slept(j)
    BY DEF Slept
  <1>3. belief[j] \in Nat /\ ttl \in Nat
    BY LeaseAssumption DEF TypeOK
  <1>4. ASSUME belief[j] > 0, owner' = {j}, pc[j] \in TaskPcs
        PROVE  \/ belief[j] < ttl'
               \/ j \notin wronged' /\ Lease <= belief[j] + late[j] + Slept(j)
    <2>1. CASE belief[j] < ttl
      BY <1>3, <1>4, <2>1
    <2>2. CASE j \notin wronged /\ Lease <= belief[j] + late[j] + Slept(j)
      BY <1>4, <2>2
    <2> QED BY <1>1, <1>4, <2>1, <2>2 DEF PacedAt
  <1> QED BY <1>1, <1>2, <1>4 DEF PacedAt

\* An instance that has just renewed its lease, and goes on to take a sample.
LEMMA RenewedPaced ==
  ASSUME NEW i \in Instances, pc'[i] = "probe", belief'[i] = Lease, late'[i] = 0,
         owner' = {i} => i \notin wronged'
  PROVE  PacedAt(i)'
  <1>1. Slept(i)' = 0
    BY DEF Slept, Sampling
  <1>2. pc'[i] \notin Renewing \cup {"sleep"} /\ pc'[i] # "down"
    BY DEF Renewing
  <1> QED BY <1>1, <1>2, LeaseAssumption DEF PacedAt

\* A sampler that goes from one command, or its sleep, to the next in no time.
LEMMA StillPaced ==
  ASSUME Paced, NEW i \in Instances, UNCHANGED <<owner, ttl, belief, late, wronged>>,
         Slept(i)' = Slept(i),
         pc[i] \in Renewing \cup {"sleep"}, pc'[i] \in Renewing
  PROVE  PacedAt(i)'
  <1>1. PacedAt(i)
    BY DEF Paced
  <1>2. pc'[i] # "down" /\ pc[i] \in TaskPcs
    BY DEF Renewing, TaskPcs
  <1> QED BY <1>1, <1>2 DEF PacedAt

\* A sampler that goes to sleep with a key that is not its own, or will be
\* extended beyond what it knows.
LEMMA AsleepPaced ==
  ASSUME TypeOK, NEW i \in Instances, belief'[i] = belief[i],
         pc' = [pc EXCEPT ![i] = "sleep"], sleep' = [sleep EXCEPT ![i] = Interval],
         \/ owner' # {i}
         \/ belief[i] > 0 => belief[i] < ttl'
         \/ i \notin wronged' /\ late'[i] \in Nat /\ Lease <= belief[i] + late'[i]
  PROVE  PacedAt(i)'
  <1>1. pc'[i] = "sleep" /\ sleep'[i] = Interval
    BY DEF TypeOK
  <1>2. Slept(i)' = 0
    BY <1>1, LeaseAssumption DEF Slept, Sampling
  <1>3. belief[i] \in 0..Lease
    BY DEF TypeOK
  <1>4. belief'[i] + Slept(i)' <= Lease
    BY <1>2, <1>3, LeaseAssumption
  <1>5. ASSUME belief'[i] > 0, owner' = {i}
        PROVE  \/ belief'[i] < ttl'
               \/ i \notin wronged' /\ Lease <= belief'[i] + late'[i] + Slept(i)'
    <2>1. CASE belief'[i] < ttl'
      BY <2>1
    <2>2. CASE i \notin wronged' /\ late'[i] \in Nat /\ Lease <= belief[i] + late'[i]
      BY <1>2, <1>3, <2>2, LeaseAssumption
    <2> QED BY <1>5, <2>1, <2>2
  <1> QED BY <1>1, <1>4, <1>5 DEF PacedAt, Slept

\* One step for each action: what the clock says of the lease stays true.
LEMMA NextPaced == IInv /\ [Next]_vars => Paced'
  <1> SUFFICES ASSUME IInv, [Next]_vars, NEW j \in Instances PROVE PacedAt(j)'
    BY DEF Paced
  <1>a. /\ TypeOK /\ Owned /\ Paced /\ PacedAt(j)
    BY DEF IInv, Paced
  <1>b. Lease \in Nat \ {0} /\ Interval \in Nat \ {0}
    BY LeaseAssumption
  <1>t. /\ belief[j] \in 0..Lease /\ late[j] \in 0..Lease /\ sleep[j] \in 0..Interval
        /\ ttl \in 0..Lease
    BY <1>a DEF TypeOK
  <1>1. ASSUME NEW i \in Instances, Start(i) \/ Wake(i) PROVE PacedAt(j)'
    <2>1. UNCHANGED <<owner, ttl, sleep, belief, late, wronged>> /\ pc' = [pc EXCEPT ![i] = "set"]
      BY <1>1 DEF Start, Wake, Goto
    <2>2. CASE j # i
      BY <1>a, <1>t, <2>1, <2>2, OthersPaced DEF TypeOK
    <2>3. CASE j = i
      <3>1. pc'[j] = "set"
        BY <1>a, <2>1, <2>3 DEF TypeOK
      <3>2. CASE Start(i)
        <4>1. belief'[j] = 0
          BY <1>a, <2>1, <2>3, <3>2 DEF Start, PacedAt
        <4> QED BY <3>1, <4>1 DEF PacedAt
      <3>3. CASE Wake(i)
        <4>1. pc[j] = "sleep" /\ sleep[j] = 0
          BY <2>3, <3>3 DEF Wake
        <4>2. Slept(j) = Interval /\ Slept(j)' = Interval
          BY <1>b, <3>1, <4>1 DEF Slept, Sampling
        <4> QED BY <1>a, <2>1, <3>1, <4>1, <4>2, StillPaced DEF Renewing
      <3> QED BY <1>1, <2>3, <3>2, <3>3
    <2> QED BY <2>2, <2>3
  <1>2. ASSUME NEW i \in Instances, AcquireSet(i) PROVE PacedAt(j)'
    <2>1. /\ SetIfFree(i) /\ sleep' = sleep /\ pc[i] = "set"
          /\ pc' = [pc EXCEPT ![i] = IF owner = {} THEN "probe" ELSE "get"]
      BY <1>2 DEF AcquireSet, Goto
    <2>2. CASE owner = {}
      <3>1. /\ owner' = {i} /\ ttl' = Lease /\ wronged' = wronged \ {i}
            /\ belief' = [belief EXCEPT ![i] = Lease] /\ late' = [late EXCEPT ![i] = 0]
            /\ pc' = [pc EXCEPT ![i] = "probe"]
        BY <2>1, <2>2 DEF SetIfFree, Renewed
      <3>2. CASE j # i
        BY <1>a, <2>1, <3>1, <3>2, OthersPaced DEF TypeOK
      <3>3. CASE j = i
        BY <1>a, <3>1, <3>3, RenewedPaced DEF TypeOK
      <3> QED BY <3>2, <3>3
    <2>3. CASE owner # {}
      <3>1. UNCHANGED <<owner, ttl, belief, late, wronged>> /\ pc' = [pc EXCEPT ![i] = "get"]
        BY <2>1, <2>3 DEF SetIfFree
      <3>2. CASE j # i
        BY <1>a, <1>t, <2>1, <3>1, <3>2, OthersPaced DEF TypeOK
      <3>3. CASE j = i
        <4>1. pc[j] = "set" /\ pc'[j] = "get"
          BY <1>a, <2>1, <3>1, <3>3 DEF TypeOK
        <4>2. Slept(j) = Interval /\ Slept(j)' = Interval
          BY <4>1 DEF Slept, Sampling
        <4> QED BY <1>a, <3>1, <4>1, <4>2, StillPaced DEF Renewing
      <3> QED BY <3>2, <3>3
    <2> QED BY <2>2, <2>3
  <1>3. ASSUME NEW i \in Instances, AcquireGet(i) PROVE PacedAt(j)'
    <2>1. /\ UNCHANGED <<owner, ttl, belief, late, wronged>> /\ pc[i] = "get"
          /\ IF owner = {i} THEN pc' = [pc EXCEPT ![i] = "expire"] /\ sleep' = sleep
             ELSE pc' = [pc EXCEPT ![i] = "sleep"] /\ sleep' = [sleep EXCEPT ![i] = Interval]
      BY <1>3 DEF AcquireGet, Goto, ToSleep
    <2>2. CASE j # i
      <3>1. pc'[j] = pc[j] /\ sleep'[j] = sleep[j]
        BY <1>a, <2>1, <2>2 DEF TypeOK
      <3> QED BY <1>a, <1>t, <2>1, <3>1, OthersPaced
    <2>3. CASE j = i /\ owner = {i}
      <3>1. pc[j] = "get" /\ pc'[j] = "expire"
        BY <1>a, <2>1, <2>3 DEF TypeOK
      <3>2. Slept(j) = Interval /\ Slept(j)' = Interval
        BY <3>1 DEF Slept, Sampling
      <3> QED BY <1>a, <2>1, <3>1, <3>2, StillPaced DEF Renewing
    <2>4. CASE j = i /\ owner # {i}
      BY <1>a, <2>1, <2>4, AsleepPaced
    <2> QED BY <2>2, <2>3, <2>4
  <1>4. ASSUME NEW i \in Instances, AcquireExpire(i) PROVE PacedAt(j)'
    <2>1. Extend(i) /\ sleep' = sleep /\ pc' = [pc EXCEPT ![i] = "probe"]
      BY <1>4 DEF AcquireExpire, Goto
    <2>2. /\ owner' = owner
          /\ belief' = [belief EXCEPT ![i] = Lease] /\ late' = [late EXCEPT ![i] = 0]
          /\ owner = {i} => wronged' = wronged \ {i}
          /\ owner # {i} => wronged' = wronged
          /\ owner # {} => ttl' = Lease
      BY <2>1 DEF Extend, Renewed
    <2>3. CASE j # i
      <3>1. /\ pc'[j] = pc[j] /\ sleep'[j] = sleep[j] /\ belief'[j] = belief[j]
            /\ late'[j] = late[j]
        BY <1>a, <2>1, <2>2, <2>3 DEF TypeOK
      <3>2. owner' = {j} => owner = {j} /\ ttl' \in Nat /\ ttl' >= ttl /\ (j \in wronged' => j \in wronged)
        BY <1>b, <1>t, <2>2, <2>3
      <3> QED BY <1>a, <3>1, <3>2, OthersPaced
    <2>4. CASE j = i
      BY <1>a, <2>1, <2>2, <2>4, RenewedPaced DEF TypeOK
    <2> QED BY <2>3, <2>4
  <1>5. ASSUME NEW i \in Instances, Sample(i) \/ SampleDone(i) PROVE PacedAt(j)'
    <2>1. UNCHANGED <<owner, ttl, belief, late, wronged>> /\ pc[i] \in Sampling
      BY <1>5 DEF Sample, SampleDone, Sampling
    <2>2. CASE j # i
      <3>1. pc'[j] = pc[j] /\ sleep'[j] = sleep[j]
        BY <1>5, <1>a, <2>2 DEF Sample, SampleDone, Goto, ToSleep, TypeOK
      <3> QED BY <1>a, <1>t, <2>1, <3>1, OthersPaced
    <2>3. CASE j = i /\ Sample(i)
      <3>1. pc'[j] \in Sampling
        BY <1>a, <2>3 DEF Sample, Goto, Sampling, TypeOK
      <3>2. Slept(j) = 0 /\ Slept(j)' = 0
        BY <2>1, <2>3, <3>1 DEF Slept, Sampling
      <3>3. pc'[j] \notin Renewing \cup {"sleep", "down"} /\ pc[j] \in TaskPcs
        BY <2>1, <2>3, <3>1 DEF Renewing, Sampling, TaskPcs
      <3> QED BY <1>a, <2>1, <3>2, <3>3 DEF PacedAt
    <2>4. CASE j = i /\ SampleDone(i)
      <3>1. Slept(j) = 0 /\ pc[j] \in TaskPcs
        BY <2>1, <2>4 DEF Slept, TaskPcs, Sampling
      <3>2. belief[j] > 0 /\ owner = {j} =>
              \/ belief[j] < ttl
              \/ j \notin wronged /\ Lease <= belief[j] + late[j]
        BY <1>a, <1>b, <1>t, <3>1 DEF PacedAt
      <3>3. \/ owner' # {j}
            \/ belief[j] > 0 => belief[j] < ttl'
            \/ j \notin wronged' /\ late'[j] \in Nat /\ Lease <= belief[j] + late'[j]
        BY <1>b, <1>t, <2>1, <3>2
      <3>4. pc' = [pc EXCEPT ![j] = "sleep"] /\ sleep' = [sleep EXCEPT ![j] = Interval]
        BY <2>4 DEF SampleDone, ToSleep, Goto
      <3> QED BY <1>a, <2>1, <3>3, <3>4, AsleepPaced
    <2> QED BY <1>5, <2>2, <2>3, <2>4
  <1>6. ASSUME NEW i \in Instances, TickFails(i) PROVE PacedAt(j)'
    <2>1. /\ belief' = belief /\ wronged' = wronged
          /\ pc' = [pc EXCEPT ![i] = "sleep"] /\ sleep' = [sleep EXCEPT ![i] = Interval]
          /\ \A k \in Instances \ {i} : late'[k] = late[k]
      BY <1>6, <1>a DEF TickFails, ToSleep, Goto, TypeOK
    <2>2. \/ pc[i] = "set" /\ owner = {} /\ owner' = {i} /\ ttl' = Lease
          \/ pc[i] = "expire" /\ owner # {} /\ ttl' = Lease /\ owner' = owner
          \/ /\ pc[i] \in Renewing /\ UNCHANGED <<owner, ttl>>
             /\ late'[i] = IF late[i] + Interval > Lease THEN Lease ELSE late[i] + Interval
          \/ pc[i] \in Sampling /\ UNCHANGED <<owner, ttl, late>>
      BY <1>6, <1>a DEF TickFails, TypeOK
    <2>3. CASE j # i
      <3>1. pc'[j] = pc[j] /\ sleep'[j] = sleep[j] /\ late'[j] = late[j]
        BY <1>a, <2>1, <2>3 DEF TypeOK
      <3>2. owner' = {j} => owner = {j} /\ ttl' \in Nat /\ ttl' >= ttl
        BY <1>b, <1>t, <2>2, <2>3
      <3> QED BY <1>a, <2>1, <3>1, <3>2, OthersPaced
    <2>4. CASE j = i
      <3>a. \/ owner' # {j}
            \/ belief[j] > 0 => belief[j] < ttl'
            \/ j \notin wronged' /\ late'[j] \in Nat /\ Lease <= belief[j] + late'[j]
        <4>1. CASE pc[i] \in {"set", "expire"} /\ ttl' = Lease
          <5>1. Slept(j) = Interval /\ pc[j] \in Renewing
            BY <2>4, <4>1 DEF Slept, Sampling, Renewing
          <5>2. belief[j] = 0 \/ belief[j] + Interval <= Lease
            BY <1>a, <5>1 DEF PacedAt
          <5> QED BY <1>b, <1>t, <4>1, <5>2
        <4>2. CASE /\ pc[i] \in Renewing /\ UNCHANGED <<owner, ttl>>
                   /\ late'[i] = IF late[i] + Interval > Lease THEN Lease ELSE late[i] + Interval
          <5>1. Slept(j) = Interval /\ pc[j] \in TaskPcs
            BY <2>4, <4>2 DEF Slept, Sampling, Renewing, TaskPcs
          <5>2. belief[j] > 0 /\ owner = {j} =>
                  \/ belief[j] < ttl
                  \/ j \notin wronged /\ Lease <= belief[j] + late[j] + Interval
            BY <1>a, <5>1 DEF PacedAt
          <5>3. /\ late'[j] \in Nat
                /\ Lease <= belief[j] + late[j] + Interval => Lease <= belief[j] + late'[j]
            BY <1>b, <1>t, <2>4, <4>2
          <5> QED BY <1>t, <2>1, <4>2, <5>2, <5>3
        <4>3. CASE pc[i] \in Sampling /\ UNCHANGED <<owner, ttl, late>>
          <5>1. Slept(j) = 0 /\ pc[j] \in TaskPcs
            BY <2>4, <4>3 DEF Slept, TaskPcs, Sampling
          <5>2. belief[j] > 0 /\ owner = {j} =>
                  \/ belief[j] < ttl
                  \/ j \notin wronged /\ Lease <= belief[j] + late[j] + 0
            BY <1>a, <5>1 DEF PacedAt
          <5> QED BY <1>b, <1>t, <2>1, <4>3, <5>2
        <4> QED BY <2>2, <4>1, <4>2, <4>3
      <3> QED BY <1>a, <2>1, <2>4, <3>a, AsleepPaced
    <2> QED BY <2>3, <2>4
  <1>7. ASSUME NEW i \in Instances, Stop(i) PROVE PacedAt(j)'
    <2>1. /\ pc' = [pc EXCEPT ![i] = "release"] /\ sleep' = sleep
          /\ \/ UNCHANGED <<owner, ttl, belief, late, wronged>>
             \/ SetIfFree(i) \/ Extend(i)
      BY <1>7 DEF Stop, Goto
    <2>2. CASE j # i
      <3>1. pc'[j] = pc[j] /\ sleep'[j] = sleep[j]
        BY <1>a, <2>1, <2>2 DEF TypeOK
      <3>2. /\ belief'[j] = belief[j] /\ late'[j] = late[j]
            /\ owner' = {j} => owner = {j} /\ ttl' \in Nat /\ ttl' >= ttl /\ (j \in wronged' => j \in wronged)
        <4>1. CASE UNCHANGED <<owner, ttl, belief, late, wronged>>
          BY <1>t, <4>1
        <4>2. CASE SetIfFree(i)
          BY <1>a, <1>t, <2>2, <4>2 DEF SetIfFree, Renewed, TypeOK
        <4>3. CASE Extend(i)
          BY <1>a, <1>b, <1>t, <2>2, <4>3 DEF Extend, Renewed, TypeOK
        <4> QED BY <2>1, <4>1, <4>2, <4>3
      <3> QED BY <1>a, <3>1, <3>2, OthersPaced
    <2>3. CASE j = i
      <3>1. pc'[j] = "release"
        BY <1>a, <2>1, <2>3 DEF TypeOK
      <3> QED BY <3>1 DEF PacedAt, TaskPcs, Renewing, Sampling
    <2> QED BY <2>2, <2>3
  <1>8. ASSUME NEW i \in Instances, ReleaseGet(i) \/ ReleaseDelete(i) \/ Crash(i)
        PROVE  PacedAt(j)'
    <2>1. /\ \E label \in {"down", "delete"} : pc' = [pc EXCEPT ![i] = label]
          /\ sleep' = [sleep EXCEPT ![i] = 0] /\ belief' = [belief EXCEPT ![i] = 0]
          /\ late' = [late EXCEPT ![i] = 0]
      BY <1>8 DEF ReleaseGet, ReleaseDelete, Crash, Goto, Forget
    <2>2. CASE j # i
      <3>1. /\ pc'[j] = pc[j] /\ sleep'[j] = sleep[j] /\ belief'[j] = belief[j]
            /\ late'[j] = late[j]
        BY <1>a, <2>1, <2>2 DEF TypeOK
      <3>2. owner' = {j} => owner = {j} /\ ttl' \in Nat /\ ttl' >= ttl /\ (j \in wronged' => j \in wronged)
        <4>1. CASE ReleaseGet(i)
          BY <1>t, <2>2, <4>1 DEF ReleaseGet
        <4>2. CASE ReleaseDelete(i)
          BY <4>2 DEF ReleaseDelete, Delete
        <4>3. CASE Crash(i)
          <5>1. Nobody # j
            BY LeaseAssumption
          <5> QED BY <1>t, <2>2, <4>3, <5>1 DEF Crash, Orphaned
        <4> QED BY <1>8, <4>1, <4>2, <4>3
      <3> QED BY <1>a, <3>1, <3>2, OthersPaced
    <2>3. CASE j = i
      <3>1. pc'[j] \in {"down", "delete"} /\ belief'[j] = 0
        BY <1>a, <2>1, <2>3 DEF TypeOK
      <3> QED BY <3>1 DEF PacedAt, TaskPcs, Renewing, Sampling
    <2> QED BY <2>2, <2>3
  <1>9. ASSUME Second PROVE PacedAt(j)'
    <2>1. /\ ttl' = (IF ttl \in 1..Lease THEN ttl - 1 ELSE ttl)
          /\ owner' = (IF ttl = 1 THEN {} ELSE owner)
          /\ pc' = pc /\ (owner' # {} => wronged' = wronged)
          /\ sleep'[j] = (IF sleep[j] = 0 THEN 0 ELSE sleep[j] - 1)
          /\ belief'[j] = (IF belief[j] = 0 THEN 0 ELSE belief[j] - 1)
          /\ late'[j] = (IF belief[j] = 0 THEN 0
                         ELSE IF Awake(j) /\ late[j] < Lease THEN late[j] + 1 ELSE late[j])
      <3>1. ttl # 1 => {i \in Instances : owner = {i} /\ ttl = 1 /\ Relying(i)} = {}
        OBVIOUS
      <3> QED BY <1>9, <3>1 DEF Second, Less
    <2>2. /\ Slept(j) \in 0..Interval /\ Slept(j)' \in 0..Interval
          /\ Slept(j)' <= Slept(j) + 1
          /\ Slept(j)' >= Slept(j)
          /\ pc[j] \in TaskPcs /\ ~Awake(j) => Slept(j)' = Slept(j) + 1
      BY <1>b, <1>t, <2>1 DEF Slept, Awake, Sampling
    <2>3. CASE belief[j] = 0
      <3>1. belief'[j] = 0
        BY <2>1, <2>3
      <3> QED BY <3>1 DEF PacedAt
    <2>4. CASE belief[j] # 0
      <3>1. belief[j] > 0 /\ belief'[j] = belief[j] - 1
        BY <1>t, <2>1, <2>4
      <3>2. pc'[j] \in Renewing \cup {"sleep"} => belief'[j] + Slept(j)' <= Lease
        BY <1>a, <1>b, <2>1, <2>2, <3>1, <1>t DEF PacedAt
      <3>3. ASSUME belief'[j] > 0, owner' = {j}, pc'[j] \in TaskPcs
            PROVE  \/ belief'[j] < ttl'
                   \/ j \notin wronged' /\ Lease <= belief'[j] + late'[j] + Slept(j)'
        <4>1. owner = {j} /\ pc[j] \in TaskPcs /\ (ttl > 0 => ttl' = ttl - 1) /\ wronged' = wronged
          <5>1. {} # {j}
            OBVIOUS
          <5>2. ttl # 1 /\ owner = {j} /\ pc[j] \in TaskPcs
            BY <2>1, <3>3, <5>1
          <5>3. ttl > 0 => ttl \in 1..Lease
            BY <1>b, <1>t
          <5> QED BY <2>1, <3>3, <5>1, <5>2, <5>3
        <4>2. CASE belief[j] < ttl
          BY <1>t, <3>1, <4>1, <4>2
        <4>3. CASE j \notin wronged /\ Lease <= belief[j] + late[j] + Slept(j)
          <5>1. CASE Awake(j) /\ late[j] < Lease
            BY <1>b, <1>t, <2>1, <2>2, <2>4, <3>1, <4>1, <4>3, <5>1
          <5>2. CASE late[j] = Lease
            BY <1>b, <1>t, <2>1, <2>2, <2>4, <3>1, <4>1, <4>3, <5>2
          <5>3. CASE ~Awake(j)
            BY <1>b, <1>t, <2>1, <2>2, <2>4, <3>1, <4>1, <4>3, <5>3
          <5>4. late[j] < Lease \/ late[j] = Lease
            BY <1>b, <1>t
          <5> QED BY <5>1, <5>2, <5>3, <5>4
        <4> QED BY <1>a, <3>1, <4>1, <4>2, <4>3 DEF PacedAt
      <3>4. pc'[j] # "down"
        BY <1>a, <2>1, <2>4 DEF PacedAt
      <3> QED BY <3>2, <3>3, <3>4 DEF PacedAt
    <2> QED BY <2>3, <2>4
  <1>10. CASE UNCHANGED vars
    <2>1. UNCHANGED <<owner, ttl, pc, sleep, belief, late, wronged>>
      BY <1>10 DEF vars
    <2> QED BY <1>a, <1>t, <2>1, OthersPaced
  <1> QED
    BY <1>1, <1>2, <1>3, <1>4, <1>5, <1>6, <1>7, <1>8, <1>9, <1>10
    DEF Next, Step, Shutdown

LEMMA NextIInv == IInv /\ [Next]_vars => IInv'
  BY NextHeld, NextAsks, NextPaced DEF IInv, Held

\* What the run checks of two instances holds of any number: the key is the
\* sampler's for as long as it has reason to believe so, and the key of an
\* instance that was stopped is released (MonitoringSampler._acquire_lease,
\* _release_lease and stop).
THEOREM Invariant == Spec => []IInv
  <1> QED BY InitIInv, NextIInv, PTL DEF Spec

\* Two samplers write at the same time only if the tick of one of them has
\* outlived its lease or a GET was stale (MonitoringSampler._tick).
THEOREM SingleWriter == Spec => []OneWriter
  <1>1. IInv => OneWriter
    <2> SUFFICES ASSUME IInv, NEW i \in Instances, NEW j \in Instances, i # j,
                        belief[i] # 0, belief[j] # 0, {i, j} \cap wronged = {}
                 PROVE  FALSE
      BY DEF OneWriter
    <2>1. belief[i] > 0 /\ belief[j] > 0
      BY LeaseAssumption DEF IInv, TypeOK
    <2>2. owner = {i} /\ owner = {j}
      BY <2>1 DEF IInv, Owned
    <2> QED BY <2>2
  <1> QED BY Invariant, <1>1, PTL

\* What takes the lease from a leader that runs: delays and failed ticks that
\* add up to what the lease leaves beside one sleep (MonitoringSampler._loop
\* and _acquire_lease, with the lease of config/base.py).
THEOREM LeaseLostForCause == Spec => LapsesForCause
  <1>1. IInv /\ [Next]_vars =>
          [ \A i \in Instances :
              owner = {i} /\ owner' = {} /\ pc' = pc /\ belief[i] > 0 /\ pc[i] \in TaskPcs
                => late'[i] + Interval >= Lease ]_vars
    <2> SUFFICES ASSUME IInv, [Next]_vars, NEW i \in Instances, owner = {i}, owner' = {},
                        pc' = pc, belief[i] > 0, pc[i] \in TaskPcs
                 PROVE  late'[i] + Interval >= Lease
      BY DEF vars
    <2>a. TypeOK /\ Owned /\ PacedAt(i) /\ Lease \in Nat \ {0} /\ Interval \in Nat \ {0}
      BY LeaseAssumption DEF IInv, Paced
    <2>t. /\ belief[i] \in 0..Lease /\ late[i] \in 0..Lease /\ sleep[i] \in 0..Interval
          /\ ttl \in 0..Lease
      BY <2>a DEF TypeOK
    <2>1. Second
      <3>1. ASSUME NEW j \in Instances,
                   Start(j) \/ Step(j) \/ TickFails(j) \/ Crash(j) \/ Stop(j) \/ Shutdown(j)
            PROVE  pc'[j] # pc[j]
        <4>1. ASSUME NEW k \in Pcs, pc' = [pc EXCEPT ![j] = k] PROVE pc'[j] = k
          BY <2>a, <4>1 DEF TypeOK
        <4>2. CASE Start(j) \/ Wake(j) \/ AcquireSet(j) \/ AcquireGet(j) \/ AcquireExpire(j)
          BY <2>a, <4>2 DEF Start, Wake, AcquireSet, AcquireGet, AcquireExpire, Goto, ToSleep, TypeOK
        <4>3. CASE Sample(j) \/ SampleDone(j)
          BY <2>a, <4>3 DEF Sample, SampleDone, Goto, ToSleep, TypeOK
        <4>4. CASE TickFails(j)
          BY <2>a, <4>4 DEF TickFails, ToSleep, Goto, TypeOK, Renewing, Sampling
        <4>5. CASE Crash(j) \/ Shutdown(j)
          BY <2>a, <4>5 DEF Crash, Shutdown, ReleaseGet, ReleaseDelete, Goto, TypeOK
        <4>6. CASE Stop(j)
          BY <2>a, <4>6 DEF Stop, Goto, TypeOK, TaskPcs, Renewing, Sampling
        <4> QED BY <3>1, <4>2, <4>3, <4>4, <4>5, <4>6 DEF Step
      <3> QED BY <3>1 DEF Next, vars
    <2>2. /\ ttl = 1
          /\ late'[i] = IF Awake(i) /\ late[i] < Lease THEN late[i] + 1 ELSE late[i]
      BY <2>1, <2>t DEF Second
    <2>3. i \notin wronged /\ Lease <= belief[i] + late[i] + Slept(i)
      BY <2>2, <2>t, <2>a DEF PacedAt
    <2>4. belief[i] = 1
      BY <2>2, <2>3, <2>t, <2>a DEF Owned
    <2>5. /\ Slept(i) \in 0..Interval
          /\ ~Awake(i) => Slept(i) < Interval
      BY <2>a, <2>t DEF Slept, Awake, Sampling
    <2> QED BY <2>a, <2>t, <2>2, <2>3, <2>4, <2>5
  <1> QED BY Invariant, <1>1, PTL DEF Spec, LapsesForCause

=============================================================================
