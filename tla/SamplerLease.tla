---------------------------- MODULE SamplerLease ----------------------------
(***************************************************************************)
(* The leader lease of MonitoringSampler: of all instances only the owner  *)
(* of the Redis key monitor:sampler:leader samples.  A tick takes the key  *)
(* (SET NX EX), or finds that it is its own (GET) and extends it (EXPIRE); *)
(* then it probes the database, appends, publishes and retains the sample. *)
(* Every command is a step of its own: time passes, other instances act    *)
(* and the shutdown arrives between any two of them.                       *)
(*                                                                         *)
(* GET and EXPIRE, and GET and DELETE, are separate commands: the key may  *)
(* lapse and be taken by another instance in between.  `wronged' names the *)
(* instances that go by a GET their key has not outlived, and those whose  *)
(* key such an instance has deleted; nobody else.                          *)
(*                                                                         *)
(* Commands are executed in the order they are sent; Redis keeps the key   *)
(* over a restart of its own (appendonly in docker-compose.yml).           *)
(***************************************************************************)
EXTENDS Naturals, FiniteSets

CONSTANTS
  Instances,  \* processes that run a sampler
  Nobody,     \* the instance id of a process that has died: ids are new at each start
  Lease,      \* monitoring_sampler_leader_lease_seconds
  Interval,   \* monitoring_db_sample_interval_seconds
  MaxFaults   \* bound: commands that fail, crashes

ASSUME LeaseAssumption ==
  /\ Nobody \notin Instances
  /\ Lease \in Nat \ {0} /\ Interval \in Nat \ {0} /\ MaxFaults \in Nat

VARIABLES
  owner,      \* value of the key; {} when there is none
  ttl,        \* seconds the key has left
  pc,         \* the await an instance is in
  sleep,      \* seconds of asyncio.sleep it has left
  belief,     \* seconds for which it may take itself for the owner
  late,       \* seconds since its last renewal that are not its regular sleep
  wronged,    \* instances whose GET is stale, or whose key fell to such a GET
  faults

vars == <<owner, ttl, pc, sleep, belief, late, wronged, faults>>

Renewing == {"set", "get", "expire"}
Sampling == {"probe", "append", "publish", "retain", "trim"}
TaskPcs  == Renewing \cup Sampling \cup {"sleep"}
Pcs      == TaskPcs \cup {"down", "release", "delete"}

\* One key: a set of at most one instance id.
Owners == {{}} \cup {{i} : i \in Instances \cup {Nobody}}

Init ==
  /\ owner = {} /\ ttl = 0
  /\ pc = [i \in Instances |-> "down"]
  /\ sleep = [i \in Instances |-> 0]
  /\ belief = [i \in Instances |-> 0]
  /\ late = [i \in Instances |-> 0]
  /\ wronged = {} /\ faults = 0

-----------------------------------------------------------------------------
Goto(i, label) == pc' = [pc EXCEPT ![i] = label]

\* The loop goes to sleep after every tick, however it ended.
ToSleep(i) ==
  /\ Goto(i, "sleep")
  /\ sleep' = [sleep EXCEPT ![i] = Interval]

\* The key is instance i's own again, for a whole lease.
Renewed(i) ==
  /\ ttl' = Lease
  /\ belief' = [belief EXCEPT ![i] = Lease]
  /\ late' = [late EXCEPT ![i] = 0]
  /\ wronged' = wronged \ {i}

\* Fault: SET without NX.
SetAlways(i) == owner' = {i} /\ Renewed(i)

\* Fault: SET without EX, a lease that never lapses.
SetForever(i) ==
  IF owner = {}
  THEN /\ owner' = {i} /\ ttl' = Lease + 1
       /\ belief' = [belief EXCEPT ![i] = Lease]
       /\ late' = [late EXCEPT ![i] = 0]
       /\ wronged' = wronged \ {i}
  ELSE UNCHANGED <<owner, ttl, belief, late, wronged>>

\* Redis: SET key id NX EX lease.
SetIfFree(i) ==
  IF owner = {} THEN owner' = {i} /\ Renewed(i)
                ELSE UNCHANGED <<owner, ttl, belief, late, wronged>>

\* Fault: the leader does not extend its lease.
ExtendNothing(i) ==
  /\ belief' = [belief EXCEPT ![i] = Lease]
  /\ late' = [late EXCEPT ![i] = 0]
  /\ wronged' = wronged \ {i}
  /\ UNCHANGED <<owner, ttl>>

\* Redis: EXPIRE key lease, whosever key it is by now; nothing without a key.
\* The sampler does not look at the answer.
Extend(i) ==
  /\ UNCHANGED owner
  /\ IF owner = {i} THEN Renewed(i)
     ELSE /\ ttl' = IF owner = {} THEN 0 ELSE Lease
          /\ belief' = [belief EXCEPT ![i] = Lease]
          /\ late' = [late EXCEPT ![i] = 0]
          /\ UNCHANGED wronged

\* Redis: DELETE key, whosever key it is by now.
Delete(i) ==
  /\ owner' = {} /\ ttl' = 0
  /\ wronged' = IF i \in wronged THEN (wronged \ {i}) \cup ((owner \ {i}) \cap Instances)
                ELSE wronged

\* An id of a process that has ended owns the key from here on.
Orphaned(i) == owner' = IF owner = {i} THEN {Nobody} ELSE owner

-----------------------------------------------------------------------------
(* The lifespan starts a sampler; its first tick begins at once.           *)
Start(i) ==
  /\ pc[i] = "down"
  /\ Goto(i, "set")
  /\ UNCHANGED <<owner, ttl, sleep, belief, late, wronged, faults>>

Wake(i) ==
  /\ pc[i] = "sleep" /\ sleep[i] = 0
  /\ Goto(i, "set")
  /\ UNCHANGED <<owner, ttl, sleep, belief, late, wronged, faults>>

AcquireSet(i) ==
  /\ pc[i] = "set"
  /\ SetIfFree(i)
  /\ Goto(i, IF owner = {} THEN "probe" ELSE "get")
  /\ UNCHANGED <<sleep, faults>>

AcquireGet(i) ==
  /\ pc[i] = "get"
  /\ IF owner = {i} THEN Goto(i, "expire") /\ UNCHANGED sleep
                    ELSE ToSleep(i)
  /\ UNCHANGED <<owner, ttl, belief, late, wronged, faults>>

AcquireExpire(i) ==
  /\ pc[i] = "expire"
  /\ Extend(i)
  /\ Goto(i, "probe")
  /\ UNCHANGED <<sleep, faults>>

(* The sample is taken and written: probe.sample, XADD, PUBLISH, ZADD and  *)
(* ZREMRANGEBYSCORE, none of which asks for the lease again.               *)
Sample(i) ==
  /\ \E step \in {<<"probe", "append">>, <<"append", "publish">>,
                  <<"publish", "retain">>, <<"retain", "trim">>} :
       pc[i] = step[1] /\ Goto(i, step[2])
  /\ UNCHANGED <<owner, ttl, sleep, belief, late, wronged, faults>>

SampleDone(i) ==
  /\ pc[i] = "trim"
  /\ ToSleep(i)
  /\ UNCHANGED <<owner, ttl, belief, late, wronged, faults>>

(* A command fails, before or after Redis has executed it; _tick or _loop  *)
(* logs it and the loop sleeps.                                            *)
TickFails(i) ==
  /\ faults < MaxFaults /\ faults' = faults + 1
  /\ \/ /\ pc[i] = "set" /\ owner = {}       \* executed, the answer is lost
        /\ owner' = {i} /\ ttl' = Lease
        /\ UNCHANGED <<belief, late, wronged>>
     \/ /\ pc[i] = "expire" /\ owner # {}
        /\ ttl' = Lease
        /\ UNCHANGED <<owner, belief, late, wronged>>
     \/ /\ pc[i] \in Renewing
        /\ late' = [late EXCEPT ![i] = IF @ + Interval > Lease THEN Lease ELSE @ + Interval]
        /\ UNCHANGED <<owner, ttl, belief, wronged>>
     \/ /\ pc[i] \in Sampling
        /\ UNCHANGED <<owner, ttl, belief, late, wronged>>
  /\ ToSleep(i)

-----------------------------------------------------------------------------
(* The shutdown cancels the task at whatever it awaits; a command that was *)
(* sent may have been executed.                                            *)
Stop(i) ==
  /\ pc[i] \in TaskPcs
  /\ Goto(i, "release")
  /\ \/ UNCHANGED <<owner, ttl, belief, late, wronged>>
     \/ pc[i] = "set" /\ SetIfFree(i)
     \/ pc[i] = "expire" /\ Extend(i)
  /\ UNCHANGED <<sleep, faults>>

\* A sampler that has ended, or is about to, does not sample.
Forget(i) ==
  /\ sleep' = [sleep EXCEPT ![i] = 0]
  /\ belief' = [belief EXCEPT ![i] = 0]
  /\ late' = [late EXCEPT ![i] = 0]

\* Fault: the key is deleted without having been asked for.
ReleaseUnasked(i) ==
  /\ pc[i] = "release"
  /\ Goto(i, "delete")
  /\ Forget(i) /\ wronged' = wronged \ {i}
  /\ UNCHANGED <<owner, ttl, faults>>

ReleaseGet(i) ==
  /\ pc[i] = "release"
  /\ IF owner = {i} THEN Goto(i, "delete") ELSE Goto(i, "down")
  /\ Forget(i) /\ wronged' = wronged \ {i}
  /\ UNCHANGED <<owner, ttl, faults>>

ReleaseDelete(i) ==
  /\ pc[i] = "delete"
  /\ Delete(i) /\ Forget(i)
  /\ Goto(i, "down")
  /\ UNCHANGED faults

(* GET or DELETE raises out of stop and ends the lifespan's shutdown; or   *)
(* the process dies, at any point.                                         *)
Crash(i) ==
  /\ pc[i] # "down"
  /\ faults < MaxFaults /\ faults' = faults + 1
  /\ Goto(i, "down") /\ Forget(i) /\ wronged' = wronged \ {i}
  /\ Orphaned(i)
  /\ UNCHANGED ttl

-----------------------------------------------------------------------------
\* An instance that is not asleep, or should have woken up, is late.
Awake(i) == pc[i] \in TaskPcs /\ (pc[i] # "sleep" \/ sleep[i] = 0)

Less(f) == [i \in Instances |-> IF f[i] = 0 THEN 0 ELSE f[i] - 1]

\* Between a GET that found the instance's own key and what it sends next.
Relying(i) == pc[i] \in {"expire", "delete"}

(* A second passes, wherever the instances are.                            *)
Second ==
  /\ ttl' = IF ttl \in 1..Lease THEN ttl - 1 ELSE ttl
  /\ owner' = IF ttl = 1 THEN {} ELSE owner
  /\ sleep' = Less(sleep)
  /\ belief' = Less(belief)
  /\ late' = [i \in Instances |->
                IF belief[i] = 0 THEN 0
                ELSE IF Awake(i) /\ late[i] < Lease THEN late[i] + 1 ELSE late[i]]
  /\ wronged' = wronged \cup {i \in Instances : owner = {i} /\ ttl = 1 /\ Relying(i)}
  /\ UNCHANGED <<pc, faults>>

Step(i) ==
  \/ Wake(i) \/ AcquireSet(i) \/ AcquireGet(i) \/ AcquireExpire(i)
  \/ Sample(i) \/ SampleDone(i)

Shutdown(i) == ReleaseGet(i) \/ ReleaseDelete(i)

Next ==
  \/ \E i \in Instances : Start(i) \/ Step(i) \/ TickFails(i) \/ Crash(i)
                          \/ Stop(i) \/ Shutdown(i)
  \/ Second

(* The event loop runs every task that is ready, commands are answered or  *)
(* fail, and time goes on.                                                 *)
Fairness == WF_vars(Second) /\ \A i \in Instances : WF_vars(Step(i)) /\ WF_vars(Shutdown(i))

Spec == Init /\ [][Next]_vars /\ Fairness

-----------------------------------------------------------------------------
(* Types; the key has an owner as long as it has time left.                *)
TypeOK ==
  /\ owner \in Owners
  /\ ttl \in 0..Lease /\ (ttl = 0 <=> owner = {})
  /\ pc \in [Instances -> Pcs]
  /\ sleep \in [Instances -> 0..Interval]
  /\ belief \in [Instances -> 0..Lease]
  /\ late \in [Instances -> 0..Lease]
  /\ wronged \subseteq Instances
  /\ faults \in 0..MaxFaults

(* For a whole lease after it was taken or extended (_acquire_lease), the  *)
(* key is the sampler's: no second instance is let in, unless the key of   *)
(* the one or the other lapsed between a GET and the EXPIRE or DELETE that *)
(* relies on it (sampler.py:60-63 and 68-71).                              *)
Owned ==
  \A i \in Instances :
    belief[i] > 0 /\ i \notin wronged => owner = {i} /\ belief[i] <= ttl

(* Nobody extends or deletes a key that it has not just found to be its    *)
(* own, and what makes the GET stale in between is a lapse of the key or   *)
(* another instance's stale GET, never a SET or a release (sampler.py:61   *)
(* and 69).                                                                *)
AsksFirst == \A i \in Instances : Relying(i) /\ i \notin wronged => owner = {i}

(* Two instances write the same period only when the tick of one of them   *)
(* outlived its lease, or its key lapsed or was deleted between a GET and  *)
(* what relied on it: the lease is not asked for again before XADD,        *)
(* PUBLISH and ZADD (sampler.py:75-89).  That those two do happen is how   *)
(* the code is; this is that nothing else lets a second writer in.         *)
OneWriter ==
  \A i, j \in Instances :
    i # j /\ pc[i] \in Sampling /\ pc[j] \in Sampling
      => belief[i] = 0 \/ belief[j] = 0 \/ {i, j} \cap wronged # {}

(* A sampler that is stopped leaves no lease behind (stop cancels the task *)
(* before it releases): the next leader need not wait for the lease to     *)
(* lapse, unless a process has died.                                       *)
OwnerLives == \A i \in Instances : owner = {i} => pc[i] # "down"

\* The part of its regular sleep that has passed since it sampled last.
Slept(i) == CASE pc[i] \in Sampling -> 0
              [] pc[i] = "sleep"     -> Interval - sleep[i]
              [] OTHER               -> Interval

(* The time since the last renewal is the lease that has been used up, and *)
(* no more of it than late and one sleep, unless the key has been extended *)
(* since: by the sampler itself, whose command was executed and not        *)
(* answered, or by an instance that EXPIRE misled.                         *)
PacedAt(i) ==
  /\ pc[i] = "down" => belief[i] = 0
  /\ pc[i] \in Renewing \cup {"sleep"} => belief[i] = 0 \/ belief[i] + Slept(i) <= Lease
  /\ belief[i] > 0 /\ owner = {i} /\ pc[i] \in TaskPcs =>
       \/ belief[i] < ttl
       \/ i \notin wronged /\ Lease <= belief[i] + late[i] + Slept(i)

Paced == \A i \in Instances : PacedAt(i)

(* What holds the lease together, as an inductive invariant.               *)
IInv == TypeOK /\ Owned /\ AsksFirst /\ OwnerLives /\ Paced

(* A leader that runs loses its lease only by delays and failures that add *)
(* up to what the lease leaves beside one sleep.  A failed tick costs an   *)
(* interval, so a leader that is delayed by nothing else survives one if   *)
(* lease > 2 * interval; lease = 2 * interval, which the description of    *)
(* the setting allows (config/base.py:224), loses the key to a single one. *)
LapsesForCause ==
  [][ \A i \in Instances :
        owner = {i} /\ owner' = {} /\ pc' = pc /\ belief[i] > 0 /\ pc[i] \in TaskPcs
          => late'[i] + Interval >= Lease ]_vars

(* Once instances are neither started nor stopped any more and one of them *)
(* runs, samples are taken again and again: a leader that is gone is       *)
(* replaced when its lease has lapsed.                                     *)
TakenOver ==
  (\E running \in SUBSET Instances \ {{}} :
     <>[](running = {i \in Instances : pc[i] \in TaskPcs}))
  => []<>(\E i \in Instances : pc[i] = "trim")

=============================================================================
