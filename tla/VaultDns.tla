-------------------------------- MODULE VaultDns --------------------------------
(***************************************************************************)
(* The DNS records of the Vault instances, one weighted record for each.    *)
(* updateRoute53/index.py creates and deletes them on the notifications of  *)
(* the AutoScaling group; monitors/chk_vault.py probes the instances every  *)
(* two minutes, sets the weights and reports the sick ones to the group.    *)
(* Neither knows of the other.                                              *)
(***************************************************************************)
EXTENDS Integers

CONSTANTS Instances,   \* instance ids, each used once
          Tries,       \* deliveries of a notification before it is dropped
          MaxFaults    \* bound: invocations that die

ASSUME DnsConstants ==
    Tries \in Nat \ {0} /\ MaxFaults \in Nat /\ "nobody" \notin Instances

VARIABLES state,    \* of the instance
          health,   \* what /v1/sys/health would answer
          marked,   \* the group takes the instance for unhealthy
          weight,   \* of the record of the instance
          mail,     \* deliveries left for each notification
          named,    \* LAUNCH handler: PrivateDnsName as described
          found,    \* TERMINATE handler: the record as listed
          sweep,    \* the monitor
          faults,   \* invocations that died, and those for each TERMINATE among them
          prompt     \* assumed of a behaviour: no instance goes while a handler or
                     \* the monitor is at it

vars == <<state, health, marked, weight, mail, named, found, sweep, faults, prompt>>
asg == <<state, health, marked, prompt>>

NoRecord == -1
NORMAL == 1
SICK == 0
NoLookup == -2
Kinds == {"launch", "terminate"}
Idle == [todo |-> {}, at |-> "nobody", verdict |-> NoRecord]

\* "active" answers 200 or, in standby, 429.  Code 500, sealed or not initialized, is
\* taken for healthy too.
Passes(h) == h \in {"active", "sealed"}
Health == {"active", "sealed", "failing"}

Init ==
    /\ state = [i \in Instances |-> "new"]
    /\ health = [i \in Instances |-> "failing"]
    /\ marked = [i \in Instances |-> FALSE]
    /\ weight = [i \in Instances |-> NoRecord]
    /\ mail = [k \in Kinds |-> [i \in Instances |-> 0]]
    /\ named = [i \in Instances |-> "idle"]
    /\ found = [i \in Instances |-> NoLookup]
    /\ sweep = Idle
    /\ faults = [all |-> 0, terminate |-> [i \in Instances |-> 0]]
    /\ prompt \in BOOLEAN

--------------------------------------------------------------------------------
\* The AutoScaling group and its instances.
Send(kind, i) == mail' = [mail EXCEPT ![kind][i] = Tries]

Launch(i) ==
    /\ state[i] = "new"
    /\ state' = [state EXCEPT ![i] = "running"]
    /\ Send("launch", i)
    /\ UNCHANGED <<health, marked, weight, named, found, sweep, faults, prompt>>

\* EC2_INSTANCE_LAUNCH_ERROR is handled the way TERMINATE is.
LaunchError(i) ==
    /\ state[i] = "new"
    /\ state' = [state EXCEPT ![i] = "gone"]
    /\ Send("terminate", i)
    /\ UNCHANGED <<health, marked, weight, named, found, sweep, faults, prompt>>

InUse(i) == named[i] # "idle" \/ i \in sweep.todo

Terminate(i) ==
    /\ state[i] = "running" /\ (prompt => ~ InUse(i))
    /\ state' = [state EXCEPT ![i] = "gone"]
    /\ Send("terminate", i)
    /\ UNCHANGED <<health, marked, weight, named, found, sweep, faults, prompt>>

Replace(i) == marked[i] /\ Terminate(i)

Change(i) ==
    /\ state[i] = "running"
    /\ \E h \in Health \ {health[i]} : health' = [health EXCEPT ![i] = h]
    /\ UNCHANGED <<state, marked, weight, mail, named, found, sweep, faults, prompt>>

--------------------------------------------------------------------------------
\* updateRoute53.  A failed invocation is repeated while there are tries left; one
\* that timed out after its change was made is repeated as well.
Fail(kind, i) == mail' = [mail EXCEPT ![kind][i] = @ - 1]
Succeed(kind, i) == mail' \in {[mail EXCEPT ![kind][i] = 0], [mail EXCEPT ![kind][i] = @ - 1]}

DescribeStale(i) ==
    /\ mail["launch"][i] > 0 /\ named[i] = "idle"
    /\ named' = [named EXCEPT ![i] = "name"]
    /\ UNCHANGED <<asg, weight, mail, found, sweep, faults>>

\* PrivateDnsName is empty once the instance is gone.
Describe(i) ==
    /\ mail["launch"][i] > 0 /\ named[i] = "idle"
    /\ named' = [named EXCEPT ![i] = IF state[i] = "running" THEN "name" ELSE "empty"]
    /\ UNCHANGED <<asg, weight, mail, found, sweep, faults>>

CreateAlways(i) ==
    /\ named[i] # "idle"
    /\ named' = [named EXCEPT ![i] = "idle"]
    /\ weight' = [weight EXCEPT ![i] = NORMAL]
    /\ Succeed("launch", i)
    /\ UNCHANGED <<asg, found, sweep, faults>>

\* CREATE fails when the record exists, and without a value.
Create(i) ==
    /\ named[i] # "idle"
    /\ named' = [named EXCEPT ![i] = "idle"]
    /\ IF named[i] = "name" /\ weight[i] = NoRecord
       THEN weight' = [weight EXCEPT ![i] = NORMAL] /\ Succeed("launch", i)
       ELSE Fail("launch", i) /\ UNCHANGED weight
    /\ UNCHANGED <<asg, found, sweep, faults>>

LookUp(i) ==
    /\ mail["terminate"][i] > 0 /\ found[i] = NoLookup
    /\ found' = [found EXCEPT ![i] = weight[i]]
    /\ UNCHANGED <<asg, weight, mail, named, sweep, faults>>

\* DELETE has to give the record as it is.
Delete(i) ==
    /\ found[i] # NoLookup
    /\ found' = [found EXCEPT ![i] = NoLookup]
    /\ IF found[i] # NoRecord /\ found[i] = weight[i]
       THEN weight' = [weight EXCEPT ![i] = NoRecord] /\ Succeed("terminate", i)
       ELSE Fail("terminate", i) /\ UNCHANGED weight
    /\ UNCHANGED <<asg, named, sweep, faults>>

\* An invocation ends before its change.
HandlerDies(i) ==
    /\ faults.all < MaxFaults
    /\ \/ /\ named[i] # "idle" /\ Fail("launch", i)
          /\ named' = [named EXCEPT ![i] = "idle"] /\ UNCHANGED found
          /\ faults' = [faults EXCEPT !.all = @ + 1]
       \/ /\ found[i] # NoLookup /\ Fail("terminate", i)
          /\ found' = [found EXCEPT ![i] = NoLookup] /\ UNCHANGED named
          /\ faults' = [faults EXCEPT !.all = @ + 1, !.terminate[i] = @ + 1]
    /\ UNCHANGED <<asg, weight, sweep>>

--------------------------------------------------------------------------------
\* chk_vault.  The instances of the snapshot are taken one after the other; an
\* instance without a PrivateIpAddress is passed over.
StartSweep ==
    /\ sweep = Idle
    /\ sweep' = [Idle EXCEPT !.todo = {i \in Instances : state[i] = "running"}]
    /\ UNCHANGED <<asg, weight, mail, named, found, faults>>

NoAddress(i) ==
    /\ i \in sweep.todo /\ sweep.at = "nobody" /\ state[i] = "gone"
    /\ sweep' = [sweep EXCEPT !.todo = @ \ {i}]
    /\ UNCHANGED <<asg, weight, mail, named, found, faults>>

ProbeWithoutReport(i) ==
    /\ i \in sweep.todo /\ sweep.at = "nobody"
    /\ sweep' = [sweep EXCEPT !.at = i, !.verdict = IF Passes(health[i]) THEN NORMAL ELSE SICK]
    /\ UNCHANGED <<asg, weight, mail, named, found, faults>>

ProbeSkipsSealed(i) ==
    /\ i \in sweep.todo /\ sweep.at = "nobody"
    /\ sweep' = IF health[i] = "sealed"
                THEN [sweep EXCEPT !.todo = @ \ {i}]
                ELSE [sweep EXCEPT !.at = i, !.verdict = IF Passes(health[i]) THEN NORMAL ELSE SICK]
    /\ marked' \in {marked, [marked EXCEPT ![i] = @ \/ ~ Passes(health[i])]}
    /\ UNCHANGED <<state, health, weight, mail, named, found, faults, prompt>>

\* A sick instance is reported before its record is touched.  The group ignores the
\* report in the grace period of the instance, and refuses one about an instance it
\* no longer has, which ends the sweep.
Probe(i) ==
    /\ i \in sweep.todo /\ sweep.at = "nobody"
    /\ \/ /\ state[i] = "running" /\ Passes(health[i])
          /\ sweep' = [sweep EXCEPT !.at = i, !.verdict = NORMAL]
          /\ UNCHANGED marked
       \/ /\ state[i] = "running" /\ ~ Passes(health[i])
          /\ sweep' = [sweep EXCEPT !.at = i, !.verdict = SICK]
          /\ marked' \in {marked, [marked EXCEPT ![i] = TRUE]}
       \/ /\ state[i] = "gone"
          /\ sweep' = Idle /\ UNCHANGED marked
    /\ UNCHANGED <<state, health, weight, mail, named, found, faults, prompt>>

Report(i) == Probe(i) /\ marked'[i]

\* UPSERT, with the PrivateDnsName of the snapshot.
Upsert(i) ==
    /\ sweep.at = i
    /\ weight' = [weight EXCEPT ![i] = sweep.verdict]
    /\ sweep' = [Idle EXCEPT !.todo = sweep.todo \ {i}]
    /\ UNCHANGED <<asg, mail, named, found, faults>>

SweepDies ==
    /\ sweep # Idle /\ faults.all < MaxFaults
    /\ faults' = [faults EXCEPT !.all = @ + 1]
    /\ sweep' = Idle
    /\ UNCHANGED <<asg, weight, mail, named, found>>

Group(i) == Launch(i) \/ LaunchError(i) \/ Terminate(i) \/ Change(i)
Handler(i) == Describe(i) \/ Create(i) \/ LookUp(i) \/ Delete(i)
Monitor(i) == NoAddress(i) \/ Probe(i) \/ Upsert(i)

Next ==
    \/ StartSweep \/ SweepDies
    \/ \E i \in Instances : Group(i) \/ Handler(i) \/ HandlerDies(i) \/ Monitor(i)

Fairness ==
    /\ WF_vars(StartSweep)
    /\ \A i \in Instances :
          /\ WF_vars(Monitor(i)) /\ SF_vars(Report(i))
          /\ WF_vars(Handler(i))
          /\ SF_vars(Replace(i))

Spec == Init /\ [][Next]_vars
FairSpec == Spec /\ Fairness

--------------------------------------------------------------------------------
\* Besides the types: a handler runs for a notification, and the monitor is at an
\* instance of its snapshot.
TypeOK ==
    /\ state \in [Instances -> {"new", "running", "gone"}]
    /\ health \in [Instances -> Health] /\ marked \in [Instances -> BOOLEAN]
    /\ weight \in [Instances -> {NoRecord, SICK, NORMAL}]
    /\ mail \in [Kinds -> [Instances -> 0 .. Tries]]
    /\ named \in [Instances -> {"idle", "name", "empty"}]
    /\ found \in [Instances -> {NoLookup, NoRecord, SICK, NORMAL}]
    /\ sweep.todo \subseteq Instances
    /\ sweep.at = "nobody" <=> sweep.verdict = NoRecord
    /\ sweep.at # "nobody" => sweep.at \in sweep.todo
    /\ \A i \in Instances : /\ named[i] # "idle" => mail["launch"][i] > 0
                            /\ found[i] # NoLookup => mail["terminate"][i] > 0
    /\ faults \in [all : 0 .. MaxFaults, terminate : [Instances -> Nat]]
    /\ prompt \in BOOLEAN

\* chk_vault.py: an instance that is sick "gets no traffic, while waiting for the ASG to terminate": late,
\* repeated and duplicated notifications included, only a probe that passed gives a
\* record its weight back.
SickGetsNoTraffic ==
    [][\A i \in Instances :
        (weight[i] = SICK /\ weight'[i] = NORMAL) => (sweep.at = i /\ sweep.verdict = NORMAL)]_vars

\* An instance does not stay without traffic: it recovers or it is replaced.
OutOfServiceEnds ==
    \A i \in Instances :
        (state[i] = "running" /\ weight[i] = SICK) ~> (weight[i] = NORMAL \/ state[i] = "gone")

\* An instance that is well for good is resolved for good, whatever became of the
\* notification of its launch.
HealthyIsResolved ==
    \A i \in Instances :
        <>[](state[i] = "running" /\ Passes(health[i])) => <>[](weight[i] = NORMAL)

\* The TERMINATE of an instance is dropped when each of its deliveries was one to an
\* invocation that died.
Dropped(i) == faults.terminate[i] >= Tries

\* The record of an instance that the group terminated goes away for good, with two
\* exceptions; nobody deletes again after them.  An instance goes while a handler or
\* the monitor is at it (not prompt): the UPSERT or a CREATE may come after the DELETE.
\* Or its notification is dropped: then the record stays as it was.
GoneIsForgotten ==
    \A i \in Instances :
        prompt /\ <>(state[i] = "gone") => <>[](weight[i] = NoRecord) \/ <>Dropped(i)

================================================================================
