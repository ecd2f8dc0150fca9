------------------------------ MODULE LambdaProofs ------------------------------
(***************************************************************************)
(* The lambdas with a state or a loop of their own.  Of the records of the  *)
(* Vault instances, for any number of instances, deliveries and dying       *)
(* invocations: the types of what handlers and monitor hold, and that a     *)
(* sick instance does not get its traffic back by a notification.  Of       *)
(* filling an upload queue, for any job, batch size and number of mishaps:  *)
(* that the lambdas begin where the walk over all tiles would be, and that  *)
(* the queue ends with every tile once, counted truly.                      *)
(***************************************************************************)
EXTENDS VaultDns, IngestPopulate, SequenceTheorems, FiniteSetTheorems, WellFoundedInduction, TLAPS

--------------------------------------------------------------------------------
(***************************************************************************)
(* The records of the Vault instances: the invariant.                       *)
(***************************************************************************)
Weights == {NoRecord, SICK, NORMAL}
Sweep == [todo : SUBSET Instances, at : Instances \cup {"nobody"}, verdict : Weights]

\* The monitor at an instance of its snapshot has a verdict, and no other time.
Sweeping ==
    /\ sweep \in Sweep
    /\ sweep.at = "nobody" <=> sweep.verdict = NoRecord
    /\ sweep.at # "nobody" => sweep.at \in sweep.todo

\* The group and its instances.
AsgTypes ==
    /\ state \in [Instances -> {"new", "running", "gone"}]
    /\ health \in [Instances -> Health] /\ marked \in [Instances -> BOOLEAN]
    /\ prompt \in BOOLEAN

\* What the two handlers hold between their two calls.
HandlerTypes ==
    /\ mail \in [Kinds -> [Instances -> 0 .. Tries]]
    /\ named \in [Instances -> {"idle", "name", "empty"}]
    /\ found \in [Instances -> {NoLookup, NoRecord, SICK, NORMAL}]

\* A handler runs for a notification that has a delivery left.
Delivering ==
    \A i \in Instances : /\ named[i] # "idle" => mail["launch"][i] > 0
                         /\ found[i] # NoLookup => mail["terminate"][i] > 0

\* The invocations that died.
Faults == [all : 0 .. MaxFaults, terminate : [Instances -> Nat]]

IInv ==
    /\ AsgTypes /\ HandlerTypes /\ Delivering /\ Sweeping
    /\ weight \in [Instances -> Weights] /\ faults \in Faults

--------------------------------------------------------------------------------
\* A notification and how often it is still delivered.
LEMMA Mailing ==
    ASSUME HandlerTypes, NEW kind \in Kinds, NEW i \in Instances, NEW n \in 0 .. Tries,
           mail' = [mail EXCEPT ![kind][i] = n]
    PROVE  /\ mail' \in [Kinds -> [Instances -> 0 .. Tries]]
           /\ mail'[kind][i] = n
           /\ \A k \in Kinds, j \in Instances :
                (k # kind \/ j # i) => mail'[k][j] = mail[k][j]
<1>1. mail \in [Kinds -> [Instances -> 0 .. Tries]]
  BY DEF HandlerTypes
<1>2. mail' = [mail EXCEPT ![kind] = [mail[kind] EXCEPT ![i] = n]]
  OBVIOUS
<1>3. [mail[kind] EXCEPT ![i] = n] \in [Instances -> 0 .. Tries]
  BY <1>1
<1> QED BY <1>1, <1>2, <1>3

\* A delivery is used up, whether its handler succeeded, failed or died.
LEMMA UsedUp ==
    ASSUME IInv, NEW kind \in Kinds, NEW i \in Instances, mail[kind][i] > 0,
           Fail(kind, i) \/ Succeed(kind, i)
    PROVE  /\ mail' \in [Kinds -> [Instances -> 0 .. Tries]]
           /\ \A k \in Kinds, j \in Instances :
                (k # kind \/ j # i) => mail'[k][j] = mail[k][j]
<1>1. mail \in [Kinds -> [Instances -> 0 .. Tries]] /\ Tries \in Nat
  BY DnsConstants DEF IInv, HandlerTypes
<1>2. mail[kind][i] \in 0 .. Tries
  BY <1>1
<1>3. mail[kind][i] - 1 \in 0 .. Tries /\ 0 \in 0 .. Tries
  BY <1>1, <1>2
<1>4. PICK n \in 0 .. Tries : mail' = [mail EXCEPT ![kind][i] = n]
  BY <1>3 DEF Fail, Succeed
<1> QED BY <1>4, Mailing, ZenonT(60) DEF IInv

\* A death is counted, and for the notification it was about.
LEMMA OneMoreDies ==
    ASSUME faults \in Faults, faults.all < MaxFaults
    PROVE  /\ [faults EXCEPT !.all = @ + 1] \in Faults
           /\ \A i \in Instances :
                [faults EXCEPT !.all = @ + 1, !.terminate[i] = @ + 1] \in Faults
<1>1. faults.all + 1 \in 0 .. MaxFaults /\ faults.terminate \in [Instances -> Nat]
  BY DnsConstants DEF Faults
<1>2. [faults EXCEPT !.all = @ + 1] \in Faults
  BY <1>1 DEF Faults
<1>3. ASSUME NEW i \in Instances
      PROVE  [faults EXCEPT !.all = @ + 1, !.terminate[i] = @ + 1] \in Faults
  <2> DEFINE terminate == [faults.terminate EXCEPT ![i] = @ + 1]
  <2>1. terminate \in [Instances -> Nat]
    BY <1>1
  <2>2. [faults EXCEPT !.all = @ + 1, !.terminate[i] = @ + 1]
          = [[faults EXCEPT !.all = @ + 1] EXCEPT !.terminate = terminate]
    BY DEF Faults
  <2> HIDE DEF terminate
  <2> QED BY <1>2, <2>1, <2>2 DEF Faults
<1> QED BY <1>2, <1>3

\* The group: a notification is sent, and nothing else of the records changes.
LEMMA GroupKeeps == ASSUME IInv, NEW i \in Instances, Group(i) PROVE IInv'
<1>1. UNCHANGED <<weight, named, found, sweep, faults, prompt>>
  BY DEF Group, Launch, LaunchError, Terminate, Change
<1>2. ASSUME NEW kind \in Kinds, Send(kind, i)
      PROVE  HandlerTypes' /\ Delivering'
  <2>1. Tries \in 0 .. Tries /\ Tries > 0
    BY DnsConstants
  <2>2. /\ mail' \in [Kinds -> [Instances -> 0 .. Tries]]
        /\ mail'[kind][i] = Tries
        /\ \A k \in Kinds, j \in Instances :
             (k # kind \/ j # i) => mail'[k][j] = mail[k][j]
    BY <1>2, <2>1, Mailing, ZenonT(60) DEF IInv, Send
  <2> QED BY <1>1, <2>1, <2>2 DEF IInv, HandlerTypes, Delivering, Kinds
<1>3. HandlerTypes' /\ Delivering'
  <2>1. CASE Launch(i)
    BY <1>2, <2>1 DEF Launch, Kinds
  <2>2. CASE LaunchError(i)
    BY <1>2, <2>2 DEF LaunchError, Kinds
  <2>3. CASE Terminate(i)
    BY <1>2, <2>3 DEF Terminate, Kinds
  <2>4. CASE Change(i)
    BY <1>1, <2>4 DEF IInv, HandlerTypes, Delivering, Change
  <2> QED BY <2>1, <2>2, <2>3, <2>4 DEF Group
<1>4. AsgTypes'
  BY DEF IInv, AsgTypes, Group, Launch, LaunchError, Terminate, Change
<1>5. Sweeping'
  BY <1>1 DEF IInv, Sweeping
<1> QED BY <1>1, <1>3, <1>4, <1>5 DEF IInv

\* The handlers, also one that dies: a delivery is used up at their end.
LEMMA HandlerKeeps ==
    ASSUME IInv, NEW i \in Instances, Handler(i) \/ HandlerDies(i)
    PROVE  IInv'
<1>1. UNCHANGED <<state, health, marked, prompt, sweep>>
  BY DEF Handler, Describe, Create, LookUp, Delete, HandlerDies, asg
<1>2. AsgTypes' /\ Sweeping'
  BY <1>1 DEF IInv, AsgTypes, Sweeping
<1>3. CASE Describe(i) \/ LookUp(i)
  <2>1. UNCHANGED <<weight, mail, faults>>
    BY <1>3 DEF Describe, LookUp
  <2>2. HandlerTypes' /\ Delivering'
    BY <1>3, <2>1 DEF IInv, HandlerTypes, Delivering, Describe, LookUp, Weights
  <2> QED BY <1>2, <2>1, <2>2 DEF IInv
<1>4. CASE /\ named[i] # "idle" /\ named' = [named EXCEPT ![i] = "idle"]
           /\ UNCHANGED found
           /\ Fail("launch", i) \/ Succeed("launch", i)
  <2>1. mail["launch"][i] > 0 /\ "launch" \in Kinds
    BY <1>4 DEF IInv, Delivering, Kinds
  <2>2. /\ mail' \in [Kinds -> [Instances -> 0 .. Tries]]
        /\ \A k \in Kinds, j \in Instances :
             (k # "launch" \/ j # i) => mail'[k][j] = mail[k][j]
    BY <1>4, <2>1, UsedUp
  <2>3. HandlerTypes' /\ Delivering'
    BY <1>4, <2>2 DEF IInv, HandlerTypes, Delivering, Kinds
  <2>4. weight' \in [Instances -> Weights] /\ faults' \in Faults
    <3>1. CASE Create(i)
      BY <3>1 DEF IInv, Create, Weights
    <3>2. CASE HandlerDies(i)
      BY <3>2, OneMoreDies DEF IInv, HandlerDies
    <3>3. CASE Describe(i) \/ LookUp(i)
      BY <3>3 DEF IInv, Describe, LookUp
    <3>4. CASE Delete(i)
      BY <3>4 DEF IInv, Delete, Weights
    <3> QED BY <3>1, <3>2, <3>3, <3>4 DEF Handler
  <2> QED BY <1>2, <2>3, <2>4 DEF IInv
<1>5. CASE /\ found[i] # NoLookup /\ found' = [found EXCEPT ![i] = NoLookup]
           /\ UNCHANGED named
           /\ Fail("terminate", i) \/ Succeed("terminate", i)
  <2>1. mail["terminate"][i] > 0 /\ "terminate" \in Kinds
    BY <1>5 DEF IInv, Delivering, Kinds
  <2>2. /\ mail' \in [Kinds -> [Instances -> 0 .. Tries]]
        /\ \A k \in Kinds, j \in Instances :
             (k # "terminate" \/ j # i) => mail'[k][j] = mail[k][j]
    BY <1>5, <2>1, UsedUp
  <2>3. HandlerTypes' /\ Delivering'
    BY <1>5, <2>2 DEF IInv, HandlerTypes, Delivering, Kinds
  <2>4. weight' \in [Instances -> Weights] /\ faults' \in Faults
    <3>1. CASE Delete(i)
      BY <3>1 DEF IInv, Delete, Weights
    <3>2. CASE HandlerDies(i)
      BY <3>2, OneMoreDies DEF IInv, HandlerDies
    <3>3. CASE Describe(i) \/ LookUp(i)
      BY <3>3 DEF IInv, Describe, LookUp
    <3>4. CASE Create(i)
      BY <3>4 DEF IInv, Create, Weights
    <3> QED BY <3>1, <3>2, <3>3, <3>4 DEF Handler
  <2> QED BY <1>2, <2>3, <2>4 DEF IInv
<1>6. Create(i) => named[i] # "idle" /\ named' = [named EXCEPT ![i] = "idle"]
                   /\ UNCHANGED found /\ (Fail("launch", i) \/ Succeed("launch", i))
  BY DEF Create
<1>7. Delete(i) => found[i] # NoLookup /\ found' = [found EXCEPT ![i] = NoLookup]
                   /\ UNCHANGED named
                   /\ (Fail("terminate", i) \/ Succeed("terminate", i))
  BY DEF Delete
<1> QED BY <1>3, <1>4, <1>5, <1>6, <1>7 DEF Handler, HandlerDies

\* The monitor: a verdict is formed at an instance, and written there.
LEMMA MonitorKeeps ==
    ASSUME IInv, StartSweep \/ SweepDies \/ \E i \in Instances : Monitor(i)
    PROVE  IInv'
<1>1. UNCHANGED <<state, health, prompt, mail, named, found>>
  BY DEF StartSweep, SweepDies, Monitor, NoAddress, Probe, Upsert, asg
<1>2. HandlerTypes' /\ Delivering'
  BY <1>1 DEF IInv, HandlerTypes, Delivering
<1>3. Idle \in Sweep /\ Idle.at = "nobody" /\ Idle.verdict = NoRecord
  BY DEF Idle, Sweep, Weights
<1>4. CASE StartSweep
  <2>1. sweep' = [todo |-> {i \in Instances : state[i] = "running"}, at |-> "nobody",
                  verdict |-> NoRecord]
    BY <1>4 DEF StartSweep, Idle
  <2>2. Sweeping'
    BY <2>1 DEF Sweeping, Sweep, Weights
  <2> QED BY <1>1, <1>2, <1>4, <2>2 DEF IInv, AsgTypes, StartSweep, asg
<1>5. CASE SweepDies
  <2>1. Sweeping'
    BY <1>3, <1>5 DEF Sweeping, SweepDies
  <2>2. faults' \in Faults
    BY <1>5, OneMoreDies DEF IInv, SweepDies
  <2> QED BY <1>1, <1>2, <1>5, <2>1, <2>2 DEF IInv, AsgTypes, SweepDies, asg
<1>6. ASSUME NEW i \in Instances, NoAddress(i) PROVE IInv'
  <2>1. sweep' = [sweep EXCEPT !.todo = @ \ {i}] /\ sweep.at = "nobody"
    BY <1>6 DEF NoAddress
  <2>2. Sweeping'
    BY <2>1 DEF IInv, Sweeping, Sweep
  <2> QED BY <1>1, <1>2, <1>6, <2>2 DEF IInv, AsgTypes, NoAddress, asg
<1>7. ASSUME NEW i \in Instances, Probe(i) PROVE IInv'
  <2>1. /\ i \in sweep.todo /\ sweep \in Sweep /\ i # "nobody"
        /\ UNCHANGED <<weight, faults>>
    BY <1>7, DnsConstants DEF IInv, Sweeping, Probe
  <2>2. marked' \in [Instances -> BOOLEAN]
    BY <1>7 DEF IInv, AsgTypes, Probe
  <2>3. Sweeping'
    <3>1. CASE sweep' = Idle
      BY <1>3, <3>1 DEF Sweeping
    <3>2. ASSUME NEW v \in {NORMAL, SICK}, sweep' = [sweep EXCEPT !.at = i, !.verdict = v]
          PROVE  Sweeping'
      <4>1. v \in Weights /\ v # NoRecord
        BY DEF Weights, NORMAL, SICK, NoRecord
      <4>2. sweep' \in Sweep /\ sweep'.at = i /\ sweep'.verdict = v
            /\ sweep'.todo = sweep.todo
        BY <2>1, <3>2, <4>1 DEF Sweep
      <4> QED BY <2>1, <4>1, <4>2 DEF Sweeping
    <3> QED BY <1>7, <3>1, <3>2 DEF Probe
  <2> QED BY <1>1, <1>2, <2>1, <2>2, <2>3 DEF IInv, AsgTypes
<1>8. ASSUME NEW i \in Instances, Upsert(i) PROVE IInv'
  <2>1. /\ sweep \in Sweep /\ sweep' = [Idle EXCEPT !.todo = sweep.todo \ {i}]
        /\ weight' = [weight EXCEPT ![i] = sweep.verdict]
    BY <1>8 DEF IInv, Sweeping, Upsert
  <2>2. Sweeping'
    BY <1>3, <2>1 DEF Sweeping, Sweep, Idle, Weights
  <2>3. weight' \in [Instances -> Weights]
    BY <2>1 DEF IInv, Sweep
  <2> QED BY <1>1, <1>2, <1>8, <2>2, <2>3 DEF IInv, AsgTypes, Upsert, asg
<1> QED BY <1>4, <1>5, <1>6, <1>7, <1>8 DEF Monitor

--------------------------------------------------------------------------------
(***************************************************************************)
(* The theorems                                                             *)
(***************************************************************************)
\* The invariant holds before the first launch, and every step keeps it.
THEOREM InvariantHolds == Spec => []IInv
<1>1. Init => IInv
  <2> SUFFICES ASSUME Init PROVE IInv
    OBVIOUS
  <2>1. AsgTypes
    BY DEF Init, AsgTypes, Health
  <2>2. HandlerTypes /\ Delivering
    BY DnsConstants DEF Init, HandlerTypes, Delivering, Kinds
  <2>3. Sweeping
    BY DEF Init, Sweeping, Sweep, Idle, Weights
  <2>4. faults \in Faults
    BY DnsConstants DEF Init, Faults
  <2> QED BY <2>1, <2>2, <2>3, <2>4 DEF Init, IInv, Weights
<1>2. IInv /\ [Next]_vars => IInv'
  <2> SUFFICES ASSUME IInv, [Next]_vars PROVE IInv'
    OBVIOUS
  <2>1. CASE UNCHANGED vars
    BY <2>1 DEF vars, IInv, AsgTypes, HandlerTypes, Delivering, Sweeping
  <2> QED BY <2>1, GroupKeeps, HandlerKeeps, MonitorKeeps DEF Next
<1> QED BY <1>1, <1>2, PTL DEF Spec

\* The types: a handler runs for a delivery, the monitor is at an instance of its
\* snapshot, and a weight is one that somebody gave.
THEOREM TypeCorrect == Spec => []TypeOK
<1>1. IInv => TypeOK
  BY DEF IInv, AsgTypes, HandlerTypes, Delivering, Sweeping, Sweep, Weights, Faults, TypeOK
<1> QED BY <1>1, InvariantHolds, PTL

\* Late, repeated and duplicated notifications do not give a sick instance its
\* traffic back: only a probe that passed does.
THEOREM NoTrafficForTheSick == Spec => SickGetsNoTraffic
<1>1. ASSUME IInv, [Next]_vars, NEW i \in Instances, weight[i] = SICK, weight'[i] = NORMAL
      PROVE  sweep.at = i /\ sweep.verdict = NORMAL
  <2>1. weight'[i] # weight[i] /\ weight \in [Instances -> Weights]
    BY <1>1 DEF IInv, SICK, NORMAL
  <2>2. PICK j \in Instances : Create(j) \/ Delete(j) \/ Upsert(j)
    BY <1>1, <2>1 DEF Next, vars, StartSweep, SweepDies, Group, Launch, LaunchError,
       Terminate, Change, Handler, Describe, LookUp, HandlerDies, Monitor, NoAddress, Probe
  <2>3. CASE Create(j)
    BY <1>1, <2>1, <2>3 DEF Create, SICK, NORMAL, NoRecord
  <2>4. CASE Delete(j)
    BY <1>1, <2>1, <2>4 DEF Delete, SICK, NORMAL, NoRecord
  <2>5. CASE Upsert(j)
    BY <1>1, <2>1, <2>5 DEF Upsert
  <2> QED BY <2>2, <2>3, <2>4, <2>5
<1>2. IInv /\ [Next]_vars =>
        [\A i \in Instances : (weight[i] = SICK /\ weight'[i] = NORMAL)
            => (sweep.at = i /\ sweep.verdict = NORMAL)]_vars
  BY <1>1
<1> QED BY <1>2, InvariantHolds, PTL DEF Spec, SickGetsNoTraffic

--------------------------------------------------------------------------------
(***************************************************************************)
(* Filling the upload queue.  Induction is over numbers, by a least         *)
(* counterexample; lists of lists are taken together one list at a time.    *)
(***************************************************************************)
\* A set of indexes has a least member.
LEMMA Least ==
    ASSUME NEW B, B \subseteq Nat, B # {}
    PROVE  \E k \in B : \A j \in B : ~ (j < k)
<1>1. PICK k \in B : \A j \in B : <<j, k>> \notin OpToRel(<, Nat)
  BY NatLessThanWellFounded, WFMin
<1> QED BY <1>1 DEF OpToRel

\* A set that holds 0, and n + 1 whenever it holds n, holds every number.
LEMMA Counting ==
    ASSUME NEW I, 0 \in I, \A n \in Nat : n \in I => n + 1 \in I
    PROVE  \A n \in Nat : n \in I
<1> DEFINE B == {n \in Nat : n \notin I}
<1> SUFFICES ASSUME B # {} PROVE FALSE
  OBVIOUS
<1>1. PICK k \in B : \A j \in B : ~ (j < k)
  <2>1. B \subseteq Nat
    OBVIOUS
  <2> QED BY <2>1, Least
<1>2. k - 1 \in Nat /\ (k - 1) + 1 = k /\ k - 1 < k
  BY <1>1
<1> QED BY <1>1, <1>2

--------------------------------------------------------------------------------
(***************************************************************************)
(* Division, rounded down and up.                                           *)
(***************************************************************************)
\* Division with its remainder.
LEMMA Divided ==
    ASSUME NEW a \in Nat, NEW d \in Nat \ {0}
    PROVE  \E q \in Nat, r \in 0 .. d - 1 : q = a \div d /\ r = a % d /\ a = q * d + r
<1>1. a % d \in 0 .. d - 1
  OBVIOUS
<1>2. a % d = a - d * (a \div d)
  BY Z3T(30)
<1>3. a \div d \in Int /\ a \div d >= 0
  OBVIOUS
<1>4. PICK q \in Nat, r \in 0 .. d - 1 : q = a \div d /\ r = a % d
  BY <1>1, <1>3
<1>5. r = a - d * q
  BY <1>2, <1>4
<1>6. a = q * d + r
  BY <1>5
<1> QED BY <1>4, <1>6

LEMMA TimesMonotone ==
    ASSUME NEW a \in Nat, NEW b \in Nat, NEW d \in Nat, a <= b
    PROVE  a * d \in Nat /\ a * d <= b * d
  OBVIOUS

LEMMA Quotient ==
    ASSUME NEW a \in Nat, NEW d \in Nat \ {0}, NEW q \in Nat,
           q * d <= a, a < q * d + d
    PROVE  a \div d = q
<1>0. PICK p \in Nat, r \in 0 .. d - 1 : p = a \div d /\ a = p * d + r
  BY Divided
<1>1. p \in Nat /\ p * d <= a /\ a < p * d + d
  BY <1>0
<1>2. CASE p < q
  <2>1. (p + 1) * d <= q * d
    BY <1>1, <1>2, TimesMonotone
  <2>2. (p + 1) * d = p * d + d
    BY <1>1
  <2> QED BY <1>1, <2>1, <2>2
<1>3. CASE q < p
  <2>1. (q + 1) * d <= p * d
    BY <1>1, <1>3, TimesMonotone
  <2>2. (q + 1) * d = q * d + d
    OBVIOUS
  <2> QED BY <1>1, <2>1, <2>2
<1> QED BY <1>0, <1>1, <1>2, <1>3

LEMMA QuotientBelow ==
    ASSUME NEW a \in Nat, NEW d \in Nat \ {0}, NEW n \in Nat, a < n * d
    PROVE  a \div d \in 0 .. n - 1
<1>0. PICK p \in Nat, r \in 0 .. d - 1 : p = a \div d /\ a = p * d + r
  BY Divided
<1>1. p \in Nat /\ p * d <= a /\ a < p * d + d
  BY <1>0
<1>2. CASE n <= p
  <2>1. n * d <= p * d
    BY <1>1, <1>2, TimesMonotone
  <2> QED BY <1>1, <2>1
<1> QED BY <1>0, <1>1, <1>2

LEMMA CeilingIs ==
    ASSUME NEW n \in Nat \ {0}, NEW d \in Nat \ {0}
    PROVE  /\ Ceiling(n, d) \in Nat \ {0}
           /\ (Ceiling(n, d) - 1) * d < n /\ n <= Ceiling(n, d) * d
<1>0. n + d - 1 \in Nat
  OBVIOUS
<1>1. PICK c \in Nat, r \in 0 .. d - 1 : c = Ceiling(n, d) /\ n + d - 1 = c * d + r
  BY <1>0, Divided DEF Ceiling
<1>2. c \in Nat /\ c * d <= n + d - 1 /\ n + d - 1 < c * d + d
  BY <1>1
<1>3. c # 0
  <2>1. 0 * d = 0
    OBVIOUS
  <2> QED BY <1>2, <2>1
<1>4. (c - 1) * d = c * d - d
  BY <1>2
<1> QED BY <1>1, <1>2, <1>3, <1>4

LEMMA CeilingUnique ==
    ASSUME NEW n \in Nat, NEW d \in Nat \ {0}, NEW c \in Nat,
           (c - 1) * d < n, n <= c * d
    PROVE  Ceiling(n, d) = c
<1>1. n + d - 1 \in Nat /\ c * d <= n + d - 1 /\ n + d - 1 < c * d + d
  <2>1. (c - 1) * d = c * d - d
    OBVIOUS
  <2>2. c * d \in Nat
    OBVIOUS
  <2> QED BY <2>1, <2>2
<1> QED BY <1>1, Quotient DEF Ceiling

--------------------------------------------------------------------------------
(***************************************************************************)
(* Lists of lists, one after the other.                                     *)
(***************************************************************************)
\* f[k] is what the first k of n lists give.
Unfolds(ss, n, f) ==
    /\ FlattenSeq(ss) = f[n]
    /\ \A k \in 1 .. n : f[k] = IF k = 1 THEN ss[1] ELSE f[k - 1] \o ss[k]

\* FlattenSeq by its recursion.
LEMMA FlattenUnfolds ==
    ASSUME NEW n \in Nat, n # 0, NEW ss, DOMAIN ss = 1 .. n, Len(ss) = n
    PROVE  \E f : Unfolds(ss, n, f)
<1> DEFINE Step(g, i) == IF i = 1 THEN ss[i] ELSE g[i - 1] \o ss[i]
           IsFlat(g, k) == g = [i \in 1 .. k |-> Step(g, i)]
           f == CHOOSE g : IsFlat(g, n)
           I == {k \in Nat : k = 0 \/ \E g : IsFlat(g, k)}
<1>0. Len(ss) = n /\ n # 0
  OBVIOUS
<1>1. FlattenSeq(ss) = f[n]
  BY <1>0 DEF FlattenSeq
<1>2. ASSUME NEW k \in Nat, k \in I PROVE k + 1 \in I
  <2>1. CASE k = 0
    <3>1. IsFlat([i \in 1 .. 1 |-> ss[1]], 1)
      OBVIOUS
    <3> HIDE DEF IsFlat
    <3> QED BY <2>1, <3>1, k + 1 = 1
  <2>2. CASE k # 0
    <3>1. PICK g : IsFlat(g, k)
      BY <1>2, <2>2
    <3> DEFINE h == [i \in 1 .. k + 1 |-> IF i < k + 1 THEN g[i] ELSE g[k] \o ss[k + 1]]
    <3>2. ASSUME NEW i \in 1 .. k + 1 PROVE h[i] = Step(h, i)
      <4>1. CASE i < k + 1
        <5>1. i \in 1 .. k /\ h[i] = g[i] /\ (i # 1 => h[i - 1] = g[i - 1])
          BY <4>1
        <5>2. g[i] = Step(g, i)
          BY <3>1, <5>1
        <5> QED BY <5>1, <5>2
      <4>2. CASE i = k + 1
        <5>1. i # 1 /\ i - 1 = k /\ k \in 1 .. k + 1 /\ k < k + 1 /\ ~ (i < k + 1)
          BY <2>2, <4>2
        <5>2. h[i] = g[k] \o ss[k + 1]
          BY <5>1
        <5>3. h[k] = g[k]
          <6>1. k \in 1 .. k + 1 /\ k < k + 1
            BY <5>1
          <6> QED BY <6>1
        <5> QED BY <4>2, <5>1, <5>2, <5>3
      <4> QED BY <4>1, <4>2
    <3>3. h = [i \in 1 .. k + 1 |-> h[i]]
      OBVIOUS
    <3> HIDE DEF h
    <3>4. IsFlat(h, k + 1)
      BY <3>2, <3>3
    <3> HIDE DEF IsFlat
    <3> QED BY <3>4
  <2> QED BY <2>1, <2>2
<1>3. n \in I
  <2> HIDE DEF I
  <2>1. 0 \in I
    BY DEF I
  <2> QED BY <1>2, <2>1, Counting
<1>4. IsFlat(f, n)
  <2> HIDE DEF IsFlat
  <2>1. \E g : IsFlat(g, n)
    BY <1>3
  <2>2. IsFlat(CHOOSE g : IsFlat(g, n), n)
    BY <2>1, Zenon
  <2> QED BY <2>2
<1> HIDE DEF f
<1>5. \A k \in 1 .. n : f[k] = IF k = 1 THEN ss[1] ELSE f[k - 1] \o ss[k]
  BY <1>4
<1> QED BY <1>1, <1>5 DEF Unfolds

\* No lists give the empty list, and one more list is appended to what the others
\* give.
LEMMA FlattenGrows ==
    ASSUME NEW S, NEW n \in Nat, NEW ss \in [1 .. n + 1 -> Seq(S)]
    PROVE  FlattenSeq(ss) = FlattenSeq([i \in 1 .. n |-> ss[i]]) \o ss[n + 1]
<1> DEFINE rr == [i \in 1 .. n |-> ss[i]]
<1>1. ss \in Seq(Seq(S)) /\ rr \in Seq(Seq(S))
  OBVIOUS
<1>0. Len(ss) = n + 1 /\ DOMAIN ss = 1 .. n + 1 /\ Len(rr) = n /\ DOMAIN rr = 1 .. n
  BY <1>1
<1> HIDE DEF rr
<1>all. PICK f : Unfolds(ss, n + 1, f)
  <2>1. n + 1 \in Nat /\ n + 1 # 0
    OBVIOUS
  <2> QED BY <1>0, <2>1, FlattenUnfolds
<1>2. /\ FlattenSeq(ss) = f[n + 1]
      /\ \A k \in 1 .. n + 1 : f[k] = IF k = 1 THEN ss[1] ELSE f[k - 1] \o ss[k]
  BY <1>all DEF Unfolds
<1>3. CASE n = 0
  <2>1. FlattenSeq(rr) = <<>>
    BY <1>0, <1>3 DEF FlattenSeq
  <2>2. FlattenSeq(ss) = ss[1]
    BY <1>2, <1>3
  <2>3. ss[1] \in Seq(S)
    BY <1>3
  <2>4. <<>> \o ss[1] = ss[1]
    BY <2>3, ConcatEmptySeq
  <2> QED BY <1>3, <2>1, <2>2, <2>4 DEF rr
<1>4. CASE n # 0
  <2>front. PICK g : Unfolds(rr, n, g)
    BY <1>0, <1>4, FlattenUnfolds
  <2>1. /\ FlattenSeq(rr) = g[n]
        /\ \A k \in 1 .. n : g[k] = IF k = 1 THEN rr[1] ELSE g[k - 1] \o rr[k]
    BY <2>front DEF Unfolds
  <2> DEFINE I == {k \in Nat : k \in 1 .. n => f[k] = g[k]}
  <2>2. \A k \in 1 .. n : rr[k] = ss[k] /\ k \in 1 .. n + 1
    BY DEF rr
  <2>3. ASSUME NEW k \in Nat, k \in I PROVE k + 1 \in I
    <3> SUFFICES ASSUME k + 1 \in 1 .. n PROVE f[k + 1] = g[k + 1]
      OBVIOUS
    <3>1. CASE k = 0
      <4>1. 1 \in 1 .. n
        BY <3>1
      <4> QED BY <1>2, <2>1, <2>2, <3>1, <4>1
    <3>2. CASE k # 0
      <4>1. k \in 1 .. n /\ k + 1 # 1 /\ (k + 1) - 1 = k
        BY <3>2
      <4>2. f[k] = g[k]
        BY <2>3, <4>1
      <4>3. f[k + 1] = f[k] \o ss[k + 1]
        BY <1>2, <2>2, <4>1
      <4>4. g[k + 1] = g[k] \o ss[k + 1]
        BY <2>1, <2>2, <4>1
      <4> QED BY <4>2, <4>3, <4>4
    <3> QED BY <3>1, <3>2
  <2>4. n \in I
    <3> HIDE DEF I
    <3>1. 0 \in I
      BY DEF I
    <3> QED BY <2>3, <3>1, Counting
  <2>5. f[n + 1] = f[n] \o ss[n + 1]
    <3>1. n + 1 \in 1 .. n + 1 /\ n + 1 # 1 /\ (n + 1) - 1 = n
      BY <1>4
    <3> QED BY <1>2, <3>1
  <2>6. f[n] = g[n]
    BY <1>4, <2>4
  <2> QED BY <1>2, <2>1, <2>5, <2>6 DEF rr
<1> QED BY <1>3, <1>4


\* The first k lists, one after the other.
Flat(ss, k) == FlattenSeq([i \in 1 .. k |-> ss[i]])

\* What is left of a list without its first d.
Drop(s, d) == SubSeq(s, d + 1, Len(s))

\* The first n of ss are lists over S.
Lists(ss, n, S) == n \in Nat /\ \A i \in 1 .. n : ss[i] \in Seq(S)

LEMMA FlatGrows ==
    ASSUME NEW S, NEW ss, NEW k \in Nat, Lists(ss, k + 1, S)
    PROVE  Flat(ss, k + 1) = Flat(ss, k) \o ss[k + 1]
<1> DEFINE rr == [i \in 1 .. k + 1 |-> ss[i]]
<1>1. rr \in [1 .. k + 1 -> Seq(S)]
  BY DEF Lists
<1>2. \A i \in 1 .. k : rr[i] = ss[i]
  OBVIOUS
<1>3. rr[k + 1] = ss[k + 1]
  OBVIOUS
<1>4. [i \in 1 .. k |-> rr[i]] = [i \in 1 .. k |-> ss[i]]
  BY <1>2
<1> HIDE DEF rr
<1>5. FlattenSeq(rr) = FlattenSeq([i \in 1 .. k |-> rr[i]]) \o rr[k + 1]
  BY <1>1, FlattenGrows
<1> QED BY <1>3, <1>4, <1>5 DEF Flat, rr

LEMMA FlatOfNone == ASSUME NEW ss PROVE Flat(ss, 0) = <<>>
<1>1. [i \in 1 .. 0 |-> ss[i]] = <<>>
  OBVIOUS
<1> QED BY <1>1 DEF Flat, FlattenSeq

LEMMA FlatIsList ==
    ASSUME NEW S, NEW n, NEW ss, Lists(ss, n, S)
    PROVE  \A k \in 0 .. n : Flat(ss, k) \in Seq(S)
<1> DEFINE I == {k \in Nat : k \in 0 .. n => Flat(ss, k) \in Seq(S)}
<1>1. 0 \in I
  BY FlatOfNone, EmptySeq
<1>2. ASSUME NEW k \in Nat, k \in I PROVE k + 1 \in I
  <2> SUFFICES ASSUME k + 1 \in 0 .. n PROVE Flat(ss, k + 1) \in Seq(S)
    OBVIOUS
  <2>1. k \in 0 .. n /\ k + 1 \in 1 .. n /\ n \in Nat
    BY DEF Lists
  <2>2. Lists(ss, k + 1, S)
    BY <2>1 DEF Lists
  <2>3. Flat(ss, k) \in Seq(S) /\ ss[k + 1] \in Seq(S)
    BY <1>2, <2>1 DEF Lists
  <2>4. Flat(ss, k + 1) = Flat(ss, k) \o ss[k + 1]
    BY <2>2, FlatGrows
  <2>5. Flat(ss, k) \o ss[k + 1] \in Seq(S)
    BY <2>3, ConcatProperties
  <2> QED BY <2>4, <2>5
<1> HIDE DEF I
<1>3. \A k \in Nat : k \in I
  BY <1>1, <1>2, Counting
<1> QED BY <1>3 DEF I, Lists

\* Lists of one length.
LEMMA FlatLength ==
    ASSUME NEW S, NEW n, NEW ss, Lists(ss, n, S), NEW m \in Nat,
           \A i \in 1 .. n : Len(ss[i]) = m
    PROVE  \A k \in 0 .. n : Len(Flat(ss, k)) = k * m
<1> DEFINE I == {k \in Nat : k \in 0 .. n => Len(Flat(ss, k)) = k * m}
<1>1. 0 \in I
  BY FlatOfNone, EmptySeq
<1>2. ASSUME NEW k \in Nat, k \in I PROVE k + 1 \in I
  <2> SUFFICES ASSUME k + 1 \in 0 .. n PROVE Len(Flat(ss, k + 1)) = (k + 1) * m
    OBVIOUS
  <2>1. k \in 0 .. n /\ k + 1 \in 1 .. n /\ n \in Nat
    BY DEF Lists
  <2>2. Lists(ss, k + 1, S)
    BY <2>1 DEF Lists
  <2>3. Flat(ss, k) \in Seq(S) /\ ss[k + 1] \in Seq(S)
    BY <2>1, FlatIsList DEF Lists
  <2>4. Len(Flat(ss, k)) = k * m /\ Len(ss[k + 1]) = m
    BY <1>2, <2>1
  <2>5. Len(Flat(ss, k + 1)) = k * m + m
    BY <2>2, <2>3, <2>4, FlatGrows, ConcatProperties
  <2> QED BY <2>5
<1> HIDE DEF I
<1>3. \A k \in Nat : k \in I
  BY <1>1, <1>2, Counting
<1> QED BY <1>3 DEF I, Lists

LEMMA DropIsList ==
    ASSUME NEW S, NEW s \in Seq(S), NEW d \in 0 .. Len(s)
    PROVE  Drop(s, d) \in Seq(S) /\ Len(Drop(s, d)) = Len(s) - d
<1>1. Len(s) \in Nat /\ \A i \in d + 1 .. Len(s) : s[i] \in S
  BY LenProperties, ElementOfSeq
<1>2. d + 1 \in Int /\ Len(s) \in Int /\ (d + 1 <= Len(s) \/ Len(s) = d)
  BY <1>1
<1>3. /\ Drop(s, d) \in Seq(S)
      /\ Len(Drop(s, d)) = IF d + 1 <= Len(s) THEN Len(s) - (d + 1) + 1 ELSE 0
  BY <1>1, <1>2, SubSeqProperties DEF Drop
<1> QED BY <1>1, <1>2, <1>3

LEMMA DropOfConcat ==
    ASSUME NEW S, NEW s \in Seq(S), NEW t \in Seq(S), NEW d \in 0 .. Len(s)
    PROVE  Drop(s, d) \o t = Drop(s \o t, d)
<1> DEFINE a == Drop(s, d) \o t
           b == Drop(s \o t, d)
<1>1. Len(s) \in Nat /\ Len(t) \in Nat
  BY LenProperties
<1>2. /\ s \o t \in Seq(S) /\ Len(s \o t) = Len(s) + Len(t)
      /\ \A i \in 1 .. Len(s) + Len(t) : (s \o t)[i] =
           IF i <= Len(s) THEN s[i] ELSE t[i - Len(s)]
  BY ConcatProperties
<1>3. d \in 0 .. Len(s \o t)
  BY <1>1, <1>2
<1>4. b \in Seq(S) /\ Len(b) = Len(s) + Len(t) - d
  <2>1. b \in Seq(S) /\ Len(b) = Len(s \o t) - d
    BY <1>2, <1>3, DropIsList
  <2> QED BY <1>2, <2>1
<1>5. Drop(s, d) \in Seq(S) /\ Len(Drop(s, d)) = Len(s) - d
  BY DropIsList
<1>6. /\ a \in Seq(S) /\ Len(a) = Len(s) - d + Len(t)
      /\ \A i \in 1 .. Len(s) - d + Len(t) : a[i] =
           IF i <= Len(s) - d THEN Drop(s, d)[i] ELSE t[i - (Len(s) - d)]
  <2>1. PICK u : u = Drop(s, d)
    OBVIOUS
  <2>2. u \in Seq(S) /\ Len(u) = Len(s) - d
    BY <1>5, <2>1
  <2>3. /\ u \o t \in Seq(S) /\ Len(u \o t) = Len(u) + Len(t)
        /\ \A i \in 1 .. Len(u) + Len(t) : (u \o t)[i] =
             IF i <= Len(u) THEN u[i] ELSE t[i - Len(u)]
    BY <2>2, ConcatProperties
  <2> QED BY <2>1, <2>2, <2>3
<1>7. ASSUME NEW i \in 1 .. Len(a) PROVE a[i] = b[i]
  <2>1. i \in 1 .. Len(s) + Len(t) - d /\ i + d \in 1 .. Len(s) + Len(t)
    BY <1>1, <1>6
  <2>2. b[i] = (s \o t)[i + d]
    BY <1>1, <1>2, <2>1 DEF Drop
  <2>3. CASE i <= Len(s) - d
    <3>1. a[i] = Drop(s, d)[i]
      BY <1>6, <2>1, <2>3, <1>1
    <3>2. Drop(s, d)[i] = s[i + d]
      BY <1>1, <2>1, <2>3 DEF Drop
    <3> QED BY <1>1, <1>2, <2>1, <2>2, <2>3, <3>1, <3>2
  <2>4. CASE ~ (i <= Len(s) - d)
    <3>1. a[i] = t[i - (Len(s) - d)]
      BY <1>6, <2>1, <2>4, <1>1
    <3>2. b[i] = t[(i + d) - Len(s)]
      BY <1>1, <1>2, <2>1, <2>2, <2>4
    <3>3. (i + d) - Len(s) = i - (Len(s) - d)
      BY <1>1
    <3> QED BY <3>1, <3>2, <3>3
  <2> QED BY <2>3, <2>4
<1>8. Len(a) = Len(b)
  BY <1>1, <1>4, <1>6
<1> HIDE DEF a, b
<1>9. a = b
  BY <1>4, <1>6, <1>7, <1>8, SeqEqual
<1> QED BY <1>9 DEF a, b

LEMMA DropOfSecond ==
    ASSUME NEW S, NEW s \in Seq(S), NEW t \in Seq(S), NEW r \in 0 .. Len(t)
    PROVE  Drop(s \o t, Len(s) + r) = Drop(t, r)
<1> DEFINE a == Drop(s \o t, Len(s) + r)
           b == Drop(t, r)
<1>1. Len(s) \in Nat /\ Len(t) \in Nat
  BY LenProperties
<1>2. /\ s \o t \in Seq(S) /\ Len(s \o t) = Len(s) + Len(t)
      /\ \A i \in 1 .. Len(s) + Len(t) : (s \o t)[i] =
           IF i <= Len(s) THEN s[i] ELSE t[i - Len(s)]
  BY ConcatProperties
<1>3. Len(s) + r \in 0 .. Len(s \o t)
  BY <1>1, <1>2
<1>4. a \in Seq(S) /\ Len(a) = Len(t) - r
  <2>1. a \in Seq(S) /\ Len(a) = Len(s \o t) - (Len(s) + r)
    BY <1>2, <1>3, DropIsList
  <2> QED BY <1>1, <1>2, <2>1
<1>5. b \in Seq(S) /\ Len(b) = Len(t) - r
  BY DropIsList
<1>6. ASSUME NEW i \in 1 .. Len(a) PROVE a[i] = b[i]
  <2>1. i \in 1 .. Len(t) - r /\ Len(s) + r + i \in 1 .. Len(s) + Len(t)
        /\ ~ (Len(s) + r + i <= Len(s)) /\ (Len(s) + r + i) - Len(s) = i + r
    BY <1>1, <1>4
  <2>2. a[i] = (s \o t)[Len(s) + r + i]
    BY <1>1, <1>2, <2>1 DEF Drop
  <2>3. b[i] = t[i + r]
    BY <1>1, <2>1 DEF Drop
  <2> QED BY <1>2, <2>1, <2>2, <2>3
<1> HIDE DEF a, b
<1>7. a = b
  BY <1>4, <1>5, <1>6, SeqEqual
<1> QED BY <1>7 DEF a, b

\* A walk that starts in the middle of list k drops what comes before.
LEMMA FlatResumes ==
    ASSUME NEW S, NEW n, NEW ss, Lists(ss, n, S),
           NEW k \in 0 .. n - 1, NEW r \in 0 .. Len(ss[k + 1]),
           NEW tt, tt[1] = Drop(ss[k + 1], r),
           \A i \in 2 .. n - k : tt[i] = ss[k + i]
    PROVE  Flat(tt, n - k) = Drop(Flat(ss, n), Len(Flat(ss, k)) + r)
<1> DEFINE d == Len(Flat(ss, k)) + r
           I == {i \in Nat : i \in 0 .. n - k - 1 =>
                   /\ d <= Len(Flat(ss, k + i + 1))
                   /\ Flat(tt, i + 1) = Drop(Flat(ss, k + i + 1), d)}
<1>0. n \in Nat /\ k \in Nat /\ n - k \in Nat /\ k + 1 \in 1 .. n /\ k \in 0 .. n
  BY DEF Lists
<1>1. Flat(ss, k) \in Seq(S) /\ ss[k + 1] \in Seq(S)
  BY <1>0, FlatIsList DEF Lists
<1>2. /\ Len(Flat(ss, k)) \in Nat /\ Len(ss[k + 1]) \in Nat /\ d \in Nat
  BY <1>1, LenProperties
<1>3. Lists(tt, n - k, S)
  <2>1. tt[1] \in Seq(S)
    BY <1>1, DropIsList
  <2>2. ASSUME NEW i \in 2 .. n - k PROVE tt[i] \in Seq(S)
    BY <1>0 DEF Lists
  <2>3. \A i \in 1 .. n - k : i = 1 \/ i \in 2 .. n - k
    BY <1>0
  <2> QED BY <1>0, <2>1, <2>2, <2>3 DEF Lists
<1>4. 0 \in I
  <2>1. Flat(ss, k + 1) = Flat(ss, k) \o ss[k + 1]
    <3>1. Lists(ss, k + 1, S)
      BY <1>0 DEF Lists
    <3> QED BY <1>0, <3>1, FlatGrows
  <2>2. Flat(tt, 1) = tt[1]
    <3>1. Lists(tt, 0 + 1, S)
      BY <1>0, <1>3 DEF Lists
    <3>2. Flat(tt, 0 + 1) = Flat(tt, 0) \o tt[0 + 1]
      BY <3>1, FlatGrows
    <3>3. tt[1] \in Seq(S)
      BY <3>1 DEF Lists
    <3>4. <<>> \o tt[1] = tt[1]
      BY <3>3, ConcatEmptySeq
    <3>5. Flat(tt, 0) = <<>>
      BY FlatOfNone
    <3> QED BY <3>2, <3>4, <3>5, 0 + 1 = 1
  <2>3. Drop(Flat(ss, k) \o ss[k + 1], d) = Drop(ss[k + 1], r)
    BY <1>1, DropOfSecond
  <2>4. Len(Flat(ss, k) \o ss[k + 1]) = Len(Flat(ss, k)) + Len(ss[k + 1])
    BY <1>1, ConcatProperties
  <2>5. d <= Len(Flat(ss, k + 1)) /\ k + 0 + 1 = k + 1 /\ 0 + 1 = 1
    BY <1>0, <1>2, <2>1, <2>4
  <2> QED BY <2>1, <2>2, <2>3, <2>5
<1>5. ASSUME NEW i \in Nat, i \in I PROVE i + 1 \in I
  <2> SUFFICES ASSUME i + 1 \in 0 .. n - k - 1
               PROVE  /\ d <= Len(Flat(ss, k + (i + 1) + 1))
                      /\ Flat(tt, (i + 1) + 1) = Drop(Flat(ss, k + (i + 1) + 1), d)
    OBVIOUS
  <2> DEFINE q == k + i + 1
  <2>1. /\ i \in 0 .. n - k - 1 /\ q \in Nat /\ q \in 0 .. n /\ q + 1 \in 1 .. n
        /\ i + 2 \in 2 .. n - k /\ k + (i + 2) = q + 1 /\ k + (i + 1) + 1 = q + 1
        /\ i + 1 \in Nat /\ (i + 1) + 1 = i + 2
    BY <1>0
  <2> HIDE DEF q
  <2>2. d <= Len(Flat(ss, q)) /\ Flat(tt, i + 1) = Drop(Flat(ss, q), d)
    BY <1>5, <2>1 DEF q
  <2>3. tt[i + 2] = ss[q + 1]
    BY <2>1
  <2>4. Flat(ss, q + 1) = Flat(ss, q) \o ss[q + 1]
    <3>1. Lists(ss, q + 1, S)
      BY <2>1 DEF Lists
    <3> QED BY <2>1, <3>1, FlatGrows
  <2>5. Flat(tt, (i + 1) + 1) = Flat(tt, i + 1) \o tt[(i + 1) + 1]
    <3>1. Lists(tt, (i + 1) + 1, S)
      BY <1>3, <2>1 DEF Lists
    <3> QED BY <2>1, <3>1, FlatGrows
  <2>6. Flat(ss, q) \in Seq(S) /\ ss[q + 1] \in Seq(S)
    BY <2>1, FlatIsList DEF Lists
  <2>7. d \in 0 .. Len(Flat(ss, q))
    BY <1>2, <2>2, <2>6, LenProperties
  <2>8. Drop(Flat(ss, q), d) \o ss[q + 1] = Drop(Flat(ss, q) \o ss[q + 1], d)
    BY <2>6, <2>7, DropOfConcat, ZenonT(60)
  <2>9. d <= Len(Flat(ss, q + 1))
    <3>1. Len(Flat(ss, q) \o ss[q + 1]) = Len(Flat(ss, q)) + Len(ss[q + 1])
      BY <2>6, ConcatProperties
    <3>2. Len(Flat(ss, q)) \in Nat /\ Len(ss[q + 1]) \in Nat
      BY <2>6, LenProperties
    <3> QED BY <1>2, <2>2, <2>4, <3>1, <3>2
  <2> QED BY <2>1, <2>2, <2>3, <2>4, <2>5, <2>8, <2>9
<1> HIDE DEF I, d
<1>6. \A i \in Nat : i \in I
  BY <1>4, <1>5, Counting
<1>7. n - k - 1 \in Nat /\ n - k - 1 \in 0 .. n - k - 1 /\ (n - k - 1) + 1 = n - k
      /\ k + (n - k - 1) + 1 = n
  BY <1>0
<1> QED BY <1>6, <1>7 DEF I, d

LEMMA ConcatDistinct ==
    ASSUME NEW A, NEW B, A \cap B = {}, NEW s \in Seq(A), NEW t \in Seq(B),
           IsInjective(s), IsInjective(t)
    PROVE  s \o t \in Seq(A \cup B) /\ IsInjective(s \o t)
<1> DEFINE S == A \cup B
           u == s \o t
<1>1. s \in Seq(S) /\ t \in Seq(S)
  BY SeqMonotonic
<1>2. Len(s) \in Nat /\ Len(t) \in Nat /\ DOMAIN s = 1 .. Len(s) /\ DOMAIN t = 1 .. Len(t)
  BY LenProperties
<1>3. /\ u \in Seq(S) /\ Len(u) = Len(s) + Len(t)
      /\ \A i \in 1 .. Len(s) + Len(t) : u[i] = IF i <= Len(s) THEN s[i] ELSE t[i - Len(s)]
  BY <1>1, ConcatProperties
<1>4. DOMAIN u = 1 .. Len(s) + Len(t)
  BY <1>3, LenProperties
<1> HIDE DEF u
<1>5. ASSUME NEW i \in 1 .. Len(s) + Len(t)
      PROVE  \/ i \in DOMAIN s /\ u[i] = s[i] /\ u[i] \in A
             \/ i - Len(s) \in DOMAIN t /\ u[i] = t[i - Len(s)] /\ u[i] \in B
  <2>1. CASE i <= Len(s)
    <3>1. i \in 1 .. Len(s)
      BY <1>2, <2>1
    <3> QED BY <1>2, <1>3, <2>1, <3>1, ElementOfSeq
  <2>2. CASE ~ (i <= Len(s))
    <3>1. i - Len(s) \in 1 .. Len(t)
      BY <1>2, <2>2
    <3> QED BY <1>2, <1>3, <2>2, <3>1, ElementOfSeq
  <2> QED BY <2>1, <2>2
<1>6. ASSUME NEW i \in 1 .. Len(s) + Len(t), NEW k \in 1 .. Len(s) + Len(t), u[i] = u[k]
      PROVE  i = k
  <2>1. CASE i \in DOMAIN s /\ u[i] = s[i] /\ k \in DOMAIN s /\ u[k] = s[k]
    BY <1>6, <2>1 DEF IsInjective
  <2>2. CASE /\ i - Len(s) \in DOMAIN t /\ u[i] = t[i - Len(s)]
             /\ k - Len(s) \in DOMAIN t /\ u[k] = t[k - Len(s)]
    <3>1. i - Len(s) = k - Len(s)
      BY <1>6, <2>2 DEF IsInjective
    <3> QED BY <1>2, <3>1
  <2> QED BY <1>5, <1>6, <2>1, <2>2
<1>7. IsInjective(u)
  BY <1>4, <1>6 DEF IsInjective
<1> QED BY <1>3, <1>7 DEF u

\* Lists without repetitions and without common members.
LEMMA FlatDistinct ==
    ASSUME NEW n \in Nat, NEW ss, NEW SS,
           \A i \in 1 .. n : ss[i] \in Seq(SS[i]) /\ IsInjective(ss[i]),
           \A i, k \in 1 .. n : i # k => SS[i] \cap SS[k] = {}
    PROVE  Flat(ss, n) \in Seq(UNION {SS[i] : i \in 1 .. n}) /\ IsInjective(Flat(ss, n))
<1> DEFINE U(k) == UNION {SS[i] : i \in 1 .. k}
           P(k) == Flat(ss, k) \in Seq(U(k)) /\ IsInjective(Flat(ss, k))
           I == {k \in Nat : k \in 0 .. n => P(k)}
<1>1. Lists(ss, n, U(n))
  <2>1. ASSUME NEW i \in 1 .. n PROVE ss[i] \in Seq(U(n))
    <3>1. SS[i] \subseteq U(n)
      OBVIOUS
    <3> QED BY <3>1, SeqMonotonic
  <2> HIDE DEF U
  <2> QED BY <2>1 DEF Lists
<1>2. 0 \in I
  <2>1. <<>> \in Seq(U(0))
    BY EmptySeq
  <2>2. IsInjective(<<>>)
    BY DEF IsInjective
  <2> QED BY <2>1, <2>2, FlatOfNone
<1>3. ASSUME NEW k \in Nat, k \in I PROVE k + 1 \in I
  <2> SUFFICES ASSUME k + 1 \in 0 .. n PROVE P(k + 1)
    OBVIOUS
  <2>1. k \in 0 .. n /\ k + 1 \in 1 .. n
    OBVIOUS
  <2>2. Lists(ss, k + 1, U(n))
    <3> HIDE DEF U
    <3> QED BY <1>1, <2>1 DEF Lists
  <2>3. Flat(ss, k + 1) = Flat(ss, k) \o ss[k + 1]
    <3> HIDE DEF U
    <3> QED BY <2>2, FlatGrows
  <2>4. U(k) \cap SS[k + 1] = {}
    <3>1. \A i \in 1 .. k : SS[i] \cap SS[k + 1] = {}
      BY <2>1
    <3> QED BY <3>1
  <2>5. U(k + 1) = U(k) \cup SS[k + 1]
    <3>1. \A i \in 1 .. k + 1 : i \in 1 .. k \/ i = k + 1
      OBVIOUS
    <3> QED BY <3>1
  <2>6. Flat(ss, k) \in Seq(U(k)) /\ IsInjective(Flat(ss, k))
    BY <1>3, <2>1
  <2>7. ss[k + 1] \in Seq(SS[k + 1]) /\ IsInjective(ss[k + 1])
    BY <2>1
  <2> HIDE DEF U
  <2>8. /\ Flat(ss, k) \o ss[k + 1] \in Seq(U(k) \cup SS[k + 1])
        /\ IsInjective(Flat(ss, k) \o ss[k + 1])
    BY <2>4, <2>6, <2>7, ConcatDistinct
  <2> QED BY <2>3, <2>5, <2>8
<1> HIDE DEF I
<1>4. n \in I
  BY <1>2, <1>3, Counting
<1>5. n \in 0 .. n
  OBVIOUS
<1> QED BY <1>4, <1>5 DEF I

--------------------------------------------------------------------------------
(***************************************************************************)
(* The axes of a job and the steps on them.                                 *)
(***************************************************************************)
At(axis, i) == axis.start + (i - 1) * axis.size

LEMMA JobAxes ==
    ASSUME NEW j \in Jobs
    PROVE  /\ j.max \in Nat \ {0}
           /\ j.x \in Axis /\ j.x.start < j.x.stop /\ j.y \in Axis /\ j.y.start < j.y.stop
           /\ j.z \in Axis /\ j.z.start < j.z.stop /\ j.t \in Axis /\ j.t.start < j.t.stop
<1>1. \A v \in {"x", "y", "z", "t"} : j[v] \in Axis /\ j[v].start < j[v].stop
  BY PopulateConstants
<1> QED BY <1>1, PopulateConstants

LEMMA Factors ==
    ASSUME NEW axis \in Axis, axis.start < axis.stop
    PROVE  /\ Factor(axis) \in Nat \ {0}
           /\ (Factor(axis) - 1) * axis.size < axis.stop - axis.start
           /\ axis.stop - axis.start <= Factor(axis) * axis.size
<1>1. axis.stop - axis.start \in Nat \ {0} /\ axis.size \in Nat \ {0}
  BY DEF Axis
<1> QED BY <1>1, CeilingIs DEF Factor

\* The range of a loop that starts after k whole steps.
LEMMA StepsFrom ==
    ASSUME NEW axis \in Axis, axis.start < axis.stop, NEW k \in 0 .. Factor(axis)
    PROVE  /\ At(axis, k + 1) \in Nat
           /\ k < Factor(axis) => At(axis, k + 1) < axis.stop
           /\ Steps(At(axis, k + 1), axis) = [i \in 1 .. Factor(axis) - k |-> At(axis, k + i)]
<1>1. PICK n \in Nat \ {0}, a \in Nat, b \in Nat, d \in Nat \ {0} :
        n = Factor(axis) /\ a = axis.start /\ b = axis.stop /\ d = axis.size
  BY Factors DEF Axis
<1>2. a < b /\ (n - 1) * d < b - a /\ b - a <= n * d /\ k \in 0 .. n
  BY <1>1, Factors
<1>3. PICK c \in Nat : c = At(axis, k + 1) /\ c = a + k * d
  <2>1. (k + 1) - 1 = k
    BY <1>2
  <2> QED BY <1>1, <1>2, <2>1 DEF At
<1>4. k < n => c < b
  <2> SUFFICES ASSUME k < n PROVE c < b
    OBVIOUS
  <2>1. k * d <= (n - 1) * d
    BY <1>2, TimesMonotone
  <2> QED BY <1>2, <1>3, <2>1
<1>5. Ceiling(Smaller(0, c - b) * (-1), d) = n - k
  <2>1. CASE k < n
    <3>1. Smaller(0, c - b) * (-1) = b - c /\ b - c \in Nat
      BY <1>3, <1>4, <2>1 DEF Smaller
    <3>2. n - k \in Nat /\ (n - k - 1) * d = (n - 1) * d - k * d /\ (n - k) * d = n * d - k * d
      BY <1>2
    <3>3. (n - k - 1) * d < b - c /\ b - c <= (n - k) * d
      BY <1>2, <1>3, <3>2
    <3> QED BY <3>1, <3>2, <3>3, CeilingUnique
  <2>2. CASE ~ (k < n)
    <3>1. k = n /\ b <= c
      BY <1>2, <1>3, <2>2
    <3>2. Smaller(0, c - b) * (-1) = 0
      BY <1>3, <3>1 DEF Smaller
    <3>3. (0 - 1) * d < 0 /\ 0 <= 0 * d
      OBVIOUS
    <3>4. Ceiling(0, d) = 0
      BY <3>3, CeilingUnique
    <3> QED BY <3>1, <3>2, <3>4
  <2> QED BY <2>1, <2>2
<1>6. ASSUME NEW i \in 1 .. n - k PROVE c + (i - 1) * d = At(axis, k + i)
  <2>1. At(axis, k + i) = a + (k + i - 1) * d
    BY <1>1 DEF At
  <2>2. (k + i - 1) * d = k * d + (i - 1) * d
    BY <1>2
  <2> QED BY <1>2, <1>3, <2>1, <2>2
<1>7. Steps(c, axis) = [i \in 1 .. n - k |-> c + (i - 1) * d]
  BY <1>1, <1>5 DEF Steps
<1>8. Steps(c, axis) = [i \in 1 .. n - k |-> At(axis, k + i)]
  BY <1>6, <1>7
<1> QED BY <1>1, <1>3, <1>4, <1>8

LEMMA WholeAxis ==
    ASSUME NEW axis \in Axis, axis.start < axis.stop
    PROVE  Steps(axis.start, axis) = [i \in 1 .. Factor(axis) |-> At(axis, i)]
<1>1. At(axis, 0 + 1) = axis.start
  BY DEF At, Axis
<1>2. Factor(axis) \in Nat \ {0}
  BY Factors
<1>3. Steps(At(axis, 0 + 1), axis) = [i \in 1 .. Factor(axis) - 0 |-> At(axis, 0 + i)]
  <2>1. 0 \in 0 .. Factor(axis)
    BY <1>2
  <2> QED BY <2>1, StepsFrom
<1>4. \A i \in 1 .. Factor(axis) : 0 + i = i
  BY <1>2
<1>5. [i \in 1 .. Factor(axis) - 0 |-> At(axis, 0 + i)] = [i \in 1 .. Factor(axis) |-> At(axis, i)]
  BY <1>2, <1>4
<1> QED BY <1>1, <1>3, <1>5

\* The steps of an axis are numbers inside it, apart by at least one size.
LEMMA OnAxis ==
    ASSUME NEW axis \in Axis, axis.start < axis.stop,
           NEW i \in 1 .. Factor(axis)
    PROVE  /\ At(axis, i) \in Nat /\ axis.start <= At(axis, i) /\ At(axis, i) < axis.stop
           /\ At(axis, i) \div axis.size = axis.start \div axis.size + i - 1
           /\ axis.start \div axis.size \in Nat
           /\ \A k \in 1 .. Factor(axis) : i < k => At(axis, i) + axis.size <= At(axis, k)
<1>1. PICK n \in Nat \ {0}, a \in Nat, b \in Nat, d \in Nat \ {0} :
        n = Factor(axis) /\ a = axis.start /\ b = axis.stop /\ d = axis.size
  BY Factors DEF Axis
<1>2. At(axis, i) \in Nat /\ At(axis, i) = a + (i - 1) * d
  <2>1. i - 1 \in Nat /\ (i - 1) * d \in Nat
    BY <1>1
  <2> QED BY <1>1, <2>1 DEF At
<1>3. At(axis, i) < b
  <2>1. i - 1 \in 0 .. n /\ i - 1 < n /\ (i - 1) + 1 = i
    BY <1>1
  <2> QED BY <1>1, <2>1, StepsFrom
<1>4. PICK q \in Nat, r \in 0 .. d - 1 : q = a \div d /\ a = q * d + r
  BY Divided
<1>5. At(axis, i) \div d = q + i - 1
  <2>1. q + i - 1 \in Nat /\ (q + i - 1) * d = q * d + (i - 1) * d
    BY <1>1, <1>4
  <2>2. q * d \in Nat /\ (i - 1) * d \in Nat
    BY <1>1, <1>4
  <2>3. (q + i - 1) * d <= At(axis, i) /\ At(axis, i) < (q + i - 1) * d + d
    BY <1>2, <1>4, <2>1, <2>2
  <2> QED BY <1>2, <2>1, <2>3, Quotient
<1>6. ASSUME NEW k \in 1 .. n, i < k PROVE At(axis, i) + d <= At(axis, k)
  <2>1. i - 1 \in Nat /\ k - 1 \in Nat /\ (i - 1) + 1 <= k - 1
    BY <1>1, <1>6
  <2>2. ((i - 1) + 1) * d <= (k - 1) * d /\ ((i - 1) + 1) * d = (i - 1) * d + d
    BY <2>1, TimesMonotone
  <2>3. At(axis, k) = a + (k - 1) * d
    BY <1>1 DEF At
  <2>4. (i - 1) * d \in Nat /\ (k - 1) * d \in Nat
    BY <2>1
  <2> QED BY <1>2, <2>2, <2>3, <2>4
<1>7. a <= At(axis, i)
  <2>1. (i - 1) * d \in Nat
    BY <1>1
  <2> QED BY <1>2, <2>1
<1> QED BY <1>1, <1>2, <1>3, <1>4, <1>5, <1>6, <1>7

\* A list of n members of S, all different.
Good(s, S, n) == s \in Seq(S) /\ Len(s) = n /\ IsInjective(s)

\* Lists of length m, but for the last, that have no common members.
Parts(ss, SS, S, n, m, c) ==
    /\ \A i \in 1 .. n : SS[i] \subseteq S /\ Good(ss[i], SS[i], IF i < n THEN m ELSE c)
    /\ \A i, k \in 1 .. n : i # k => SS[i] \cap SS[k] = {}

LEMMA FlatGood ==
    ASSUME NEW n \in Nat \ {0}, NEW m \in Nat, NEW c \in Nat, NEW S, NEW ss, NEW SS,
           Parts(ss, SS, S, n, m, c)
    PROVE  /\ Lists(ss, n, S)
           /\ Good(Flat(ss, n), S, (n - 1) * m + c)
           /\ \A k \in 0 .. n - 1 : Len(Flat(ss, k)) = k * m
<1>0. /\ \A i \in 1 .. n : SS[i] \subseteq S /\ Good(ss[i], SS[i], IF i < n THEN m ELSE c)
      /\ \A i, k \in 1 .. n : i # k => SS[i] \cap SS[k] = {}
  BY DEF Parts
<1>1. \A i \in 1 .. n : ss[i] \in Seq(SS[i]) /\ IsInjective(ss[i])
  BY <1>0 DEF Good
<1>2. Lists(ss, n, S)
  <2>1. ASSUME NEW i \in 1 .. n PROVE ss[i] \in Seq(S)
    BY <1>0, <1>1, SeqMonotonic
  <2> QED BY <2>1 DEF Lists
<1>3. Flat(ss, n) \in Seq(S) /\ IsInjective(Flat(ss, n))
  <2>1. UNION {SS[i] : i \in 1 .. n} \subseteq S
    BY <1>0
  <2>2. Flat(ss, n) \in Seq(UNION {SS[i] : i \in 1 .. n}) /\ IsInjective(Flat(ss, n))
    BY <1>0, <1>1, FlatDistinct
  <2> QED BY <2>1, <2>2, SeqMonotonic
<1>4. \A k \in 0 .. n - 1 : Len(Flat(ss, k)) = k * m
  <2>1. n - 1 \in Nat /\ Lists(ss, n - 1, S)
    BY <1>2 DEF Lists
  <2>2. \A i \in 1 .. n - 1 : Len(ss[i]) = m
    BY <1>0 DEF Good
  <2> QED BY <2>1, <2>2, FlatLength
<1>5. Len(Flat(ss, n)) = (n - 1) * m + c
  <2>1. n - 1 \in Nat /\ n \in Nat /\ (n - 1) + 1 = n /\ n - 1 \in 0 .. n - 1 /\ n - 1 \in 0 .. n
        /\ n \in 1 .. n /\ ~ (n < n)
    OBVIOUS
  <2>2. Flat(ss, n) = Flat(ss, n - 1) \o ss[n]
    BY <1>2, <2>1, FlatGrows
  <2>3. Flat(ss, n - 1) \in Seq(S) /\ ss[n] \in Seq(S)
    BY <1>2, <2>1, FlatIsList DEF Lists
  <2>4. Len(Flat(ss, n - 1)) = (n - 1) * m /\ Len(ss[n]) = c
    <3>1. Len(Flat(ss, n - 1)) = (n - 1) * m
      BY <1>4, <2>1
    <3>2. Len(ss[n]) = c
      BY <1>0, <2>1 DEF Good
    <3> QED BY <3>1, <3>2
  <2>5. Len(Flat(ss, n - 1) \o ss[n]) = Len(Flat(ss, n - 1)) + Len(ss[n])
    BY <2>3, ConcatProperties
  <2> QED BY <2>2, <2>4, <2>5
<1> QED BY <1>2, <1>3, <1>4, <1>5 DEF Good

\* The chunks of z do not overlap, and only the last may have fewer tiles.
LEMMA Depths ==
    ASSUME NEW j \in Jobs, NEW i \in 1 .. Factor(j.z)
    PROVE  /\ Depth(j, At(j.z, i)) \in Nat \ {0}
           /\ Depth(j, At(j.z, i)) = IF i < Factor(j.z) THEN j.z.size
                    ELSE j.z.stop - j.z.start - (Factor(j.z) - 1) * j.z.size
           /\ \A k \in 1 .. Factor(j.z) :
                i < k => At(j.z, i) + Depth(j, At(j.z, i)) <= At(j.z, k)
<1>1. j.z \in Axis /\ j.z.start < j.z.stop
  BY JobAxes
<1>2. PICK n \in Nat \ {0}, a \in Nat, b \in Nat, d \in Nat \ {0} :
        n = Factor(j.z) /\ a = j.z.start /\ b = j.z.stop /\ d = j.z.size
  BY <1>1, Factors DEF Axis
<1>3. PICK z \in Nat : z = At(j.z, i) /\ z = a + (i - 1) * d /\ z < b
  BY <1>1, <1>2, OnAxis DEF At
<1>4. Depth(j, z) = IF d < b - z THEN d ELSE b - z
  BY <1>2 DEF Depth, Smaller
<1>5. CASE i < n
  <2>1. i + 1 \in 1 .. n
    BY <1>2, <1>5
  <2>2. z + d <= At(j.z, i + 1) /\ At(j.z, i + 1) < b /\ At(j.z, i + 1) \in Nat
    <3>1. \A k \in 1 .. n : i < k => z + d <= At(j.z, k)
      BY <1>1, <1>2, <1>3, OnAxis
    <3>2. At(j.z, i + 1) < b /\ At(j.z, i + 1) \in Nat
      BY <1>1, <1>2, <2>1, OnAxis
    <3>3. i < i + 1
      OBVIOUS
    <3> QED BY <2>1, <3>1, <3>2, <3>3
  <2>3. d < b - z
    BY <1>2, <1>3, <2>2
  <2>4. Depth(j, z) = d
    BY <1>4, <2>3
  <2>5. \A k \in 1 .. n : i < k => z + d <= At(j.z, k)
    BY <1>1, <1>2, <1>3, OnAxis
  <2> QED BY <1>2, <1>3, <1>5, <2>4, <2>5
<1>6. CASE ~ (i < n)
  <2>1. i = n
    BY <1>2, <1>6
  <2>2. (n - 1) * d < b - a /\ b - a <= n * d
    BY <1>1, <1>2, Factors
  <2>3. (n - 1) * d = n * d - d /\ n * d \in Nat
    BY <1>2
  <2>4. b - z = b - a - (n - 1) * d /\ b - z <= d
    BY <1>2, <1>3, <2>1, <2>2, <2>3
  <2>5. Depth(j, z) = b - z
    BY <1>2, <1>3, <1>4, <2>4
  <2>6. \A k \in 1 .. n : ~ (i < k)
    BY <1>2, <2>1
  <2> QED BY <1>2, <1>3, <1>6, <2>4, <2>5, <2>6
<1> QED BY <1>5, <1>6

--------------------------------------------------------------------------------
(***************************************************************************)
(* The walk over all tiles, axis by axis.                                   *)
(***************************************************************************)
TilesOf(j, t, z, y, x) == [i \in 1 .. Depth(j, z) |-> Message(j, t, z, y, x, z + i - 1)]
OfX(j, t, z, y) == [i \in 1 .. Factor(j.x) |-> TilesOf(j, t, z, y, At(j.x, i))]
OfY(j, t, z) == [i \in 1 .. Factor(j.y) |-> Flat(OfX(j, t, z, At(j.y, i)), Factor(j.x))]
OfZ(j, t) == [i \in 1 .. Factor(j.z) |-> Flat(OfY(j, t, At(j.z, i)), Factor(j.y))]
OfT(j) == [i \in 1 .. Factor(j.t) |-> Flat(OfZ(j, At(j.t, i)), Factor(j.z))]

\* The tiles that have a step of the axes in common.
InT(t) == {m \in Tile : m.t = t}
InZ(j, t, z) == {m \in InT(t) : m.tile \in z .. z + Depth(j, z) - 1}
InY(j, t, z, y) == {m \in InZ(j, t, z) : m.y = y \div j.y.size}
InX(j, t, z, y, x) == {m \in InY(j, t, z, y) : m.x = x \div j.x.size}

\* x is a step of the axis.
OnStep(x, axis) == \E i \in 1 .. Factor(axis) : x = At(axis, i)

LEMMA TilesAreGood ==
    ASSUME NEW j \in Jobs, NEW t, OnStep(t, j.t), NEW z, OnStep(z, j.z), NEW y, OnStep(y, j.y),
           NEW x, OnStep(x, j.x)
    PROVE  Good(TilesOf(j, t, z, y, x), InX(j, t, z, y, x), Depth(j, z))
<1>0. /\ t \in Nat /\ z \in Nat /\ y \in Nat /\ x \in Nat /\ Depth(j, z) \in Nat
      /\ x \div j.x.size \in Nat /\ y \div j.y.size \in Nat /\ z \div j.z.size \in Nat
  <2>1. t \in Nat /\ z \in Nat /\ y \in Nat /\ x \in Nat
    BY JobAxes, OnAxis DEF OnStep
  <2>2. Depth(j, z) \in Nat
    BY Depths DEF OnStep
  <2>3. j.x.size \in Nat \ {0} /\ j.y.size \in Nat \ {0} /\ j.z.size \in Nat \ {0}
    BY JobAxes DEF Axis
  <2> QED BY <2>1, <2>2, <2>3, Divided
<1> DEFINE s == TilesOf(j, t, z, y, x)
           d == Depth(j, z)
<1>1. ASSUME NEW i \in 1 .. d
      PROVE  s[i] \in InX(j, t, z, y, x) /\ s[i].tile = z + i - 1
  <2>1. s[i] = Message(j, t, z, y, x, z + i - 1)
    BY DEF TilesOf
  <2>2. z + i - 1 \in Nat /\ z + i - 1 \in z .. z + d - 1
    BY <1>0
  <2>3. s[i] \in Tile
    BY <1>0, <2>1, <2>2 DEF Message, Tile
  <2>4. s[i].tile = z + i - 1 /\ s[i].t = t /\ s[i].y = y \div j.y.size /\ s[i].x = x \div j.x.size
    BY <2>1 DEF Message
  <2> QED BY <2>2, <2>3, <2>4 DEF InX, InY, InZ, InT
<1>2. DOMAIN s = 1 .. d
  BY DEF TilesOf
<1>3. s = [i \in 1 .. d |-> s[i]]
  BY DEF TilesOf
<1> HIDE DEF s
<1>4. s \in [1 .. d -> InX(j, t, z, y, x)]
  BY <1>1, <1>2, <1>3
<1> HIDE DEF d
<1>5. s \in Seq(InX(j, t, z, y, x)) /\ Len(s) = d
  BY <1>0, <1>2, <1>4 DEF d
<1>6. ASSUME NEW i \in 1 .. d, NEW k \in 1 .. d, s[i] = s[k] PROVE i = k
  BY <1>0, <1>1, <1>6 DEF d
<1>7. IsInjective(s)
  BY <1>2, <1>6 DEF IsInjective
<1> QED BY <1>5, <1>7 DEF Good, d, s

\* One row of x.
LEMMA RowIsGood ==
    ASSUME NEW j \in Jobs, NEW t, OnStep(t, j.t), NEW z, OnStep(z, j.z), NEW y, OnStep(y, j.y)
    PROVE  /\ Lists(OfX(j, t, z, y), Factor(j.x), InY(j, t, z, y))
           /\ Good(Flat(OfX(j, t, z, y), Factor(j.x)), InY(j, t, z, y),
                   Factor(j.x) * Depth(j, z))
           /\ \A k \in 0 .. Factor(j.x) - 1 :
                Len(Flat(OfX(j, t, z, y), k)) = k * Depth(j, z)
<1>1. PICK n \in Nat \ {0}, d \in Nat : n = Factor(j.x) /\ d = Depth(j, z)
  BY JobAxes, Factors, Depths DEF OnStep
<1> DEFINE SS == [i \in 1 .. n |-> InX(j, t, z, y, At(j.x, i))]
           ss == OfX(j, t, z, y)
<1>2. ASSUME NEW i \in 1 .. n
      PROVE  SS[i] \subseteq InY(j, t, z, y) /\ Good(ss[i], SS[i], IF i < n THEN d ELSE d)
  <2>1. OnStep(At(j.x, i), j.x)
    BY <1>1 DEF OnStep
  <2>2. ss[i] = TilesOf(j, t, z, y, At(j.x, i))
    BY <1>1 DEF OfX
  <2>3. Good(ss[i], SS[i], d)
    BY <1>1, <2>1, <2>2, TilesAreGood
  <2>4. SS[i] \subseteq InY(j, t, z, y)
    BY DEF InX
  <2> QED BY <2>3, <2>4
<1>3. ASSUME NEW i \in 1 .. n, NEW k \in 1 .. n, i # k PROVE SS[i] \cap SS[k] = {}
  <2>1. At(j.x, i) \div j.x.size # At(j.x, k) \div j.x.size
    <3>1. PICK q \in Nat : q = j.x.start \div j.x.size
      BY <1>1, JobAxes, OnAxis
    <3>2. At(j.x, i) \div j.x.size = q + i - 1 /\ At(j.x, k) \div j.x.size = q + k - 1
      BY <1>1, <3>1, JobAxes, OnAxis
    <3> QED BY <1>1, <1>3, <3>2
  <2> QED BY <2>1 DEF InX
<1>0. Parts(ss, SS, InY(j, t, z, y), n, d, d)
  BY <1>2, <1>3 DEF Parts
<1> HIDE DEF SS, ss
<1>4. /\ Lists(ss, n, InY(j, t, z, y))
      /\ Good(Flat(ss, n), InY(j, t, z, y), (n - 1) * d + d)
      /\ \A k \in 0 .. n - 1 : Len(Flat(ss, k)) = k * d
  BY <1>0, FlatGood
<1>5. (n - 1) * d + d = n * d
  BY <1>1
<1> QED BY <1>1, <1>4, <1>5 DEF ss

\* The rows of a chunk.
LEMMA ChunkIsGood ==
    ASSUME NEW j \in Jobs, NEW t, OnStep(t, j.t), NEW z, OnStep(z, j.z)
    PROVE  /\ Lists(OfY(j, t, z), Factor(j.y), InZ(j, t, z))
           /\ Good(Flat(OfY(j, t, z), Factor(j.y)), InZ(j, t, z),
                   Factor(j.y) * (Factor(j.x) * Depth(j, z)))
           /\ \A k \in 0 .. Factor(j.y) - 1 :
                Len(Flat(OfY(j, t, z), k)) = k * (Factor(j.x) * Depth(j, z))
<1>1. PICK n \in Nat \ {0}, d \in Nat : n = Factor(j.y) /\ d = Factor(j.x) * Depth(j, z)
  <2>1. Factor(j.y) \in Nat \ {0} /\ Factor(j.x) \in Nat /\ Depth(j, z) \in Nat
    BY JobAxes, Factors, Depths DEF OnStep
  <2> QED BY <2>1
<1> DEFINE SS == [i \in 1 .. n |-> InY(j, t, z, At(j.y, i))]
           ss == OfY(j, t, z)
<1>2. ASSUME NEW i \in 1 .. n
      PROVE  SS[i] \subseteq InZ(j, t, z) /\ Good(ss[i], SS[i], IF i < n THEN d ELSE d)
  <2>1. OnStep(At(j.y, i), j.y)
    BY <1>1 DEF OnStep
  <2>2. ss[i] = Flat(OfX(j, t, z, At(j.y, i)), Factor(j.x))
    BY <1>1 DEF OfY
  <2>3. Good(ss[i], SS[i], d)
    BY <1>1, <2>1, <2>2, RowIsGood
  <2>4. SS[i] \subseteq InZ(j, t, z)
    BY DEF InY
  <2> QED BY <2>3, <2>4
<1>3. ASSUME NEW i \in 1 .. n, NEW k \in 1 .. n, i # k PROVE SS[i] \cap SS[k] = {}
  <2>1. At(j.y, i) \div j.y.size # At(j.y, k) \div j.y.size
    <3>1. PICK q \in Nat : q = j.y.start \div j.y.size
      BY <1>1, JobAxes, OnAxis
    <3>2. At(j.y, i) \div j.y.size = q + i - 1 /\ At(j.y, k) \div j.y.size = q + k - 1
      BY <1>1, <3>1, JobAxes, OnAxis
    <3> QED BY <1>1, <1>3, <3>2
  <2> QED BY <2>1 DEF InY
<1>0. Parts(ss, SS, InZ(j, t, z), n, d, d)
  BY <1>2, <1>3 DEF Parts
<1> HIDE DEF SS, ss
<1>4. /\ Lists(ss, n, InZ(j, t, z))
      /\ Good(Flat(ss, n), InZ(j, t, z), (n - 1) * d + d)
      /\ \A k \in 0 .. n - 1 : Len(Flat(ss, k)) = k * d
  BY <1>0, FlatGood
<1>5. (n - 1) * d + d = n * d
  BY <1>1
<1> QED BY <1>1, <1>4, <1>5 DEF ss

\* The tiles of one layer of z.
Layer(j) == Factor(j.x) * Factor(j.y)

\* The chunks of one time.
LEMMA VolumeIsGood ==
    ASSUME NEW j \in Jobs, NEW t, OnStep(t, j.t)
    PROVE  /\ Lists(OfZ(j, t), Factor(j.z), InT(t))
           /\ Good(Flat(OfZ(j, t), Factor(j.z)), InT(t), Layer(j) * (j.z.stop - j.z.start))
           /\ \A k \in 0 .. Factor(j.z) - 1 :
                Len(Flat(OfZ(j, t), k)) = k * (j.z.size * Layer(j))
<1>1. PICK n \in Nat \ {0}, fx \in Nat, fy \in Nat, s \in Nat \ {0}, h \in Nat :
        /\ n = Factor(j.z) /\ fx = Factor(j.x) /\ fy = Factor(j.y) /\ s = j.z.size
        /\ h = j.z.stop - j.z.start /\ (n - 1) * s < h
  <2>1. j.z.size \in Nat \ {0} /\ j.z.stop - j.z.start \in Nat
    BY JobAxes DEF Axis
  <2> QED BY <2>1, JobAxes, Factors
<1>2. PICK layer \in Nat, c \in Nat : layer = fx * fy /\ c = h - (n - 1) * s
  <2>1. (n - 1) * s \in Nat /\ fx * fy \in Nat
    BY <1>1
  <2>2. h - (n - 1) * s \in Nat
    BY <1>1, <2>1
  <2> QED BY <2>1, <2>2
<1> DEFINE SS == [i \in 1 .. n |-> InZ(j, t, At(j.z, i))]
           ss == OfZ(j, t)
<1>3. ASSUME NEW i \in 1 .. n
      PROVE  /\ SS[i] \subseteq InT(t)
             /\ Good(ss[i], SS[i], IF i < n THEN s * layer ELSE c * layer)
  <2>1. OnStep(At(j.z, i), j.z)
    BY <1>1 DEF OnStep
  <2>2. ss[i] = Flat(OfY(j, t, At(j.z, i)), Factor(j.y))
    BY <1>1 DEF OfZ
  <2>3. PICK d \in Nat : d = Depth(j, At(j.z, i)) /\ d = IF i < n THEN s ELSE c
    BY <1>1, <1>2, Depths
  <2>4. Good(ss[i], SS[i], fy * (fx * d))
    BY <1>1, <2>1, <2>2, <2>3, ChunkIsGood
  <2>5. fy * (fx * d) = d * layer
    BY <1>2
  <2>6. SS[i] \subseteq InT(t)
    BY DEF InZ
  <2> QED BY <2>3, <2>4, <2>5, <2>6
<1>4. ASSUME NEW i \in 1 .. n, NEW k \in 1 .. n, i < k PROVE SS[i] \cap SS[k] = {}
  <2>1. PICK a \in Nat, b \in Nat, d \in Nat :
          a = At(j.z, i) /\ b = At(j.z, k) /\ d = Depth(j, At(j.z, i)) /\ a + d <= b
    BY <1>1, <1>4, JobAxes, OnAxis, Depths
  <2>2. SS[i] = InZ(j, t, a) /\ SS[k] = InZ(j, t, b)
    BY <2>1
  <2>3. \A m \in InZ(j, t, a) : m.tile \in a .. a + d - 1
    BY <2>1 DEF InZ
  <2>4. \A m \in InZ(j, t, b) : m.tile >= b
    <3>1. Depth(j, b) \in Nat
      BY <1>1, <2>1, Depths
    <3> QED BY <3>1 DEF InZ
  <2> QED BY <2>1, <2>2, <2>3, <2>4
<1>5. ASSUME NEW i \in 1 .. n, NEW k \in 1 .. n, i # k PROVE SS[i] \cap SS[k] = {}
  <2> HIDE DEF SS
  <2>1. i < k \/ k < i
    BY <1>5
  <2> QED BY <1>4, <2>1
<1>6. s * layer \in Nat /\ c * layer \in Nat
  OBVIOUS
<1>0. Parts(ss, SS, InT(t), n, s * layer, c * layer)
  BY <1>3, <1>5 DEF Parts
<1> HIDE DEF SS, ss
<1>7. /\ Lists(ss, n, InT(t))
      /\ Good(Flat(ss, n), InT(t), (n - 1) * (s * layer) + c * layer)
      /\ \A k \in 0 .. n - 1 : Len(Flat(ss, k)) = k * (s * layer)
  BY <1>0, <1>6, FlatGood
<1>8. (n - 1) * (s * layer) + c * layer = layer * h
  <2>1. PICK w \in Nat : w = (n - 1) * s
    BY <1>1
  <2>2. (n - 1) * (s * layer) = w * layer
    BY <1>1, <2>1
  <2>3. w * layer + c * layer = layer * h
    <3>1. h = w + c
      BY <1>2, <2>1
    <3> QED BY <3>1
  <2> QED BY <2>2, <2>3
<1> QED BY <1>1, <1>2, <1>7, <1>8 DEF ss, Layer

\* The whole job.
LEMMA WalkIsGood ==
    ASSUME NEW j \in Jobs
    PROVE  /\ Lists(OfT(j), Factor(j.t), Tile)
           /\ Good(Flat(OfT(j), Factor(j.t)), Tile, Total(j))
           /\ \A k \in 0 .. Factor(j.t) - 1 :
                Len(Flat(OfT(j), k)) = k * (Layer(j) * (j.z.stop - j.z.start))
<1>1. PICK n \in Nat \ {0}, d \in Nat :
        n = Factor(j.t) /\ d = Layer(j) * (j.z.stop - j.z.start)
  <2>1. Factor(j.x) \in Nat /\ Factor(j.y) \in Nat /\ Factor(j.t) \in Nat \ {0}
    BY JobAxes, Factors
  <2>2. j.z.stop - j.z.start \in Nat
    BY JobAxes DEF Axis
  <2>3. Layer(j) \in Nat
    BY <2>1 DEF Layer
  <2> QED BY <2>1, <2>2, <2>3
<1> DEFINE SS == [i \in 1 .. n |-> InT(At(j.t, i))]
           ss == OfT(j)
<1>2. ASSUME NEW i \in 1 .. n
      PROVE  SS[i] \subseteq Tile /\ Good(ss[i], SS[i], IF i < n THEN d ELSE d)
  <2>1. OnStep(At(j.t, i), j.t)
    BY <1>1 DEF OnStep
  <2>2. ss[i] = Flat(OfZ(j, At(j.t, i)), Factor(j.z))
    BY <1>1 DEF OfT
  <2>3. Good(ss[i], SS[i], d)
    BY <1>1, <2>1, <2>2, VolumeIsGood
  <2>4. SS[i] \subseteq Tile
    BY DEF InT
  <2> QED BY <2>3, <2>4
<1>3. ASSUME NEW i \in 1 .. n, NEW k \in 1 .. n, i # k PROVE SS[i] \cap SS[k] = {}
  <2>1. At(j.t, i) # At(j.t, k)
    <3>1. PICK q \in Nat : q = j.t.start \div j.t.size
      BY <1>1, JobAxes, OnAxis
    <3>2. At(j.t, i) \div j.t.size = q + i - 1 /\ At(j.t, k) \div j.t.size = q + k - 1
      BY <1>1, <3>1, JobAxes, OnAxis
    <3> QED BY <1>1, <1>3, <3>2
  <2> QED BY <2>1 DEF InT
<1>0. Parts(ss, SS, Tile, n, d, d)
  BY <1>2, <1>3 DEF Parts
<1> HIDE DEF SS, ss
<1>4. /\ Lists(ss, n, Tile)
      /\ Good(Flat(ss, n), Tile, (n - 1) * d + d)
      /\ \A k \in 0 .. n - 1 : Len(Flat(ss, k)) = k * d
  BY <1>0, FlatGood
<1>5. (n - 1) * d + d = Total(j)
  <2>1. PICK fx \in Nat, fy \in Nat, h \in Nat :
          fx = Factor(j.x) /\ fy = Factor(j.y) /\ h = j.z.stop - j.z.start
    <3>1. j.z.stop - j.z.start \in Nat
      BY JobAxes DEF Axis
    <3> QED BY <3>1, JobAxes, Factors
  <2>2. d = fx * fy * h /\ Total(j) = fx * fy * h * n
    BY <1>1, <2>1 DEF Total, Layer
  <2>3. (n - 1) * d + d = d * n
    BY <1>1
  <2> QED BY <2>2, <2>3
<1> QED BY <1>1, <1>4, <1>5 DEF ss

\* What the test expects is this walk.
ForX(j, t, z, y) == For(j.x, LAMBDA x : TilesOf(j, t, z, y, x))
ForY(j, t, z) == For(j.y, LAMBDA y : ForX(j, t, z, y))
ForZ(j, t) == For(j.z, LAMBDA z : ForY(j, t, z))

LEMMA ExpectedIsWalk ==
    ASSUME NEW j \in Jobs PROVE Expected(j) = Flat(OfT(j), Factor(j.t))
<1>1. ASSUME NEW t, NEW z, NEW y PROVE ForX(j, t, z, y) = Flat(OfX(j, t, z, y), Factor(j.x))
  <2> DEFINE all == Steps(j.x.start, j.x)
  <2>1. all = [i \in 1 .. Factor(j.x) |-> At(j.x, i)]
    BY JobAxes, WholeAxis
  <2> HIDE DEF all
  <2>2. [i \in DOMAIN all |-> TilesOf(j, t, z, y, all[i])] = OfX(j, t, z, y)
    BY <2>1 DEF OfX
  <2>3. ForX(j, t, z, y) = FlattenSeq(OfX(j, t, z, y))
    BY <2>2 DEF ForX, For, all
  <2>4. OfX(j, t, z, y) = [i \in 1 .. Factor(j.x) |-> OfX(j, t, z, y)[i]]
    BY DEF OfX
  <2> QED BY <2>3, <2>4 DEF Flat
<1>2. ASSUME NEW t, NEW z PROVE ForY(j, t, z) = Flat(OfY(j, t, z), Factor(j.y))
  <2> DEFINE all == Steps(j.y.start, j.y)
  <2>1. all = [i \in 1 .. Factor(j.y) |-> At(j.y, i)]
    BY JobAxes, WholeAxis
  <2> HIDE DEF all
  <2>2. [i \in DOMAIN all |-> ForX(j, t, z, all[i])] = OfY(j, t, z)
    BY <1>1, <2>1 DEF OfY
  <2>3. ForY(j, t, z) = FlattenSeq(OfY(j, t, z))
    BY <2>2 DEF ForY, For, all
  <2>4. OfY(j, t, z) = [i \in 1 .. Factor(j.y) |-> OfY(j, t, z)[i]]
    BY DEF OfY
  <2> QED BY <2>3, <2>4 DEF Flat
<1>3. ASSUME NEW t PROVE ForZ(j, t) = Flat(OfZ(j, t), Factor(j.z))
  <2> DEFINE all == Steps(j.z.start, j.z)
  <2>1. all = [i \in 1 .. Factor(j.z) |-> At(j.z, i)]
    BY JobAxes, WholeAxis
  <2> HIDE DEF all
  <2>2. [i \in DOMAIN all |-> ForY(j, t, all[i])] = OfZ(j, t)
    BY <1>2, <2>1 DEF OfZ
  <2>3. ForZ(j, t) = FlattenSeq(OfZ(j, t))
    BY <2>2 DEF ForZ, For, all
  <2>4. OfZ(j, t) = [i \in 1 .. Factor(j.z) |-> OfZ(j, t)[i]]
    BY DEF OfZ
  <2> QED BY <2>3, <2>4 DEF Flat
<1>4. Expected(j) = FlattenSeq(OfT(j))
  <2> DEFINE all == Steps(j.t.start, j.t)
  <2>1. all = [i \in 1 .. Factor(j.t) |-> At(j.t, i)]
    BY JobAxes, WholeAxis
  <2> HIDE DEF all
  <2>2. [i \in DOMAIN all |-> ForZ(j, all[i])] = OfT(j)
    BY <1>3, <2>1 DEF OfT
  <2>3. Expected(j) = For(j.t, LAMBDA t : ForZ(j, t))
    BY DEF Expected, ForZ, ForY, ForX, For, TilesOf
  <2> QED BY <2>2, <2>3 DEF For, all
<1>5. OfT(j) = [i \in 1 .. Factor(j.t) |-> OfT(j)[i]]
  BY DEF OfT
<1> QED BY <1>4, <1>5 DEF Flat

--------------------------------------------------------------------------------
(***************************************************************************)
(* The loops of a lambda, which start somewhere.                            *)
(***************************************************************************)
\* The iterations from step k + 1 on: G while no tile has been made, then ss.
Resumed(G, ss, k, n) ==
    [i \in 1 .. n - k |-> IF \A m \in 1 .. i - 1 : G[m] = <<>> THEN G[i] ELSE ss[k + i]]

Resumes(G, ss, k, n, r, S) ==
    /\ Lists(ss, n, S) /\ k \in 0 .. n - 1
    /\ r \in Nat /\ r < Len(ss[k + 1]) /\ G[1] = Drop(ss[k + 1], r)

\* From list k + 1 and its entry r + 1, with everything after them: the first
\* iteration has made tiles, so those that follow start where their axes do.
LEMMA LoopResumes ==
    ASSUME NEW S, NEW n, NEW ss, NEW k, NEW r, NEW G, Resumes(G, ss, k, n, r, S)
    PROVE  FlattenSeq(Resumed(G, ss, k, n)) = Drop(Flat(ss, n), Len(Flat(ss, k)) + r)
<1> DEFINE tt == [i \in 1 .. n - k |->
                    IF \A m \in 1 .. i - 1 : G[m] = <<>> THEN G[i] ELSE ss[k + i]]
<1>0. /\ Lists(ss, n, S) /\ n \in Nat /\ k \in 0 .. n - 1
      /\ r \in Nat /\ r < Len(ss[k + 1]) /\ G[1] = Drop(ss[k + 1], r)
  BY DEF Resumes, Lists
<1>1. ss[k + 1] \in Seq(S) /\ n - k \in Nat \ {0}
  BY <1>0 DEF Lists
<1>2. r \in 0 .. Len(ss[k + 1])
  BY <1>0, <1>1, LenProperties
<1>3. G[1] # <<>>
  <2>1. Len(G[1]) = Len(ss[k + 1]) - r /\ Len(ss[k + 1]) \in Nat
    BY <1>0, <1>1, <1>2, DropIsList, LenProperties
  <2>2. Len(<<>>) = 0
    BY EmptySeq
  <2> QED BY <1>0, <2>1, <2>2
<1>4. tt[1] = Drop(ss[k + 1], r)
  <2>1. 1 \in 1 .. n - k /\ \A m \in 1 .. 1 - 1 : G[m] = <<>>
    BY <1>1
  <2> QED BY <1>0, <2>1
<1>5. ASSUME NEW i \in 2 .. n - k PROVE tt[i] = ss[k + i]
  <2>1. i \in 1 .. n - k /\ 1 \in 1 .. i - 1
    BY <1>1
  <2> QED BY <1>3, <2>1
<1>6. FlattenSeq(tt) = Flat(tt, n - k)
  BY DEF Flat
<1> HIDE DEF tt
<1>7. Flat(tt, n - k) = Drop(Flat(ss, n), Len(Flat(ss, k)) + r)
  <2>1. Lists(ss, n, S) /\ k \in 0 .. n - 1
    BY <1>0
  <2>2. \A i \in 2 .. n - k : tt[i] = ss[k + i]
    BY <1>5
  <2> QED BY <1>2, <1>4, <2>1, <2>2, FlatResumes
<1> QED BY <1>6, <1>7 DEF Resumed, tt

\* The innermost loop after the first tile, and before.
AllTiles(j, b, t, z, y, x) == LoopTiles(j, b, FALSE, t, z, y, x)
SomeTiles(j, b, t, z, y, x) == LoopTiles(j, b, TRUE, t, z, y, x)

LEMMA TilesFromStart ==
    ASSUME NEW j \in Jobs, NEW b, NEW t, NEW z, OnStep(z, j.z), NEW y, NEW x
    PROVE  AllTiles(j, b, t, z, y, x) = TilesOf(j, t, z, y, x)
<1>1. z \in Nat /\ Depth(j, z) \in Nat
  BY JobAxes, OnAxis, Depths DEF OnStep
<1>2. Depth(j, z) - 0 = Depth(j, z) /\ \A i \in 1 .. Depth(j, z) : z + 0 + i - 1 = z + i - 1
  BY <1>1
<1> QED BY <1>2 DEF AllTiles, LoopTiles, TilesOf

LEMMA TilesResume ==
    ASSUME NEW j \in Jobs, NEW b, NEW t, NEW z, OnStep(z, j.z), NEW y, NEW x,
           b.tile \in 0 .. Depth(j, z) - 1,
           NEW S, TilesOf(j, t, z, y, x) \in Seq(S)
    PROVE  SomeTiles(j, b, t, z, y, x) = Drop(TilesOf(j, t, z, y, x), b.tile)
<1>1. PICK d \in Nat, r \in Nat : d = Depth(j, z) /\ r = b.tile /\ r < d /\ z \in Nat
  BY JobAxes, OnAxis, Depths DEF OnStep
<1> DEFINE u == TilesOf(j, t, z, y, x)
           v == SomeTiles(j, b, t, z, y, x)
<1>2. u = [i \in 1 .. d |-> Message(j, t, z, y, x, z + i - 1)]
  BY <1>1 DEF TilesOf
<1>3. v = [i \in 1 .. d - r |-> Message(j, t, z, y, x, z + r + i - 1)]
  BY <1>1 DEF SomeTiles, LoopTiles
<1>4. Len(u) = d
  BY <1>2, LenProperties
<1> HIDE DEF u, v
<1>5. v = [i \in 1 .. d - r |-> u[r + i]]
  <2>1. ASSUME NEW i \in 1 .. d - r PROVE Message(j, t, z, y, x, z + r + i - 1) = u[r + i]
    <3>1. r + i \in 1 .. d /\ z + (r + i) - 1 = z + r + i - 1
      BY <1>1, SMTT(30)
    <3> QED BY <1>2, <3>1
  <2> QED BY <1>3, <2>1
<1>6. Drop(u, r) \in Seq(S) /\ Len(Drop(u, r)) = d - r /\ u \in Seq(S)
  <2>1. r \in 0 .. Len(u) /\ u \in Seq(S)
    BY <1>1, <1>4 DEF u
  <2> QED BY <1>4, <2>1, DropIsList
<1>7. ASSUME NEW i \in 1 .. d - r PROVE Drop(u, r)[i] = u[r + i]
  <2>1. i \in 1 .. Len(u) - r /\ Len(u) \in Nat /\ r \in Nat
    BY <1>1, <1>4
  <2>2. Drop(u, r)[i] = u[i + r]
    <3>1. \A k \in r + 1 .. Len(u) : u[k] \in S
      BY <1>6, <2>1, ElementOfSeq
    <3>2. \A k \in 1 .. Len(u) - (r + 1) + 1 : Drop(u, r)[k] = u[(r + 1) + k - 1]
      BY <2>1, <3>1, SubSeqProperties DEF Drop
    <3>3. i \in 1 .. Len(u) - (r + 1) + 1 /\ (r + 1) + i - 1 = i + r
      BY <2>1
    <3> QED BY <3>2, <3>3
  <2> QED BY <1>1, <2>2
<1>8. Drop(u, r) = [i \in 1 .. d - r |-> Drop(u, r)[i]]
  BY <1>6, LenProperties
<1>9. Drop(u, r) = v
  BY <1>5, <1>7, <1>8
<1> QED BY <1>1, <1>9 DEF u, v

LEMMA RowFromStart ==
    ASSUME NEW j \in Jobs, NEW b, NEW t, NEW z, OnStep(z, j.z), NEW y
    PROVE  LoopX(j, b, FALSE, t, z, y) = Flat(OfX(j, t, z, y), Factor(j.x))
<1> DEFINE all == Steps(j.x.start, j.x)
<1>1. all = [i \in 1 .. Factor(j.x) |-> At(j.x, i)]
  BY JobAxes, WholeAxis
<1>2. LoopX(j, b, FALSE, t, z, y) = FlattenSeq([i \in DOMAIN all |-> LoopTiles(j, b, FALSE, t, z, y, all[i])])
  BY DEF LoopX, Loop
<1> HIDE DEF all
<1>3. [i \in DOMAIN all |-> LoopTiles(j, b, FALSE, t, z, y, all[i])] = OfX(j, t, z, y)
  <2>1. ASSUME NEW i \in 1 .. Factor(j.x)
        PROVE  LoopTiles(j, b, FALSE, t, z, y, At(j.x, i)) = OfX(j, t, z, y)[i]
    <3>1. OfX(j, t, z, y)[i] = TilesOf(j, t, z, y, At(j.x, i))
      BY DEF OfX
    <3>2. AllTiles(j, b, t, z, y, At(j.x, i)) = TilesOf(j, t, z, y, At(j.x, i))
      BY TilesFromStart
    <3> QED BY <3>1, <3>2 DEF AllTiles
  <2> QED BY <1>1, <2>1 DEF OfX
<1>4. OfX(j, t, z, y) = [i \in 1 .. Factor(j.x) |-> OfX(j, t, z, y)[i]]
  BY DEF OfX
<1> QED BY <1>2, <1>3, <1>4 DEF Flat

LEMMA ChunkFromStart ==
    ASSUME NEW j \in Jobs, NEW b, NEW t, NEW z, OnStep(z, j.z)
    PROVE  LoopY(j, b, FALSE, t, z) = Flat(OfY(j, t, z), Factor(j.y))
<1> DEFINE all == Steps(j.y.start, j.y)
<1>1. all = [i \in 1 .. Factor(j.y) |-> At(j.y, i)]
  BY JobAxes, WholeAxis
<1>2. LoopY(j, b, FALSE, t, z) = FlattenSeq([i \in DOMAIN all |-> LoopX(j, b, FALSE, t, z, all[i])])
  BY DEF LoopY, Loop
<1> HIDE DEF all
<1>3. [i \in DOMAIN all |-> LoopX(j, b, FALSE, t, z, all[i])] = OfY(j, t, z)
  <2>1. ASSUME NEW i \in 1 .. Factor(j.y)
        PROVE  LoopX(j, b, FALSE, t, z, At(j.y, i)) = OfY(j, t, z)[i]
    <3>1. OnStep(At(j.y, i), j.y)
      BY DEF OnStep
    <3> QED BY <3>1, RowFromStart DEF OfY
  <2> QED BY <1>1, <2>1 DEF OfY
<1>4. OfY(j, t, z) = [i \in 1 .. Factor(j.y) |-> OfY(j, t, z)[i]]
  BY DEF OfY
<1> QED BY <1>2, <1>3, <1>4 DEF Flat

LEMMA VolumeFromStart ==
    ASSUME NEW j \in Jobs, NEW b, NEW t
    PROVE  LoopZ(j, b, FALSE, t) = Flat(OfZ(j, t), Factor(j.z))
<1> DEFINE all == Steps(j.z.start, j.z)
<1>1. all = [i \in 1 .. Factor(j.z) |-> At(j.z, i)]
  BY JobAxes, WholeAxis
<1>2. LoopZ(j, b, FALSE, t) = FlattenSeq([i \in DOMAIN all |-> LoopY(j, b, FALSE, t, all[i])])
  BY DEF LoopZ, Loop
<1> HIDE DEF all
<1>3. [i \in DOMAIN all |-> LoopY(j, b, FALSE, t, all[i])] = OfZ(j, t)
  <2>1. ASSUME NEW i \in 1 .. Factor(j.z)
        PROVE  LoopY(j, b, FALSE, t, At(j.z, i)) = OfZ(j, t)[i]
    <3>1. OnStep(At(j.z, i), j.z)
      BY DEF OnStep
    <3> QED BY <3>1, ChunkFromStart DEF OfZ
  <2> QED BY <1>1, <2>1 DEF OfZ
<1>4. OfZ(j, t) = [i \in 1 .. Factor(j.z) |-> OfZ(j, t)[i]]
  BY DEF OfZ
<1> QED BY <1>2, <1>3, <1>4 DEF Flat

\* A row starts at step k + 1 of x and inside its column, which is after q tiles.
RowStarts(j, b, z, k, q) ==
    /\ k \in 0 .. Factor(j.x) - 1 /\ b.x = At(j.x, k + 1)
    /\ b.tile \in 0 .. Depth(j, z) - 1 /\ q = k * Depth(j, z) + b.tile

LEMMA RowResumes ==
    ASSUME NEW j \in Jobs, NEW t, OnStep(t, j.t), NEW z, OnStep(z, j.z), NEW y, OnStep(y, j.y),
           NEW b, NEW k, NEW q, RowStarts(j, b, z, k, q)
    PROVE  LoopX(j, b, TRUE, t, z, y) = Drop(Flat(OfX(j, t, z, y), Factor(j.x)), q)
<1> DEFINE ss == OfX(j, t, z, y)
           S == InY(j, t, z, y)
           steps == Steps(b.x, j.x)
           n == Factor(j.x)
           G == [m \in 1 .. n - k |-> SomeTiles(j, b, t, z, y, At(j.x, k + m))]
<1>begin. /\ k \in 0 .. Factor(j.x) - 1 /\ b.x = At(j.x, k + 1)
          /\ b.tile \in 0 .. Depth(j, z) - 1 /\ q = k * Depth(j, z) + b.tile
  BY DEF RowStarts
<1>0. n \in Nat \ {0} /\ k \in 0 .. n /\ k \in 0 .. n - 1 /\ k + 1 \in 1 .. n /\ 1 \in 1 .. n - k
  BY <1>begin, JobAxes, Factors
<1>1. steps = [i \in 1 .. n - k |-> At(j.x, k + i)]
  BY <1>begin, <1>0, JobAxes, StepsFrom
<1>2. LoopX(j, b, TRUE, t, z, y) = FlattenSeq([i \in DOMAIN steps |->
        IF \A m \in 1 .. i - 1 : SomeTiles(j, b, t, z, y, steps[m]) = <<>>
        THEN SomeTiles(j, b, t, z, y, steps[i]) ELSE AllTiles(j, b, t, z, y, steps[i])])
  BY DEF LoopX, Loop, SomeTiles, AllTiles
<1> HIDE DEF steps, n
<1>3. ASSUME NEW i \in 1 .. n - k
      PROVE  /\ steps[i] = At(j.x, k + i) /\ SomeTiles(j, b, t, z, y, steps[i]) = G[i]
             /\ AllTiles(j, b, t, z, y, steps[i]) = ss[k + i]
  <2>1. k + i \in 1 .. n
    BY <1>0
  <2>2. ss[k + i] = TilesOf(j, t, z, y, At(j.x, k + i))
    BY <2>1 DEF OfX, n
  <2>3. AllTiles(j, b, t, z, y, At(j.x, k + i)) = TilesOf(j, t, z, y, At(j.x, k + i))
    BY TilesFromStart
  <2> QED BY <1>1, <2>2, <2>3
<1>4. [i \in DOMAIN steps |->
        IF \A m \in 1 .. i - 1 : SomeTiles(j, b, t, z, y, steps[m]) = <<>>
        THEN SomeTiles(j, b, t, z, y, steps[i]) ELSE AllTiles(j, b, t, z, y, steps[i])]
      = Resumed(G, ss, k, n)
  <2>1. DOMAIN steps = 1 .. n - k
    BY <1>1
  <2>2. \A i \in 1 .. n - k : \A m \in 1 .. i - 1 : m \in 1 .. n - k
    BY <1>0
  <2> HIDE DEF G, ss
  <2> QED BY <1>3, <2>1, <2>2 DEF Resumed
<1>5. Lists(ss, n, S) /\ Len(Flat(ss, k)) = k * Depth(j, z)
  BY <1>0, RowIsGood DEF n
<1>6. OnStep(At(j.x, k + 1), j.x) /\ ss[k + 1] = TilesOf(j, t, z, y, At(j.x, k + 1))
  BY <1>0 DEF OnStep, OfX, n
<1>7. ss[k + 1] \in Seq(S) /\ Len(ss[k + 1]) = Depth(j, z)
  <2>1. ss[k + 1] \in Seq(S)
    BY <1>0, <1>5 DEF Lists
  <2>2. Good(ss[k + 1], InX(j, t, z, y, At(j.x, k + 1)), Depth(j, z))
    BY <1>6, TilesAreGood
  <2> QED BY <2>1, <2>2 DEF Good
<1>8. G[1] = Drop(ss[k + 1], b.tile)
  <2>1. SomeTiles(j, b, t, z, y, At(j.x, k + 1)) = Drop(ss[k + 1], b.tile)
    BY <1>begin, <1>6, <1>7, TilesResume
  <2> QED BY <1>0, <2>1
<1>9. PICK r \in Nat : r = b.tile /\ r < Len(ss[k + 1])
  <2>1. Depth(j, z) \in Nat
    BY Depths DEF OnStep
  <2> QED BY <1>begin, <1>7, <2>1
<1> HIDE DEF ss, S, G
<1>10. FlattenSeq(Resumed(G, ss, k, n)) = Drop(Flat(ss, n), Len(Flat(ss, k)) + r)
  <2>1. Resumes(G, ss, k, n, r, S)
    BY <1>0, <1>5, <1>8, <1>9 DEF Resumes
  <2> QED BY <2>1, LoopResumes
<1> QED BY <1>2, <1>4, <1>5, <1>9, <1>10, <1>begin DEF ss, n

\* A chunk starts at step k + 1 of y, r tiles into its row, which is after q tiles.
ChunkStarts(j, b, z, k, r, q) ==
    /\ k \in 0 .. Factor(j.y) - 1 /\ b.y = At(j.y, k + 1)
    /\ r \in Nat /\ r < Factor(j.x) * Depth(j, z)
    /\ q = k * (Factor(j.x) * Depth(j, z)) + r

LEMMA ChunkResumes ==
    ASSUME NEW j \in Jobs, NEW t, OnStep(t, j.t), NEW z, OnStep(z, j.z),
           NEW b, NEW k, NEW r, NEW q, ChunkStarts(j, b, z, k, r, q),
           LoopX(j, b, TRUE, t, z, b.y) = Drop(Flat(OfX(j, t, z, b.y), Factor(j.x)), r)
    PROVE  LoopY(j, b, TRUE, t, z) = Drop(Flat(OfY(j, t, z), Factor(j.y)), q)
<1> DEFINE ss == OfY(j, t, z)
           S == InZ(j, t, z)
           steps == Steps(b.y, j.y)
           n == Factor(j.y)
           G == [m \in 1 .. n - k |-> LoopX(j, b, TRUE, t, z, At(j.y, k + m))]
<1>begin. /\ k \in 0 .. Factor(j.y) - 1 /\ b.y = At(j.y, k + 1)
          /\ r \in Nat /\ r < Factor(j.x) * Depth(j, z)
          /\ q = k * (Factor(j.x) * Depth(j, z)) + r
  BY DEF ChunkStarts
<1>0. n \in Nat \ {0} /\ k \in 0 .. n /\ k \in 0 .. n - 1 /\ k + 1 \in 1 .. n /\ 1 \in 1 .. n - k
  BY <1>begin, JobAxes, Factors
<1>1. steps = [i \in 1 .. n - k |-> At(j.y, k + i)]
  BY <1>begin, <1>0, JobAxes, StepsFrom
<1>2. LoopY(j, b, TRUE, t, z) = FlattenSeq([i \in DOMAIN steps |->
        IF \A m \in 1 .. i - 1 : LoopX(j, b, TRUE, t, z, steps[m]) = <<>>
        THEN LoopX(j, b, TRUE, t, z, steps[i]) ELSE LoopX(j, b, FALSE, t, z, steps[i])])
  BY DEF LoopY, Loop
<1> HIDE DEF steps, n
<1>3. ASSUME NEW i \in 1 .. n - k
      PROVE  /\ steps[i] = At(j.y, k + i) /\ LoopX(j, b, TRUE, t, z, steps[i]) = G[i]
             /\ LoopX(j, b, FALSE, t, z, steps[i]) = ss[k + i]
  <2>1. k + i \in 1 .. n
    BY <1>0
  <2>2. ss[k + i] = Flat(OfX(j, t, z, At(j.y, k + i)), Factor(j.x)) /\ OnStep(At(j.y, k + i), j.y)
    BY <2>1 DEF OfY, n, OnStep
  <2>3. LoopX(j, b, FALSE, t, z, At(j.y, k + i)) = Flat(OfX(j, t, z, At(j.y, k + i)), Factor(j.x))
    BY <2>2, RowFromStart, ZenonT(60)
  <2> QED BY <1>1, <2>2, <2>3
<1>4. [i \in DOMAIN steps |->
        IF \A m \in 1 .. i - 1 : LoopX(j, b, TRUE, t, z, steps[m]) = <<>>
        THEN LoopX(j, b, TRUE, t, z, steps[i]) ELSE LoopX(j, b, FALSE, t, z, steps[i])]
      = Resumed(G, ss, k, n)
  <2>1. DOMAIN steps = 1 .. n - k
    BY <1>1
  <2>2. \A i \in 1 .. n - k : \A m \in 1 .. i - 1 : m \in 1 .. n - k
    BY <1>0
  <2> HIDE DEF G, ss
  <2> QED BY <1>3, <2>1, <2>2 DEF Resumed
<1>5. Lists(ss, n, S)
  BY ChunkIsGood DEF n
<1>6. OnStep(b.y, j.y) /\ ss[k + 1] = Flat(OfX(j, t, z, b.y), Factor(j.x))
  BY <1>begin, <1>0 DEF OnStep, OfY, n
<1>7. r < Len(ss[k + 1])
  <2>1. Good(ss[k + 1], InY(j, t, z, b.y), Factor(j.x) * Depth(j, z))
    BY <1>6, RowIsGood
  <2> QED BY <1>begin, <2>1 DEF Good
<1>8. G[1] = Drop(ss[k + 1], r)
  BY <1>begin, <1>0, <1>6
<1>9. Len(Flat(ss, k)) = k * (Factor(j.x) * Depth(j, z))
  BY <1>0, ChunkIsGood DEF n
<1> HIDE DEF ss, S, G
<1>10. FlattenSeq(Resumed(G, ss, k, n)) = Drop(Flat(ss, n), Len(Flat(ss, k)) + r)
  <2>1. Resumes(G, ss, k, n, r, S)
    BY <1>begin, <1>0, <1>5, <1>7, <1>8 DEF Resumes
  <2> QED BY <2>1, LoopResumes
<1> QED BY <1>2, <1>4, <1>9, <1>10, <1>begin DEF ss, n

\* A volume that starts at step k + 1 of z, after r tiles of its chunk.
LEMMA VolumeResumes ==
    ASSUME NEW j \in Jobs, NEW t, OnStep(t, j.t), NEW b,
           NEW k \in 0 .. Factor(j.z) - 1, b.z = At(j.z, k + 1),
           NEW r \in Nat, r < Factor(j.y) * (Factor(j.x) * Depth(j, b.z)),
           LoopY(j, b, TRUE, t, b.z) = Drop(Flat(OfY(j, t, b.z), Factor(j.y)), r)
    PROVE  LoopZ(j, b, TRUE, t) = Drop(Flat(OfZ(j, t), Factor(j.z)), k * (j.z.size * Layer(j)) + r)
<1> DEFINE ss == OfZ(j, t)
           S == InT(t)
           steps == Steps(b.z, j.z)
           n == Factor(j.z)
           G == [m \in 1 .. n - k |-> LoopY(j, b, TRUE, t, At(j.z, k + m))]
<1>0. n \in Nat \ {0} /\ k \in 0 .. n /\ k \in 0 .. n - 1 /\ k + 1 \in 1 .. n /\ 1 \in 1 .. n - k
  BY JobAxes, Factors
<1>1. steps = [i \in 1 .. n - k |-> At(j.z, k + i)]
  BY <1>0, JobAxes, StepsFrom
<1>2. LoopZ(j, b, TRUE, t) = FlattenSeq([i \in DOMAIN steps |->
        IF \A m \in 1 .. i - 1 : LoopY(j, b, TRUE, t, steps[m]) = <<>>
        THEN LoopY(j, b, TRUE, t, steps[i]) ELSE LoopY(j, b, FALSE, t, steps[i])])
  BY DEF LoopZ, Loop
<1> HIDE DEF steps, n
<1>3. ASSUME NEW i \in 1 .. n - k
      PROVE  /\ steps[i] = At(j.z, k + i) /\ LoopY(j, b, TRUE, t, steps[i]) = G[i]
             /\ LoopY(j, b, FALSE, t, steps[i]) = ss[k + i]
  <2>1. k + i \in 1 .. n
    BY <1>0
  <2>2. ss[k + i] = Flat(OfY(j, t, At(j.z, k + i)), Factor(j.y)) /\ OnStep(At(j.z, k + i), j.z)
    BY <2>1 DEF OfZ, n, OnStep
  <2>3. LoopY(j, b, FALSE, t, At(j.z, k + i)) = Flat(OfY(j, t, At(j.z, k + i)), Factor(j.y))
    BY <2>2, ChunkFromStart
  <2> QED BY <1>1, <2>2, <2>3
<1>4. [i \in DOMAIN steps |->
        IF \A m \in 1 .. i - 1 : LoopY(j, b, TRUE, t, steps[m]) = <<>>
        THEN LoopY(j, b, TRUE, t, steps[i]) ELSE LoopY(j, b, FALSE, t, steps[i])]
      = Resumed(G, ss, k, n)
  <2>1. DOMAIN steps = 1 .. n - k
    BY <1>1
  <2>2. \A i \in 1 .. n - k : \A m \in 1 .. i - 1 : m \in 1 .. n - k
    BY <1>0
  <2> HIDE DEF G, ss
  <2> QED BY <1>3, <2>1, <2>2 DEF Resumed
<1>5. Lists(ss, n, S)
  BY VolumeIsGood DEF n
<1>6. OnStep(b.z, j.z) /\ ss[k + 1] = Flat(OfY(j, t, b.z), Factor(j.y))
  BY <1>0 DEF OnStep, OfZ, n
<1>7. r < Len(ss[k + 1])
  <2>1. Good(ss[k + 1], InZ(j, t, b.z), Factor(j.y) * (Factor(j.x) * Depth(j, b.z)))
    BY <1>6, ChunkIsGood
  <2> QED BY <2>1 DEF Good
<1>8. G[1] = Drop(ss[k + 1], r)
  BY <1>0, <1>6
<1>9. Len(Flat(ss, k)) = k * (j.z.size * Layer(j))
  BY <1>0, VolumeIsGood DEF n
<1> HIDE DEF ss, S, G
<1>10. FlattenSeq(Resumed(G, ss, k, n)) = Drop(Flat(ss, n), Len(Flat(ss, k)) + r)
  <2>1. Resumes(G, ss, k, n, r, S)
    BY <1>0, <1>5, <1>7, <1>8 DEF Resumes
  <2> QED BY <2>1, LoopResumes
<1> QED BY <1>2, <1>4, <1>9, <1>10 DEF ss, n

\* The walk that starts at step k + 1 of t, after r tiles of its volume.
LEMMA WalkResumes ==
    ASSUME NEW j \in Jobs, NEW b,
           NEW k \in 0 .. Factor(j.t) - 1, b.t = At(j.t, k + 1),
           NEW r \in Nat, r < Layer(j) * (j.z.stop - j.z.start),
           LoopZ(j, b, TRUE, b.t) = Drop(Flat(OfZ(j, b.t), Factor(j.z)), r)
    PROVE  LoopT(j, b) = Drop(Flat(OfT(j), Factor(j.t)), k * (Layer(j) * (j.z.stop - j.z.start)) + r)
<1> DEFINE ss == OfT(j)
           S == Tile
           steps == Steps(b.t, j.t)
           n == Factor(j.t)
           G == [m \in 1 .. n - k |-> LoopZ(j, b, TRUE, At(j.t, k + m))]
<1>0. n \in Nat \ {0} /\ k \in 0 .. n /\ k \in 0 .. n - 1 /\ k + 1 \in 1 .. n /\ 1 \in 1 .. n - k
  BY JobAxes, Factors
<1>1. steps = [i \in 1 .. n - k |-> At(j.t, k + i)]
  BY <1>0, JobAxes, StepsFrom
<1>2. LoopT(j, b) = FlattenSeq([i \in DOMAIN steps |->
        IF \A m \in 1 .. i - 1 : LoopZ(j, b, TRUE, steps[m]) = <<>>
        THEN LoopZ(j, b, TRUE, steps[i]) ELSE LoopZ(j, b, FALSE, steps[i])])
  BY DEF LoopT, Loop
<1> HIDE DEF steps, n
<1>3. ASSUME NEW i \in 1 .. n - k
      PROVE  /\ steps[i] = At(j.t, k + i) /\ LoopZ(j, b, TRUE, steps[i]) = G[i]
             /\ LoopZ(j, b, FALSE, steps[i]) = ss[k + i]
  <2>1. k + i \in 1 .. n
    BY <1>0
  <2>2. ss[k + i] = Flat(OfZ(j, At(j.t, k + i)), Factor(j.z)) /\ OnStep(At(j.t, k + i), j.t)
    BY <2>1 DEF OfT, n, OnStep
  <2>3. LoopZ(j, b, FALSE, At(j.t, k + i)) = Flat(OfZ(j, At(j.t, k + i)), Factor(j.z))
    BY <2>2, VolumeFromStart
  <2> QED BY <1>1, <2>2, <2>3
<1>4. [i \in DOMAIN steps |->
        IF \A m \in 1 .. i - 1 : LoopZ(j, b, TRUE, steps[m]) = <<>>
        THEN LoopZ(j, b, TRUE, steps[i]) ELSE LoopZ(j, b, FALSE, steps[i])]
      = Resumed(G, ss, k, n)
  <2>1. DOMAIN steps = 1 .. n - k
    BY <1>1
  <2>2. \A i \in 1 .. n - k : \A m \in 1 .. i - 1 : m \in 1 .. n - k
    BY <1>0
  <2> HIDE DEF G, ss
  <2> QED BY <1>3, <2>1, <2>2 DEF Resumed
<1>5. Lists(ss, n, S)
  BY WalkIsGood DEF n
<1>6. OnStep(b.t, j.t) /\ ss[k + 1] = Flat(OfZ(j, b.t), Factor(j.z))
  BY <1>0 DEF OnStep, OfT, n
<1>7. r < Len(ss[k + 1])
  <2>1. Good(ss[k + 1], InT(b.t), Layer(j) * (j.z.stop - j.z.start))
    BY <1>6, VolumeIsGood
  <2> QED BY <2>1 DEF Good
<1>8. G[1] = Drop(ss[k + 1], r)
  BY <1>0, <1>6
<1>9. Len(Flat(ss, k)) = k * (Layer(j) * (j.z.stop - j.z.start))
  BY <1>0, WalkIsGood DEF n
<1> HIDE DEF ss, S, G
<1>10. FlattenSeq(Resumed(G, ss, k, n)) = Drop(Flat(ss, n), Len(Flat(ss, k)) + r)
  <2>1. Resumes(G, ss, k, n, r, S)
    BY <1>0, <1>5, <1>7, <1>8 DEF Resumes
  <2> QED BY <2>1, LoopResumes
<1> QED BY <1>2, <1>4, <1>9, <1>10 DEF ss, n

--------------------------------------------------------------------------------
(***************************************************************************)
(* Where a lambda starts.                                                   *)
(***************************************************************************)
LEMMA Sizes ==
    ASSUME NEW j \in Jobs
    PROVE  /\ Factor(j.x) \in Nat \ {0} /\ Factor(j.y) \in Nat \ {0}
           /\ Factor(j.z) \in Nat \ {0} /\ Factor(j.t) \in Nat \ {0}
           /\ j.z.stop - j.z.start \in Nat \ {0} /\ j.z.size \in Nat \ {0}
           /\ j.z.stop - j.z.start <= Factor(j.z) * j.z.size
           /\ Layer(j) \in Nat \ {0} /\ Layer(j) * (j.z.stop - j.z.start) \in Nat \ {0}
           /\ Total(j) = Factor(j.t) * (Layer(j) * (j.z.stop - j.z.start))
           /\ Total(j) \in Nat \ {0}
<1>1. PICK fx \in Nat \ {0}, fy \in Nat \ {0}, fz \in Nat \ {0}, ft \in Nat \ {0} :
        fx = Factor(j.x) /\ fy = Factor(j.y) /\ fz = Factor(j.z) /\ ft = Factor(j.t)
  BY JobAxes, Factors
<1>2. PICK h \in Nat \ {0}, s \in Nat \ {0} : h = j.z.stop - j.z.start /\ s = j.z.size
  BY JobAxes DEF Axis
<1>3. h <= fz * s
  BY <1>1, <1>2, JobAxes, Factors
<1>4. ASSUME NEW a \in Nat \ {0}, NEW c \in Nat \ {0} PROVE a * c \in Nat \ {0}
  OBVIOUS
<1>5. PICK layer \in Nat \ {0} : layer = fx * fy
  BY <1>4
<1>6. layer * h \in Nat \ {0} /\ ft * (layer * h) \in Nat \ {0}
  BY <1>4
<1>7. fx * fy * h * ft = ft * (layer * h)
  BY <1>5
<1> QED BY <1>1, <1>2, <1>3, <1>5, <1>6, <1>7 DEF Layer, Total

\* What is left of skip inside a volume, a chunk and a row.
InVolume(j, skip) == skip % (Layer(j) * (j.z.stop - j.z.start))
InChunk(j, skip) == InVolume(j, skip) % (j.z.size * Layer(j))
InRow(j, skip) == InChunk(j, skip) % (Depth(j, Start(j, skip).z) * Factor(j.x))

\* The volume of t.
LEMMA StartInT ==
    ASSUME NEW j \in Jobs, NEW skip \in Nat, skip < Total(j)
    PROVE  \E k \in 0 .. Factor(j.t) - 1 :
             /\ Start(j, skip).t = At(j.t, k + 1)
             /\ InVolume(j, skip) \in Nat
             /\ InVolume(j, skip) < Layer(j) * (j.z.stop - j.z.start)
             /\ skip = k * (Layer(j) * (j.z.stop - j.z.start)) + InVolume(j, skip)
<1>1. PICK n \in Nat \ {0}, v \in Nat \ {0} :
        n = Factor(j.t) /\ v = Layer(j) * (j.z.stop - j.z.start) /\ Total(j) = n * v
  BY Sizes
<1>2. PICK q \in Nat, r \in 0 .. v - 1 : q = skip \div v /\ r = skip % v /\ skip = q * v + r
  BY Divided
<1>3. q \in 0 .. n - 1
  BY <1>1, <1>2, QuotientBelow
<1>4. Start(j, skip).t = j.t.start + j.t.size * q
  BY <1>1, <1>2 DEF Start, Layer
<1>5. j.t.start \in Nat /\ j.t.size \in Nat
  BY JobAxes DEF Axis
<1>6. At(j.t, q + 1) = j.t.start + j.t.size * q
  <2>1. ((q + 1) - 1) * j.t.size = j.t.size * q
    BY <1>5
  <2> QED BY <2>1 DEF At
<1>7. InVolume(j, skip) = r
  BY <1>1, <1>2 DEF InVolume
<1>8. /\ Start(j, skip).t = At(j.t, q + 1)
      /\ InVolume(j, skip) \in Nat /\ InVolume(j, skip) < v
      /\ skip = q * v + InVolume(j, skip)
  BY <1>2, <1>4, <1>6, <1>7
<1> QED BY <1>1, <1>3, <1>8

\* The chunk of z.
LEMMA StartInZ ==
    ASSUME NEW j \in Jobs, NEW skip \in Nat, skip < Total(j)
    PROVE  \E k \in 0 .. Factor(j.z) - 1 :
             /\ Start(j, skip).z = At(j.z, k + 1)
             /\ InChunk(j, skip) \in Nat
             /\ InChunk(j, skip) < Factor(j.y) * (Factor(j.x) * Depth(j, Start(j, skip).z))
             /\ InVolume(j, skip) = k * (j.z.size * Layer(j)) + InChunk(j, skip)
<1>1. PICK n \in Nat \ {0}, s \in Nat \ {0}, layer \in Nat \ {0}, h \in Nat \ {0} :
        n = Factor(j.z) /\ s = j.z.size /\ layer = Layer(j) /\ h = j.z.stop - j.z.start
        /\ h <= n * s
  BY Sizes
<1>2. PICK a \in Nat : a = InVolume(j, skip) /\ a < layer * h
  BY <1>1, StartInT
<1>3. PICK w \in Nat \ {0} : w = s * layer
  <2>1. s * layer \in Nat \ {0}
    OBVIOUS
  <2> QED BY <2>1
<1>4. PICK q \in Nat, r \in 0 .. w - 1 : q = a \div w /\ r = a % w /\ a = q * w + r
  BY Divided
<1>5. q \in 0 .. n - 1
  <2>1. h * layer <= (n * s) * layer
    <3>1. n * s \in Nat
      BY <1>1
    <3> QED BY <1>1, <3>1, TimesMonotone
  <2>2. (n * s) * layer = n * w /\ h * layer = layer * h
    BY <1>1, <1>3
  <2>3. a < n * w
    <3>1. n * w \in Nat /\ layer * h \in Nat
      BY <1>1, <1>3
    <3> QED BY <1>2, <2>1, <2>2, <3>1
  <2> QED BY <1>4, <2>3, QuotientBelow
<1>6. Start(j, skip).z = j.z.start + s * q
  BY <1>1, <1>2, <1>3, <1>4 DEF Start, Layer, InVolume
<1>7. At(j.z, q + 1) = j.z.start + s * q
  <2>1. j.z.start \in Nat
    BY JobAxes DEF Axis
  <2>2. ((q + 1) - 1) * s = s * q
    BY <1>1
  <2> QED BY <1>1, <2>1, <2>2 DEF At
<1>8. PICK d \in Nat : d = Depth(j, At(j.z, q + 1))
                       /\ d = IF q + 1 < n THEN s ELSE h - (n - 1) * s
  <2>1. q + 1 \in 1 .. Factor(j.z)
    BY <1>1, <1>5
  <2> QED BY <1>1, <2>1, Depths
<1>9. r < layer * d
  <2>1. CASE q + 1 < n
    <3>1. d = s /\ layer * s = s * layer
      BY <1>8, <2>1
    <3> QED BY <1>3, <1>4, <3>1
  <2>2. CASE ~ (q + 1 < n)
    <3>1. n - 1 = q /\ d = h - q * s
      BY <1>1, <1>5, <1>8, <2>2
    <3>2. PICK p \in Nat : p = q * s /\ h = p + d
      BY <1>1, <3>1
    <3>3. layer * h = layer * p + layer * d
      BY <3>2
    <3>4. layer * p = q * w
      BY <1>3, <3>2
    <3>5. PICK lh \in Nat, lp \in Nat, ld \in Nat :
            lh = layer * h /\ lp = layer * p /\ ld = layer * d
      BY <3>2
    <3>6. a < lh /\ lh = lp + ld /\ a = lp + r
      BY <1>2, <1>4, <3>3, <3>4, <3>5
    <3>7. r < ld
      BY <1>4, <3>6
    <3> QED BY <3>5, <3>7
  <2> QED BY <2>1, <2>2
<1>10. Factor(j.y) * (Factor(j.x) * d) = layer * d
  <2>1. PICK fx \in Nat, fy \in Nat : fx = Factor(j.x) /\ fy = Factor(j.y) /\ layer = fx * fy
    BY <1>1, Sizes DEF Layer
  <2>2. fy * (fx * d) = (fx * fy) * d
    OBVIOUS
  <2> QED BY <2>1, <2>2
<1>11. InChunk(j, skip) = r
  BY <1>1, <1>2, <1>3, <1>4 DEF InChunk
<1>12. /\ Start(j, skip).z = At(j.z, q + 1)
       /\ InChunk(j, skip) \in Nat
       /\ InChunk(j, skip) < Factor(j.y) * (Factor(j.x) * Depth(j, Start(j, skip).z))
       /\ InVolume(j, skip) = q * w + InChunk(j, skip)
  <2>1. Start(j, skip).z = At(j.z, q + 1)
    BY <1>6, <1>7
  <2>2. InChunk(j, skip) < layer * d
    BY <1>9, <1>11
  <2>3. InVolume(j, skip) = q * w + InChunk(j, skip)
    BY <1>2, <1>4, <1>11
  <2>4. InChunk(j, skip) \in Nat
    BY <1>4, <1>11
  <2>5. d = Depth(j, Start(j, skip).z)
    BY <1>8, <2>1
  <2>6. InChunk(j, skip) < Factor(j.y) * (Factor(j.x) * Depth(j, Start(j, skip).z))
    BY <1>10, <2>2, <2>5
  <2> QED BY <2>1, <2>3, <2>4, <2>6
<1> QED BY <1>1, <1>3, <1>5, <1>12

\* The row of y.
LEMMA StartInY ==
    ASSUME NEW j \in Jobs, NEW skip \in Nat, skip < Total(j)
    PROVE  \E k \in 0 .. Factor(j.y) - 1 :
             /\ Start(j, skip).y = At(j.y, k + 1)
             /\ InRow(j, skip) \in Nat
             /\ InRow(j, skip) < Factor(j.x) * Depth(j, Start(j, skip).z)
             /\ InChunk(j, skip)
                  = k * (Factor(j.x) * Depth(j, Start(j, skip).z)) + InRow(j, skip)
<1>1. PICK d \in Nat \ {0} : d = Depth(j, Start(j, skip).z)
  <2>1. PICK k \in 0 .. Factor(j.z) - 1 : Start(j, skip).z = At(j.z, k + 1)
    BY StartInZ
  <2>2. k + 1 \in 1 .. Factor(j.z)
    BY <2>1, Sizes
  <2> QED BY <2>1, <2>2, Depths
<1>2. PICK n \in Nat \ {0}, fx \in Nat \ {0}, a \in Nat :
        n = Factor(j.y) /\ fx = Factor(j.x) /\ a = InChunk(j, skip) /\ a < n * (fx * d)
  BY <1>1, Sizes, StartInZ
<1>3. PICK w \in Nat \ {0} : w = d * fx /\ w = fx * d
  <2>1. d * fx \in Nat \ {0} /\ d * fx = fx * d
    OBVIOUS
  <2> QED BY <2>1
<1>4. PICK q \in Nat, r \in 0 .. w - 1 : q = a \div w /\ r = a % w /\ a = q * w + r
  BY Divided
<1>5. q \in 0 .. n - 1
  BY <1>2, <1>3, <1>4, QuotientBelow
<1>6. Start(j, skip).y = j.y.start + j.y.size * q
  BY <1>1, <1>2, <1>3, <1>4 DEF Start, Layer, InVolume, InChunk
<1>7. At(j.y, q + 1) = j.y.start + j.y.size * q
  <2>1. j.y.start \in Nat /\ j.y.size \in Nat
    BY JobAxes DEF Axis
  <2>2. ((q + 1) - 1) * j.y.size = j.y.size * q
    BY <2>1
  <2> QED BY <2>1, <2>2 DEF At
<1>8. InRow(j, skip) = r
  BY <1>1, <1>2, <1>3, <1>4 DEF InRow
<1>9. /\ Start(j, skip).y = At(j.y, q + 1)
      /\ InRow(j, skip) \in Nat /\ InRow(j, skip) < w
      /\ InChunk(j, skip) = q * w + InRow(j, skip)
  <2>1. Start(j, skip).y = At(j.y, q + 1)
    BY <1>6, <1>7
  <2>2. InChunk(j, skip) = q * w + InRow(j, skip)
    BY <1>2, <1>4, <1>8
  <2>3. r \in Nat /\ r < w
    BY <1>4
  <2>4. InRow(j, skip) \in Nat /\ InRow(j, skip) < w
    BY <1>8, <2>3
  <2> QED BY <2>1, <2>2, <2>4
<1> QED BY <1>1, <1>2, <1>3, <1>5, <1>9

\* The column of x and the tile.
LEMMA StartInX ==
    ASSUME NEW j \in Jobs, NEW skip \in Nat, skip < Total(j)
    PROVE  \E k \in 0 .. Factor(j.x) - 1 :
             /\ Start(j, skip).x = At(j.x, k + 1)
             /\ Start(j, skip).tile \in 0 .. Depth(j, Start(j, skip).z) - 1
             /\ InRow(j, skip) = k * Depth(j, Start(j, skip).z) + Start(j, skip).tile
<1>1. PICK d \in Nat \ {0} : d = Depth(j, Start(j, skip).z)
  <2>1. PICK k \in 0 .. Factor(j.z) - 1 : Start(j, skip).z = At(j.z, k + 1)
    BY StartInZ
  <2>2. k + 1 \in 1 .. Factor(j.z)
    BY <2>1, Sizes
  <2> QED BY <2>1, <2>2, Depths
<1>2. PICK n \in Nat \ {0}, a \in Nat : n = Factor(j.x) /\ a = InRow(j, skip) /\ a < n * d
  BY <1>1, Sizes, StartInY
<1>3. PICK q \in Nat, r \in 0 .. d - 1 : q = a \div d /\ r = a % d /\ a = q * d + r
  BY Divided
<1>4. q \in 0 .. n - 1
  BY <1>2, <1>3, QuotientBelow
<1>5. Start(j, skip).x = j.x.start + j.x.size * q /\ Start(j, skip).tile = r
  BY <1>1, <1>2, <1>3 DEF Start, Layer, InVolume, InChunk, InRow
<1>6. At(j.x, q + 1) = j.x.start + j.x.size * q
  <2>1. j.x.start \in Nat /\ j.x.size \in Nat
    BY JobAxes DEF Axis
  <2>2. ((q + 1) - 1) * j.x.size = j.x.size * q
    BY <2>1
  <2> QED BY <2>1, <2>2 DEF At
<1> QED BY <1>1, <1>2, <1>3, <1>4, <1>5, <1>6

--------------------------------------------------------------------------------
(***************************************************************************)
(* The share of a lambda.                                                   *)
(***************************************************************************)
LEMMA ExpectedIsGood ==
    ASSUME NEW j \in Jobs PROVE Good(Expected(j), Tile, Total(j)) /\ Total(j) \in Nat \ {0}
BY ExpectedIsWalk, WalkIsGood, Sizes

\* The loops give what is left of the walk without the tiles to skip.
LEMMA LoopFindsStart ==
    ASSUME NEW j \in Jobs, NEW skip \in Nat, skip < Total(j)
    PROVE  LoopT(j, Start(j, skip)) = Drop(Expected(j), skip)
<1> DEFINE b == Start(j, skip)
           inT == InVolume(j, skip)
           inZ == InChunk(j, skip)
           inY == InRow(j, skip)
<1>1. PICK kt \in 0 .. Factor(j.t) - 1 :
        /\ b.t = At(j.t, kt + 1)
        /\ inT \in Nat /\ inT < Layer(j) * (j.z.stop - j.z.start)
        /\ skip = kt * (Layer(j) * (j.z.stop - j.z.start)) + inT
  BY StartInT
<1>2. PICK kz \in 0 .. Factor(j.z) - 1 :
        /\ b.z = At(j.z, kz + 1)
        /\ inZ \in Nat /\ inZ < Factor(j.y) * (Factor(j.x) * Depth(j, b.z))
        /\ inT = kz * (j.z.size * Layer(j)) + inZ
  BY StartInZ
<1>3. PICK ky \in 0 .. Factor(j.y) - 1 :
        /\ b.y = At(j.y, ky + 1)
        /\ inY \in Nat /\ inY < Factor(j.x) * Depth(j, b.z)
        /\ inZ = ky * (Factor(j.x) * Depth(j, b.z)) + inY
  BY StartInY
<1>4. PICK kx \in 0 .. Factor(j.x) - 1 :
        /\ b.x = At(j.x, kx + 1) /\ b.tile \in 0 .. Depth(j, b.z) - 1
        /\ inY = kx * Depth(j, b.z) + b.tile
  BY StartInX
<1> HIDE DEF b, inT, inZ, inY
<1>5. OnStep(b.t, j.t) /\ OnStep(b.z, j.z) /\ OnStep(b.y, j.y)
  <2>1. kt + 1 \in 1 .. Factor(j.t) /\ kz + 1 \in 1 .. Factor(j.z) /\ ky + 1 \in 1 .. Factor(j.y)
    BY Sizes
  <2> QED BY <1>1, <1>2, <1>3, <2>1 DEF OnStep
<1>6. LoopX(j, b, TRUE, b.t, b.z, b.y) = Drop(Flat(OfX(j, b.t, b.z, b.y), Factor(j.x)), inY)
  <2>1. RowStarts(j, b, b.z, kx, inY)
    BY <1>4 DEF RowStarts
  <2> QED BY <1>5, <2>1, RowResumes, ZenonT(60)
<1>7. LoopY(j, b, TRUE, b.t, b.z) = Drop(Flat(OfY(j, b.t, b.z), Factor(j.y)), inZ)
  <2>1. ChunkStarts(j, b, b.z, ky, inY, inZ)
    BY <1>3 DEF ChunkStarts
  <2> QED BY <1>5, <1>6, <2>1, ChunkResumes, ZenonT(60)
<1>8. LoopZ(j, b, TRUE, b.t) = Drop(Flat(OfZ(j, b.t), Factor(j.z)), inT)
  BY <1>2, <1>5, <1>7, VolumeResumes
<1>9. LoopT(j, b) = Drop(Flat(OfT(j), Factor(j.t)), skip)
  BY <1>1, <1>8, WalkResumes
<1> QED BY <1>9, ExpectedIsWalk DEF b

\* With nothing left the range of t is empty.
LEMMA LoopIsOver ==
    ASSUME NEW j \in Jobs PROVE LoopT(j, Start(j, Total(j))) = <<>>
<1> DEFINE b == Start(j, Total(j))
           steps == Steps(b.t, j.t)
<1>1. PICK n \in Nat \ {0}, v \in Nat \ {0} :
        n = Factor(j.t) /\ v = Layer(j) * (j.z.stop - j.z.start) /\ Total(j) = n * v
  BY Sizes
<1>2. Total(j) \div v = n
  <2>1. n * v \in Nat /\ n * v <= n * v /\ n * v < n * v + v
    BY <1>1
  <2> QED BY <1>1, <2>1, Quotient
<1>3. b.t = j.t.start + j.t.size * n
  BY <1>1, <1>2 DEF Start, Layer
<1>4. At(j.t, n + 1) = j.t.start + j.t.size * n
  <2>1. j.t.start \in Nat /\ j.t.size \in Nat
    BY JobAxes DEF Axis
  <2>2. ((n + 1) - 1) * j.t.size = j.t.size * n
    BY <2>1
  <2> QED BY <2>1, <2>2 DEF At
<1>5. steps = [i \in 1 .. n - n |-> At(j.t, n + i)]
  <2>1. n \in 0 .. Factor(j.t)
    BY <1>1
  <2>2. Steps(At(j.t, n + 1), j.t) = [i \in 1 .. Factor(j.t) - n |-> At(j.t, n + i)]
    BY <2>1, JobAxes, StepsFrom
  <2> QED BY <1>1, <1>3, <1>4, <2>2
<1>6. LoopT(j, b) = FlattenSeq([i \in DOMAIN steps |->
        IF \A m \in 1 .. i - 1 : LoopZ(j, b, TRUE, steps[m]) = <<>>
        THEN LoopZ(j, b, TRUE, steps[i]) ELSE LoopZ(j, b, FALSE, steps[i])])
  BY DEF LoopT, Loop
<1>7. DOMAIN steps = 1 .. 0
  <2>1. n - n = 0
    OBVIOUS
  <2> QED BY <1>5, <2>1
<1> HIDE DEF steps
<1>8. [i \in DOMAIN steps |->
        IF \A m \in 1 .. i - 1 : LoopZ(j, b, TRUE, steps[m]) = <<>>
        THEN LoopZ(j, b, TRUE, steps[i]) ELSE LoopZ(j, b, FALSE, steps[i])] = <<>>
  BY <1>7
<1> QED BY <1>6, <1>8 DEF FlattenSeq

\* The start of what is left of a list is a part of the list.
LEMMA StartOfDrop ==
    ASSUME NEW S, NEW s \in Seq(S), NEW d \in 0 .. Len(s), NEW m \in Nat
    PROVE  LET u == Drop(s, d)
           IN  SubSeq(u, 1, Smaller(m, Len(u))) = SubSeq(s, d + 1, Smaller(d + m, Len(s)))
<1> DEFINE u == Drop(s, d)
<1>1. u \in Seq(S) /\ Len(u) = Len(s) - d /\ Len(s) \in Nat
  BY DropIsList, LenProperties
<1>2. \A i \in 1 .. Len(s) - d : u[i] = s[d + i]
  <2>1. \A i \in d + 1 .. Len(s) : s[i] \in S
    BY <1>1, ElementOfSeq
  <2>2. \A i \in 1 .. Len(s) - (d + 1) + 1 : u[i] = s[(d + 1) + i - 1]
    BY <1>1, <2>1, SubSeqProperties DEF Drop
  <2>3. Len(s) - (d + 1) + 1 = Len(s) - d
        /\ \A i \in 1 .. Len(s) - d : (d + 1) + i - 1 = d + i
    BY <1>1
  <2> QED BY <2>2, <2>3
<1> HIDE DEF u
<1>3. PICK n \in Nat : n = Smaller(m, Len(u)) /\ n <= Len(u) /\ Smaller(d + m, Len(s)) = d + n
  <2>1. CASE m < Len(u)
    BY <1>1, <2>1 DEF Smaller
  <2>2. CASE ~ (m < Len(u))
    <3>1. Smaller(m, Len(u)) = Len(u) /\ Len(u) \in Nat /\ d + Len(u) = Len(s)
      BY <1>1, <2>2 DEF Smaller
    <3>2. ~ (d + m < Len(s)) \/ d + m = Len(s)
      BY <1>1, <2>2, <3>1
    <3>3. Smaller(d + m, Len(s)) = Len(s)
      BY <3>2 DEF Smaller
    <3> QED BY <3>1, <3>3
  <2> QED BY <2>1, <2>2
<1> DEFINE a == SubSeq(u, 1, n)
           c == SubSeq(s, d + 1, d + n)
<1>4. /\ a \in Seq(S) /\ Len(a) = n
      /\ \A i \in 1 .. n : a[i] = u[i]
  <2>1. \A i \in 1 .. n : u[i] \in S
    BY <1>1, <1>3, ElementOfSeq
  <2>2. /\ a \in Seq(S) /\ Len(a) = IF 1 <= n THEN n - 1 + 1 ELSE 0
        /\ \A i \in 1 .. n - 1 + 1 : a[i] = u[1 + i - 1]
    BY <2>1, SubSeqProperties
  <2>3. n - 1 + 1 = n /\ \A i \in 1 .. n : 1 + i - 1 = i
    OBVIOUS
  <2> QED BY <2>2, <2>3
<1>5. /\ c \in Seq(S) /\ Len(c) = n
      /\ \A i \in 1 .. n : c[i] = s[d + i]
  <2>1. \A i \in d + 1 .. d + n : s[i] \in S
    BY <1>1, <1>3, ElementOfSeq
  <2>2. /\ c \in Seq(S) /\ Len(c) = IF d + 1 <= d + n THEN (d + n) - (d + 1) + 1 ELSE 0
        /\ \A i \in 1 .. (d + n) - (d + 1) + 1 : c[i] = s[(d + 1) + i - 1]
    BY <1>1, <1>3, <2>1, SubSeqProperties
  <2>3. (d + n) - (d + 1) + 1 = n /\ \A i \in 1 .. n : (d + 1) + i - 1 = d + i
    BY <1>1
  <2> QED BY <2>2, <2>3
<1> HIDE DEF a, c
<1>6. \A i \in 1 .. Len(a) : a[i] = c[i]
  <2> SUFFICES ASSUME NEW i \in 1 .. Len(a) PROVE a[i] = c[i]
    OBVIOUS
  <2>1. i \in 1 .. n
    BY <1>4
  <2>2. i \in 1 .. Len(s) - d
    BY <1>1, <1>3, <2>1
  <2>3. u[i] = s[d + i]
    BY <1>2, <2>2
  <2> QED BY <1>4, <1>5, <2>1, <2>3
<1>7. a = c
  BY <1>4, <1>5, <1>6, SeqEqual
<1> QED BY <1>3, <1>7 DEF a, c, u

LEMMA ShareIsSlice ==
    ASSUME NEW j \in Jobs, NEW skip \in 0 .. Total(j)
    PROVE  Messages(j, skip)
             = SubSeq(Expected(j), skip + 1, Smaller(skip + j.max, Len(Expected(j))))
<1> DEFINE e == Expected(j)
<1>1. e \in Seq(Tile) /\ Len(e) = Total(j) /\ Total(j) \in Nat /\ j.max \in Nat
  BY ExpectedIsGood, JobAxes DEF Good
<1> HIDE DEF e
<1>2. LoopT(j, Start(j, skip)) = Drop(e, skip)
  <2>1. CASE skip < Total(j)
    BY <1>1, <2>1, LoopFindsStart DEF e
  <2>2. CASE skip = Total(j)
    <3>1. Drop(e, skip) = <<>>
      BY <1>1, <2>2, SubSeqEmpty DEF Drop
    <3> QED BY <2>2, <3>1, LoopIsOver
  <2> QED BY <1>1, <2>1, <2>2
<1>3. skip \in 0 .. Len(e)
  BY <1>1
<1>4. SubSeq(Drop(e, skip), 1, Smaller(j.max, Len(Drop(e, skip))))
        = SubSeq(e, skip + 1, Smaller(skip + j.max, Len(e)))
  BY <1>1, <1>3, StartOfDrop
<1> QED BY <1>2, <1>4 DEF Messages, e

\* A part of a list without repetitions.
LEMMA PartOfList ==
    ASSUME NEW S, NEW s \in Seq(S), IsInjective(s), NEW f \in Nat \ {0}, NEW c \in Nat,
           c <= Len(s)
    PROVE  LET u == SubSeq(s, f, c)
           IN  /\ u \in Seq(S) /\ IsInjective(u)
               /\ ToSet(u) = {s[p] : p \in f .. c}
<1>0. PICK a \in Nat : f = a + 1
  <2>1. f - 1 \in Nat /\ f = (f - 1) + 1
    OBVIOUS
  <2> QED BY <2>1
<1> DEFINE u == SubSeq(s, a + 1, c)
<1>1. Len(s) \in Nat /\ DOMAIN s = 1 .. Len(s) /\ \A p \in a + 1 .. c : s[p] \in S
  BY LenProperties, ElementOfSeq
<1>2. /\ u \in Seq(S) /\ Len(u) = IF a + 1 <= c THEN c - (a + 1) + 1 ELSE 0
      /\ \A i \in 1 .. c - (a + 1) + 1 : u[i] = s[(a + 1) + i - 1]
  BY <1>1, SubSeqProperties
<1> HIDE DEF u
<1>3. DOMAIN u = 1 .. c - a
  <2>1. DOMAIN u = 1 .. Len(u)
    BY <1>2, LenProperties
  <2>2. 1 .. Len(u) = 1 .. c - a
    BY <1>2
  <2> QED BY <2>1, <2>2
<1>4. \A i \in 1 .. c - a : u[i] = s[a + i] /\ a + i \in a + 1 .. c /\ a + i \in DOMAIN s
  <2>1. c - (a + 1) + 1 = c - a /\ \A i \in 1 .. c - a : (a + 1) + i - 1 = a + i
    OBVIOUS
  <2> QED BY <1>1, <1>2, <2>1
<1>5. \A p \in a + 1 .. c : p - a \in 1 .. c - a /\ u[p - a] = s[p]
  <2>1. \A p \in a + 1 .. c : p - a \in 1 .. c - a /\ a + (p - a) = p
    OBVIOUS
  <2> QED BY <1>4, <2>1
<1>6. IsInjective(u)
  <2>1. ASSUME NEW i \in 1 .. c - a, NEW k \in 1 .. c - a, u[i] = u[k] PROVE i = k
    <3>1. a + i = a + k
      BY <1>4, <2>1 DEF IsInjective
    <3> QED BY <3>1
  <2> QED BY <1>3, <2>1 DEF IsInjective
<1>7. ToSet(u) = {s[p] : p \in a + 1 .. c}
  <2>1. ToSet(u) = {u[i] : i \in 1 .. c - a}
    BY <1>3 DEF ToSet
  <2>2. ASSUME NEW i \in 1 .. c - a PROVE u[i] \in {s[p] : p \in a + 1 .. c}
    BY <1>4
  <2>3. ASSUME NEW p \in a + 1 .. c PROVE s[p] \in {u[i] : i \in 1 .. c - a}
    BY <1>5
  <2> QED BY <2>1, <2>2, <2>3
<1> QED BY <1>0, <1>2, <1>6, <1>7 DEF u

\* What a lambda is to send.
Share(j, s) == ToSet(Messages(j, s))
\* The places of its tiles in the walk.
Places(j, s) == s + 1 .. Smaller(s + j.max, Total(j))

LEMMA ShareIsPlaces ==
    ASSUME NEW j \in Jobs, NEW s \in Shares(j)
    PROVE  /\ Messages(j, s) \in Seq(Tile) /\ IsInjective(Messages(j, s))
           /\ Share(j, s) = {Expected(j)[p] : p \in Places(j, s)}
           /\ Places(j, s) \subseteq 1 .. Total(j)
<1> DEFINE e == Expected(j)
<1>1. e \in Seq(Tile) /\ IsInjective(e) /\ Len(e) = Total(j) /\ Total(j) \in Nat
  BY ExpectedIsGood DEF Good
<1>2. s \in Nat /\ s \in 0 .. Total(j) /\ s < Total(j) /\ j.max \in Nat
  BY <1>1, JobAxes DEF Shares
<1>3. Smaller(s + j.max, Total(j)) \in Nat /\ Smaller(s + j.max, Total(j)) <= Total(j)
  BY <1>1, <1>2 DEF Smaller
<1>4. Messages(j, s) = SubSeq(e, s + 1, Smaller(s + j.max, Total(j)))
  BY <1>1, <1>2, ShareIsSlice
<1> HIDE DEF e
<1>5. /\ Messages(j, s) \in Seq(Tile) /\ IsInjective(Messages(j, s))
      /\ ToSet(Messages(j, s)) = {e[p] : p \in s + 1 .. Smaller(s + j.max, Total(j))}
  <2>1. PICK c \in Nat : c = Smaller(s + j.max, Total(j)) /\ c <= Len(e)
    BY <1>1, <1>3
  <2>2. PICK f \in Nat \ {0} : f = s + 1
    BY <1>2
  <2>3. /\ SubSeq(e, f, c) \in Seq(Tile) /\ IsInjective(SubSeq(e, f, c))
        /\ ToSet(SubSeq(e, f, c)) = {e[p] : p \in f .. c}
    <3>1. e \in Seq(Tile) /\ IsInjective(e) /\ c <= Len(e)
      BY <1>1, <2>1
    <3> QED BY ONLY <3>1, PartOfList
  <2> QED BY <1>4, <2>1, <2>2, <2>3
<1>6. Places(j, s) \subseteq 1 .. Total(j)
  BY <1>1, <1>2, <1>3 DEF Places
<1> QED BY <1>5, <1>6 DEF Share, Places, e

\* Every place of the walk belongs to one lambda.
LEMMA OnePlaceOneShare ==
    ASSUME NEW j \in Jobs, NEW p \in 1 .. Total(j)
    PROVE  /\ \E s \in Shares(j) : p \in Places(j, s)
           /\ \A s, r \in Shares(j) : p \in Places(j, s) /\ p \in Places(j, r) => s = r
<1>1. PICK m \in Nat \ {0}, n \in Nat : m = j.max /\ n = Total(j)
  BY JobAxes, Sizes
<1>2. p - 1 \in Nat /\ p - 1 < n /\ p \in Nat
  BY <1>1
<1>3. PICK q \in Nat, r \in 0 .. m - 1 : q = (p - 1) \div m /\ p - 1 = q * m + r
  BY <1>2, Divided
<1>4. \E s \in Shares(j) : p \in Places(j, s)
  <2>1. PICK s \in Nat : s = q * m
    BY <1>3
  <2>2. PICK q2 \in Nat, r2 \in 0 .. m - 1 : q2 = s \div m /\ r2 = s % m /\ s = q2 * m + r2
    BY Divided
  <2>3. s \div m = q
    <3>1. q * m <= s /\ s < q * m + m
      BY <2>1
    <3> QED BY <2>1, <3>1, Quotient
  <2>4. s % m = 0
    <3>1. q2 = q
      BY <2>2, <2>3
    <3>2. s = q * m + r2
      BY <2>2, <3>1
    <3> QED BY <2>1, <2>2, <3>2
  <2>5. s \in 0 .. n - 1 /\ s + 1 <= p /\ p <= s + m /\ p <= n
    BY <1>1, <1>2, <1>3, <2>1
  <2>6. s \in Shares(j)
    BY <1>1, <2>4, <2>5 DEF Shares
  <2>7. p \in Places(j, s)
    BY <1>1, <2>5 DEF Places, Smaller
  <2> QED BY <2>6, <2>7
<1>5. ASSUME NEW s \in Shares(j), p \in Places(j, s) PROVE s = q * m
  <2>1. s \in Nat /\ s % m = 0
    BY <1>1 DEF Shares
  <2>2. PICK q2 \in Nat, r2 \in 0 .. m - 1 : q2 = s \div m /\ r2 = s % m /\ s = q2 * m + r2
    BY <2>1, Divided
  <2>3. s = q2 * m
    BY <2>1, <2>2
  <2>4. s + 1 <= p /\ p <= s + m
    BY <1>1, <1>5, <2>1 DEF Places, Smaller
  <2>5. q2 * m <= p - 1 /\ p - 1 < q2 * m + m
    BY <1>2, <2>1, <2>3, <2>4
  <2>6. (p - 1) \div m = q2
    BY <1>2, <2>5, Quotient
  <2> QED BY <1>3, <2>3, <2>6
<1>6. \A s, r2 \in Shares(j) : p \in Places(j, s) /\ p \in Places(j, r2) => s = r2
  BY <1>5
<1> QED BY <1>4, <1>6

\* The shares have no tile in common and are all tiles.
LEMMA SharesPartition ==
    ASSUME NEW j \in Jobs
    PROVE  /\ \A s, r \in Shares(j) : s # r => Share(j, s) \cap Share(j, r) = {}
           /\ UNION {Share(j, s) : s \in Shares(j)} = ToSet(Expected(j))
<1> DEFINE e == Expected(j)
<1>1. e \in Seq(Tile) /\ IsInjective(e) /\ DOMAIN e = 1 .. Total(j)
  BY ExpectedIsGood, LenProperties DEF Good
<1>2. \A s \in Shares(j) : /\ Share(j, s) = {e[p] : p \in Places(j, s)}
                           /\ Places(j, s) \subseteq 1 .. Total(j)
  BY ShareIsPlaces
<1> HIDE DEF e
<1>3. ASSUME NEW s \in Shares(j), NEW r \in Shares(j), s # r,
             NEW m \in Share(j, s), m \in Share(j, r)
      PROVE  FALSE
  <2>1. PICK p \in Places(j, s) : m = e[p]
    BY <1>2
  <2>2. PICK q \in Places(j, r) : m = e[q]
    BY <1>2, <1>3
  <2>3. p \in 1 .. Total(j) /\ q \in 1 .. Total(j)
    BY <1>2
  <2>4. p = q
    BY <1>1, <2>1, <2>2, <2>3 DEF IsInjective
  <2> QED BY <1>3, <2>3, <2>4, OnePlaceOneShare
<1>4. ToSet(e) = {e[p] : p \in 1 .. Total(j)}
  BY <1>1 DEF ToSet
<1>5. \A p \in 1 .. Total(j) : \E s \in Shares(j) : p \in Places(j, s)
  BY OnePlaceOneShare
<1>6. UNION {Share(j, s) : s \in Shares(j)} = ToSet(e)
  <2>1. ASSUME NEW p \in 1 .. Total(j) PROVE \E s \in Shares(j) : e[p] \in Share(j, s)
    BY <1>2, <1>5
  <2>2. ASSUME NEW s \in Shares(j), NEW m \in Share(j, s) PROVE m \in ToSet(e)
    BY <1>2, <1>4
  <2> QED BY <1>4, <2>1, <2>2
<1> QED BY <1>3, <1>6 DEF e

--------------------------------------------------------------------------------
(***************************************************************************)
(* Bags of distinct messages.                                               *)
(***************************************************************************)
LEMMA BagOfUnion ==
    ASSUME NEW A, NEW B, A \cap B = {}
    PROVE  SetToBag(A) (+) SetToBag(B) = SetToBag(A \cup B)
<1>1. ASSUME NEW e \in A \cup B
      PROVE  (IF e \in A THEN SetToBag(A)[e] ELSE 0) + (IF e \in B THEN SetToBag(B)[e] ELSE 0) = 1
  <2>1. CASE e \in A
    BY <2>1 DEF SetToBag
  <2>2. CASE e \in B
    BY <2>2 DEF SetToBag
  <2> QED BY <1>1, <2>1, <2>2
<1>2. DOMAIN SetToBag(A) = A /\ DOMAIN SetToBag(B) = B
  BY DEF SetToBag
<1> QED BY <1>1, <1>2 DEF (+), SetToBag

LEMMA BagGrows ==
    ASSUME NEW Q, IsABag(Q), NEW A
    PROVE  IsABag(Q (+) SetToBag(A))
<1>1. DOMAIN SetToBag(A) = A /\ \A e \in A : SetToBag(A)[e] = 1
  BY DEF SetToBag
<1>2. \A e \in DOMAIN Q : Q[e] \in Nat /\ Q[e] > 0
  BY DEF IsABag
<1> DEFINE copies(e) == (IF e \in DOMAIN Q THEN Q[e] ELSE 0) + (IF e \in A THEN 1 ELSE 0)
<1>3. \A e \in DOMAIN Q \cup A : copies(e) \in {n \in Nat : n > 0}
  BY <1>2
<1>4. Q (+) SetToBag(A) = [e \in DOMAIN Q \cup A |-> copies(e)]
  BY <1>1 DEF (+)
<1> HIDE DEF copies
<1> QED BY <1>3, <1>4 DEF IsABag

LEMMA EmptyIsABag == IsABag(EmptyBag)
  BY DEF IsABag, EmptyBag, SetToBag

--------------------------------------------------------------------------------
(***************************************************************************)
(* The lambdas at work.                                                     *)
(***************************************************************************)
\* What a lambda has not sent yet.
Left(me) == ToSet(me.rest) \cup me.batch
\* A lambda that has not failed: what is left is of its share, in the list or in
\* the batch, and it has counted the others.
Fine(j, s, me) ==
    /\ IsInjective(me.rest)
    /\ Left(me) \subseteq Share(j, s) /\ ToSet(me.rest) \cap me.batch = {}
    /\ me.pc # "sending" => me.batch = {}
    /\ me.pc = "done" => me.rest = <<>>
    /\ me.sent = Cardinality(Share(j, s) \ Left(me))

Sent(s) == Share(job, s) \ Left(lambda[s])
NobodyFailed == \A s \in DOMAIN lambda : lambda[s].pc # "failed"

PopulateInv ==
    /\ IngestTypeOK
    /\ \A s \in DOMAIN lambda : lambda[s].pc # "failed" => Fine(job, s, lambda[s])
    /\ NobodyFailed => queue = SetToBag(UNION {Sent(s) : s \in DOMAIN lambda})

LEMMA ShareIsFinite ==
    ASSUME NEW j \in Jobs, NEW s \in Shares(j)
    PROVE  IsFiniteSet(Share(j, s))
<1> DEFINE u == Messages(j, s)
<1>1. u \in Seq(Tile)
  BY ShareIsPlaces
<1> HIDE DEF u
<1>2. Len(u) \in Nat /\ DOMAIN u = 1 .. Len(u) /\ ToSet(u) = {u[i] : i \in DOMAIN u}
  BY <1>1, LenProperties DEF ToSet
<1>3. IsFiniteSet(1 .. Len(u))
  BY <1>2, FS_Interval
<1> DEFINE f == [i \in 1 .. Len(u) |-> u[i]]
<1>4. f \in [1 .. Len(u) -> ToSet(u)] /\ \A i \in 1 .. Len(u) : f[i] = u[i]
  BY <1>2
<1> HIDE DEF f
<1>5. f \in Surjection(1 .. Len(u), ToSet(u))
  BY <1>2, <1>4 DEF Surjection
<1>6. IsFiniteSet(ToSet(u))
  BY <1>3, <1>5, FS_Surjection
<1> QED BY <1>6 DEF Share, u

LEMMA StartedIsFine ==
    ASSUME NEW j \in Jobs, NEW s \in Shares(j)
    PROVE  /\ Started(j, s) \in Lambda
           /\ Fine(j, s, Started(j, s))
           /\ Share(j, s) \ Left(Started(j, s)) = {}
           /\ Started(j, s).pc = "batching"
<1> DEFINE me == Started(j, s)
<1>1. /\ me.pc = "batching" /\ me.rest = Messages(j, s) /\ me.batch = {}
      /\ me.retry = 0 /\ me.sent = 0
  BY DEF Started
<1>2. Messages(j, s) \in Seq(Tile) /\ IsInjective(Messages(j, s))
  BY ShareIsPlaces
<1>3. me \in Lambda
  BY <1>2, PopulateConstants DEF Started, Lambda
<1>4. Left(me) = Share(j, s)
  BY <1>1 DEF Left, Share
<1> HIDE DEF me
<1>5. Fine(j, s, me)
  <2>1. Share(j, s) \ Left(me) = {}
    BY <1>4
  <2>2. me.sent = Cardinality(Share(j, s) \ Left(me))
    BY <1>1, <2>1, FS_EmptySet
  <2> QED BY <1>1, <1>2, <1>4, <2>2 DEF Fine
<1> QED BY <1>1, <1>3, <1>4, <1>5 DEF me

\* The first batch of a list and what follows it.
LEMMA FirstBatch ==
    ASSUME NEW rest \in Seq(Tile), IsInjective(rest), NEW n \in Nat, n <= Len(rest), n > 0
    PROVE  LET b == ToSet(SubSeq(rest, 1, n))
               r == SubSeq(rest, n + 1, Len(rest))
           IN  /\ r \in Seq(Tile) /\ IsInjective(r)
               /\ b \in SUBSET Tile /\ b # {}
               /\ ToSet(r) \cap b = {} /\ ToSet(r) \cup b = ToSet(rest)
<1> DEFINE b == ToSet(SubSeq(rest, 1, n))
           r == SubSeq(rest, n + 1, Len(rest))
<1>1. Len(rest) \in Nat /\ DOMAIN rest = 1 .. Len(rest) /\ \A p \in 1 .. Len(rest) : rest[p] \in Tile
  BY LenProperties, ElementOfSeq
<1>2. ToSet(rest) = {rest[p] : p \in 1 .. Len(rest)}
  BY <1>1 DEF ToSet
<1>3. b = {rest[p] : p \in 1 .. n}
  <2>1. PICK f \in Nat \ {0} : f = 1
    OBVIOUS
  <2>2. ToSet(SubSeq(rest, f, n)) = {rest[p] : p \in f .. n}
    BY PartOfList
  <2> QED BY <2>1, <2>2
<1>4. r \in Seq(Tile) /\ IsInjective(r) /\ ToSet(r) = {rest[p] : p \in n + 1 .. Len(rest)}
  <2>1. PICK f \in Nat \ {0} : f = n + 1
    OBVIOUS
  <2>2. PICK c \in Nat : c = Len(rest)
    BY <1>1
  <2>3. /\ SubSeq(rest, f, c) \in Seq(Tile) /\ IsInjective(SubSeq(rest, f, c))
        /\ ToSet(SubSeq(rest, f, c)) = {rest[p] : p \in f .. c}
    BY <2>2, PartOfList
  <2> QED BY <2>1, <2>2, <2>3
<1> HIDE DEF b, r
<1>5. \A p \in 1 .. n : p \in 1 .. Len(rest)
  BY <1>1
<1>6. \A p \in n + 1 .. Len(rest) : p \in 1 .. Len(rest) /\ p \notin 1 .. n
  BY <1>1
<1>7. \A p \in 1 .. Len(rest) : p \in 1 .. n \/ p \in n + 1 .. Len(rest)
  BY <1>1
<1>8. b \in SUBSET Tile
  BY <1>1, <1>3, <1>5
<1>9. b # {}
  <2>1. 1 \in 1 .. n
    OBVIOUS
  <2> QED BY <1>3, <2>1
<1>10. ToSet(r) \cap b = {}
  BY <1>1, <1>3, <1>4, <1>5, <1>6 DEF IsInjective
<1>11. ToSet(r) \cup b = ToSet(rest)
  BY <1>2, <1>3, <1>4, <1>5, <1>6, <1>7
<1> QED BY <1>4, <1>8, <1>9, <1>10, <1>11 DEF b, r

\* What a step makes of the lambda that takes it.
Becomes(s, me) ==
    /\ me \in Lambda
    /\ me.pc = "sending" => me.batch # {} /\ me.retry > 0
    /\ lambda' = [lambda EXCEPT ![s] = me]

LEMMA BatchKeeps ==
    ASSUME PopulateInv, NEW s \in DOMAIN lambda, Batch(s)
    PROVE  \E me : /\ Becomes(s, me)
                   /\ me.pc # "failed" /\ Fine(job, s, me) /\ Left(me) = Left(lambda[s])
<1> DEFINE me == lambda[s]
           rest == me.rest
           n == Smaller(BatchSize, Len(rest))
<1>1. /\ me \in Lambda /\ me.pc = "batching" /\ Fine(job, s, me)
      /\ lambda' = [lambda EXCEPT ![s] =
             IF n = 0 THEN [me EXCEPT !.pc = "done"]
             ELSE [me EXCEPT !.pc = "sending", !.retry = Retries,
                             !.batch = ToSet(SubSeq(rest, 1, n)),
                             !.rest = SubSeq(rest, n + 1, Len(rest))]]
  BY DEF PopulateInv, IngestTypeOK, Batch
<1> HIDE DEF me
<1>2. /\ rest \in Seq(Tile) /\ IsInjective(rest) /\ Len(rest) \in Nat
      /\ me.batch = {} /\ Left(me) = ToSet(rest) /\ Left(me) \subseteq Share(job, s)
      /\ me.sent = Cardinality(Share(job, s) \ Left(me))
  BY <1>1, LenProperties DEF Fine, Left, Lambda
<1>3. BatchSize \in Nat \ {0} /\ Retries \in Nat \ {0}
  BY PopulateConstants
<1>4. n \in Nat /\ n <= Len(rest) /\ (n = 0 => Len(rest) = 0)
  BY <1>2, <1>3 DEF Smaller
<1> HIDE DEF n
<1>5. CASE n = 0
  <2> DEFINE new == [me EXCEPT !.pc = "done"]
  <2>1. rest = <<>>
    BY <1>2, <1>4, <1>5, EmptySeq
  <2>2. /\ new \in Lambda /\ new.pc = "done" /\ new.rest = rest
        /\ new.batch = me.batch /\ new.sent = me.sent
    BY <1>1 DEF Lambda
  <2>3. lambda' = [lambda EXCEPT ![s] = new]
    BY <1>1, <1>5
  <2> HIDE DEF new
  <2>4. Left(new) = Left(me)
    BY <2>2 DEF Left
  <2>5. Fine(job, s, new)
    BY <1>2, <2>1, <2>2, <2>4 DEF Fine
  <2> QED BY <2>2, <2>3, <2>4, <2>5 DEF Becomes, me
<1>6. CASE n # 0
  <2> DEFINE b == ToSet(SubSeq(rest, 1, n))
             r == SubSeq(rest, n + 1, Len(rest))
             new == [me EXCEPT !.pc = "sending", !.retry = Retries, !.batch = b, !.rest = r]
  <2>1. /\ r \in Seq(Tile) /\ IsInjective(r) /\ b \in SUBSET Tile /\ b # {}
        /\ ToSet(r) \cap b = {} /\ ToSet(r) \cup b = ToSet(rest)
    <3>1. n > 0
      BY <1>4, <1>6
    <3> QED BY <1>2, <1>4, <3>1, FirstBatch
  <2>2. lambda' = [lambda EXCEPT ![s] = new]
    BY <1>1, <1>6
  <2> HIDE DEF b, r
  <2>3. /\ new \in Lambda /\ new.pc = "sending" /\ new.rest = r /\ new.retry = Retries
        /\ new.batch = b /\ new.sent = me.sent
    <3>1. me \in Lambda /\ Retries \in 0 .. Retries
      BY <1>1, <1>3
    <3> QED BY <2>1, <3>1 DEF Lambda
  <2> HIDE DEF new
  <2>4. Left(new) = Left(me)
    BY <1>2, <2>1, <2>3 DEF Left
  <2>5. Fine(job, s, new)
    BY <1>2, <2>1, <2>3, <2>4 DEF Fine
  <2>6. new.batch # {} /\ new.retry > 0
    BY <1>3, <2>1, <2>3
  <2>7. Becomes(s, new)
    BY <2>2, <2>3, <2>6 DEF Becomes
  <2> QED BY <2>3, <2>4, <2>5, <2>7 DEF me
<1> QED BY <1>5, <1>6

LEMMA SendKeeps ==
    ASSUME PopulateInv, NEW s \in DOMAIN lambda, SendEntries(s)
    PROVE  \E me, b : /\ Becomes(s, me)
                      /\ b \subseteq lambda[s].batch /\ queue' = queue (+) SetToBag(b)
                      /\ me.pc # "failed" =>
                            /\ Fine(job, s, me)
                            /\ Share(job, s) \ Left(me) = (Share(job, s) \ Left(lambda[s])) \cup b
<1> DEFINE me == lambda[s]
<1>1. PICK failed \in SUBSET me.batch :
         /\ queue' = queue (+) SetToBag(me.batch \ failed)
         /\ lambda' = [lambda EXCEPT ![s].sent = @ + Cardinality(me.batch \ failed),
                                     ![s].batch = failed,
                                     ![s].retry = IF failed = {} THEN @ ELSE @ - 1,
                                     ![s].pc = IF failed = {} THEN "batching"
                                               ELSE IF me.retry = 1 THEN "failed" ELSE @]
  BY DEF SendEntries, SendBatch, Successful, Failed, Enqueue
<1>2. /\ me \in Lambda /\ me.pc = "sending" /\ Fine(job, s, me) /\ me.retry > 0
      /\ job \in Jobs /\ s \in Shares(job) /\ lambda \in [Shares(job) -> Lambda]
  BY DEF PopulateInv, IngestTypeOK, SendEntries, SendBatch
<1> DEFINE b == me.batch \ failed
           pc == IF failed = {} THEN "batching" ELSE IF me.retry = 1 THEN "failed" ELSE me.pc
           retry == IF failed = {} THEN me.retry ELSE me.retry - 1
           new == [me EXCEPT !.sent = me.sent + Cardinality(b), !.batch = failed,
                             !.retry = retry, !.pc = pc]
<1>3. lambda' = [lambda EXCEPT ![s] = new]
  BY <1>1, <1>2 DEF Lambda
<1> HIDE DEF me
<1>4. /\ me.batch \subseteq Share(job, s) /\ me.batch \in SUBSET Tile
      /\ me.sent \in Nat /\ me.sent = Cardinality(Share(job, s) \ Left(me))
      /\ IsInjective(me.rest) /\ Left(me) \subseteq Share(job, s)
      /\ ToSet(me.rest) \cap me.batch = {}
  BY <1>2 DEF Fine, Left, Lambda
<1>5. IsFiniteSet(Share(job, s))
  BY <1>2, ShareIsFinite
<1>6. IsFiniteSet(b) /\ IsFiniteSet(Share(job, s) \ Left(me))
  <2>1. b \in SUBSET Share(job, s) /\ Share(job, s) \ Left(me) \in SUBSET Share(job, s)
    BY <1>4
  <2> QED BY <1>5, <2>1, FS_Subset
<1>7. Cardinality(b) \in Nat
  BY <1>6, FS_CardinalityType
<1>8. retry \in 0 .. Retries /\ pc \in {"batching", "sending", "failed"}
      /\ (pc = "sending" => failed # {} /\ retry > 0) /\ (pc = "batching" => failed = {})
  <2>1. me.retry \in 0 .. Retries /\ Retries \in Nat
    BY <1>2, PopulateConstants DEF Lambda
  <2> QED BY <1>2, <2>1
<1>9. failed \in SUBSET Tile /\ failed \subseteq me.batch /\ me.sent + Cardinality(b) \in Nat
  BY <1>4, <1>7
<1> HIDE DEF b, pc, retry
<1>10. /\ new \in Lambda /\ new.pc = pc /\ new.rest = me.rest /\ new.retry = retry
       /\ new.batch = failed /\ new.sent = me.sent + Cardinality(b)
  BY <1>2, <1>8, <1>9 DEF Lambda
<1> HIDE DEF new
<1>11. Left(new) = ToSet(me.rest) \cup failed
  BY <1>10 DEF Left
<1>12. Share(job, s) \ Left(new) = (Share(job, s) \ Left(me)) \cup b
  BY <1>4, <1>9, <1>11 DEF Left, b
<1>13. (Share(job, s) \ Left(me)) \cap b = {}
  BY DEF Left, b
<1>14. new.sent = Cardinality(Share(job, s) \ Left(new))
  <2>1. Cardinality((Share(job, s) \ Left(me)) \cup b)
          = Cardinality(Share(job, s) \ Left(me)) + Cardinality(b)
    <3> DEFINE A == Share(job, s) \ Left(me)
    <3>1. IsFiniteSet(A) /\ A \cap b = {}
      BY <1>6, <1>13
    <3> HIDE DEF A
    <3>2. Cardinality(A) \in Nat
      BY <3>1, FS_CardinalityType
    <3>3. Cardinality(A \cup b) = Cardinality(A) + Cardinality(b) - Cardinality(A \cap b)
      BY <1>6, <3>1, FS_Union
    <3>4. Cardinality(A \cap b) = 0
      BY <3>1, FS_EmptySet
    <3>5. Cardinality(A \cup b) = Cardinality(A) + Cardinality(b)
      BY <1>7, <3>2, <3>3, <3>4
    <3> QED BY <3>5 DEF A
  <2> QED BY <1>4, <1>10, <1>12, <2>1
<1>15. new.pc # "failed" => Fine(job, s, new)
  <2>1. Left(new) \subseteq Share(job, s) /\ ToSet(new.rest) \cap new.batch = {}
    BY <1>4, <1>9, <1>10, <1>11 DEF Left
  <2> QED BY <1>4, <1>8, <1>10, <1>14, <2>1 DEF Fine
<1>16. Becomes(s, new)
  BY <1>3, <1>8, <1>10 DEF Becomes
<1>17. b \subseteq me.batch /\ queue' = queue (+) SetToBag(b)
  BY <1>1 DEF b
<1> QED BY <1>12, <1>15, <1>16, <1>17 DEF me

LEMMA DieKeeps ==
    ASSUME PopulateInv, NEW s \in DOMAIN lambda, Die(s)
    PROVE  /\ \E me : Becomes(s, me) /\ me.pc = "failed"
           /\ \E b : queue' = queue (+) SetToBag(b)
<1>1. lambda[s] \in Lambda
  BY DEF PopulateInv, IngestTypeOK
<1> DEFINE new == [lambda[s] EXCEPT !.pc = "failed"]
<1>2. new \in Lambda /\ new.pc = "failed"
  BY <1>1 DEF Lambda
<1>3. lambda' = [lambda EXCEPT ![s] = new]
  BY DEF Die
<1> HIDE DEF new
<1>4. Becomes(s, new)
  BY <1>2, <1>3 DEF Becomes
<1>5. \E b : queue' = queue (+) SetToBag(b)
  BY DEF Die, Enqueue
<1> QED BY <1>2, <1>4, <1>5

\* A step of one lambda leaves the others as they are.
LEMMA OthersStay ==
    ASSUME PopulateInv, NEW s \in DOMAIN lambda, NEW me, Becomes(s, me), job' = job
    PROVE  /\ DOMAIN lambda' = DOMAIN lambda /\ lambda'[s] = me
           /\ \A r \in DOMAIN lambda : r # s => lambda'[r] = lambda[r]
           /\ lambda' \in [Shares(job') -> Lambda]
           /\ \A r \in DOMAIN lambda' :
                 lambda'[r].pc = "sending" => lambda'[r].batch # {} /\ lambda'[r].retry > 0
<1>1. /\ lambda \in [Shares(job) -> Lambda] /\ me \in Lambda
      /\ \A r \in DOMAIN lambda :
            lambda[r].pc = "sending" => lambda[r].batch # {} /\ lambda[r].retry > 0
      /\ me.pc = "sending" => me.batch # {} /\ me.retry > 0
      /\ lambda' = [lambda EXCEPT ![s] = me]
  BY DEF PopulateInv, IngestTypeOK, Becomes
<1>2. /\ DOMAIN lambda' = DOMAIN lambda /\ lambda'[s] = me
      /\ \A r \in DOMAIN lambda : r # s => lambda'[r] = lambda[r]
      /\ lambda' \in [Shares(job) -> Lambda]
  BY <1>1
<1>3. ASSUME NEW r \in DOMAIN lambda, lambda'[r].pc = "sending"
      PROVE  lambda'[r].batch # {} /\ lambda'[r].retry > 0
  <2>1. CASE r = s
    BY <1>1, <1>2, <1>3, <2>1
  <2>2. CASE r # s
    <3>1. lambda'[r] = lambda[r]
      BY <1>2, <2>2
    <3> QED BY <1>1, <1>3, <3>1
  <2> QED BY <2>1, <2>2
<1> QED BY <1>2, <1>3

\* A step that makes a good lambda of a lambda, or a failed one.
LEMMA FineStays ==
    ASSUME PopulateInv, NEW s \in DOMAIN lambda, NEW me, Becomes(s, me), job' = job,
           me.pc # "failed" => Fine(job, s, me)
    PROVE  \A r \in DOMAIN lambda' : lambda'[r].pc # "failed" => Fine(job', r, lambda'[r])
<1> SUFFICES ASSUME NEW r \in DOMAIN lambda', lambda'[r].pc # "failed"
             PROVE  Fine(job, r, lambda'[r])
  BY Zenon
<1>1. DOMAIN lambda' = DOMAIN lambda /\ lambda'[s] = me
      /\ (r # s => lambda'[r] = lambda[r])
  BY OthersStay
<1>2. CASE r = s
  BY <1>1, <1>2
<1>3. CASE r # s
  <2>1. lambda'[r] = lambda[r] /\ r \in DOMAIN lambda /\ lambda[r].pc # "failed"
    BY <1>1, <1>3
  <2> QED BY <2>1 DEF PopulateInv
<1> QED BY <1>2, <1>3

\* The queue, when one lambda has put a set of new messages into it.
LEMMA QueueGrows ==
    ASSUME PopulateInv, NEW s \in DOMAIN lambda, NEW me, NEW b, Becomes(s, me), job' = job,
           lambda[s].pc # "failed", b \subseteq Share(job, s) \cap Left(lambda[s]),
           Share(job, s) \ Left(me) = (Share(job, s) \ Left(lambda[s])) \cup b,
           queue' = queue (+) SetToBag(b), NobodyFailed'
    PROVE  queue' = SetToBag(UNION {Share(job, r) \ Left(lambda'[r]) : r \in DOMAIN lambda'})
<1> DEFINE D == DOMAIN lambda
           sent(r) == Share(job, r) \ Left(lambda[r])
           new(r) == Share(job, r) \ Left(lambda'[r])
           U == UNION {sent(r) : r \in D}
           V == UNION {new(r) : r \in D}
<1>1. DOMAIN lambda' = D /\ lambda'[s] = me /\ \A r \in D : r # s => lambda'[r] = lambda[r]
  BY OthersStay
<1>2. NobodyFailed
  BY <1>1 DEF NobodyFailed
<1>3. queue = SetToBag(U)
  BY <1>2 DEF PopulateInv, Sent
<1>4. new(s) = sent(s) \cup b /\ \A r \in D : r # s => new(r) = sent(r)
  BY <1>1
<1>5. /\ \A r \in D : r # s => sent(r) \cap b = {}
      /\ sent(s) \cap b = {}
  <2>1. job \in Jobs /\ D = Shares(job)
    BY DEF PopulateInv, IngestTypeOK
  <2>2. \A r \in D : r # s => Share(job, r) \cap Share(job, s) = {}
    BY <2>1, SharesPartition
  <2> QED BY <2>2
<1> HIDE DEF sent, new
<1>6. U \cap b = {}
  BY <1>5
<1>7. V = U \cup b
  BY <1>4
<1> HIDE DEF U, V
<1>8. queue' = SetToBag(V)
  BY <1>3, <1>6, <1>7, BagOfUnion
<1>9. V = UNION {Share(job, r) \ Left(lambda'[r]) : r \in DOMAIN lambda'}
  BY <1>1 DEF V, new
<1> QED BY <1>8, <1>9

\* All lambdas begin: nothing has been sent.
LEMMA AllStart ==
    ASSUME NEW j \in Jobs, NEW f, f = [s \in Shares(j) |-> Started(j, s)]
    PROVE  /\ f \in [Shares(j) -> Lambda]
           /\ \A s \in DOMAIN f : f[s].pc = "batching" /\ Fine(j, s, f[s])
           /\ UNION {Share(j, s) \ Left(f[s]) : s \in DOMAIN f} = {}
  BY StartedIsFine

LEMMA PopulateInit ==
    ASSUME IngestInit
    PROVE  PopulateInv
<1>1. /\ job \in Jobs /\ lambda = [s \in Shares(job) |-> Started(job, s)]
      /\ queue = EmptyBag /\ attempts = 1 /\ mishaps = 0
  BY DEF IngestInit
<1>2. /\ lambda \in [Shares(job) -> Lambda]
      /\ \A s \in DOMAIN lambda : lambda[s].pc = "batching" /\ Fine(job, s, lambda[s])
      /\ UNION {Share(job, s) \ Left(lambda[s]) : s \in DOMAIN lambda} = {}
  BY <1>1, AllStart
<1>3. attempts \in 1 .. MaxAttempts /\ mishaps \in 0 .. MaxMishaps
  BY <1>1, PopulateConstants
<1>4. IngestTypeOK
  BY <1>1, <1>2, <1>3, EmptyIsABag DEF IngestTypeOK
<1>5. queue = SetToBag(UNION {Sent(s) : s \in DOMAIN lambda})
  <2>1. queue = SetToBag({})
    BY <1>1 DEF EmptyBag
  <2> QED BY <1>2, <2>1 DEF Sent
<1> QED BY <1>2, <1>4, <1>5 DEF PopulateInv

LEMMA RetryKeeps ==
    ASSUME PopulateInv, Retry
    PROVE  PopulateInv'
<1>1. /\ job \in Jobs /\ job' = job /\ lambda' = [s \in Shares(job) |-> Started(job, s)]
      /\ queue' = EmptyBag /\ mishaps' = mishaps
      /\ attempts' = attempts + 1 /\ attempts < MaxAttempts
      /\ attempts \in 1 .. MaxAttempts /\ mishaps \in 0 .. MaxMishaps
  BY DEF PopulateInv, IngestTypeOK, Retry
<1>2. /\ lambda' \in [Shares(job) -> Lambda]
      /\ \A s \in DOMAIN lambda' : lambda'[s].pc = "batching" /\ Fine(job, s, lambda'[s])
      /\ UNION {Share(job, s) \ Left(lambda'[s]) : s \in DOMAIN lambda'} = {}
  BY <1>1, AllStart
<1>3. attempts' \in 1 .. MaxAttempts /\ mishaps' \in 0 .. MaxMishaps
  BY <1>1, PopulateConstants
<1>4. IngestTypeOK'
  BY <1>1, <1>2, <1>3, EmptyIsABag DEF IngestTypeOK
<1>5. queue' = SetToBag(UNION {Share(job, s) \ Left(lambda'[s]) : s \in DOMAIN lambda'})
  <2>1. queue' = SetToBag({})
    BY <1>1 DEF EmptyBag
  <2> QED BY <1>2, <2>1
<1>6. \A s \in DOMAIN lambda' : Fine(job', s, lambda'[s])
  BY <1>1, <1>2
<1>7. queue' = SetToBag(UNION {Share(job', s) \ Left(lambda'[s]) : s \in DOMAIN lambda'})
  BY <1>1, <1>5
<1> QED BY <1>4, <1>6, <1>7 DEF PopulateInv, Sent

LEMMA BatchKeepsInv ==
    ASSUME PopulateInv, NEW s \in DOMAIN lambda, Batch(s)
    PROVE  PopulateInv'
<1>1. PICK me : /\ Becomes(s, me)
                /\ me.pc # "failed" /\ Fine(job, s, me) /\ Left(me) = Left(lambda[s])
  BY BatchKeeps
<1>2. /\ job' = job /\ queue' = queue /\ attempts' = attempts /\ mishaps' = mishaps
      /\ lambda[s].pc # "failed"
  BY DEF Batch
<1>3. /\ DOMAIN lambda' = DOMAIN lambda /\ lambda'[s] = me
      /\ \A r \in DOMAIN lambda : r # s => lambda'[r] = lambda[r]
      /\ lambda' \in [Shares(job') -> Lambda]
      /\ \A r \in DOMAIN lambda' :
            lambda'[r].pc = "sending" => lambda'[r].batch # {} /\ lambda'[r].retry > 0
  BY <1>1, <1>2, OthersStay
<1>4. IngestTypeOK'
  BY <1>2, <1>3 DEF PopulateInv, IngestTypeOK
<1>5. \A r \in DOMAIN lambda' : lambda'[r].pc # "failed" => Fine(job', r, lambda'[r])
  BY <1>1, <1>2, FineStays
<1>6. ASSUME NobodyFailed'
      PROVE  queue' = SetToBag(UNION {Share(job', r) \ Left(lambda'[r]) : r \in DOMAIN lambda'})
  <2>1. NobodyFailed
    BY <1>2, <1>3, <1>6 DEF NobodyFailed
  <2>2. \A r \in DOMAIN lambda : Left(lambda'[r]) = Left(lambda[r])
    BY <1>1, <1>3
  <2>3. {Share(job', r) \ Left(lambda'[r]) : r \in DOMAIN lambda'}
          = {Share(job, r) \ Left(lambda[r]) : r \in DOMAIN lambda}
    BY <1>2, <1>3, <2>2
  <2> QED BY <1>2, <2>1, <2>3 DEF PopulateInv, Sent
<1> QED BY <1>4, <1>5, <1>6 DEF PopulateInv, Sent

LEMMA SendKeepsInv ==
    ASSUME PopulateInv, NEW s \in DOMAIN lambda, SendEntries(s)
    PROVE  PopulateInv'
<1>1. PICK me, b : /\ Becomes(s, me)
                   /\ b \subseteq lambda[s].batch /\ queue' = queue (+) SetToBag(b)
                   /\ me.pc # "failed" =>
                         /\ Fine(job, s, me)
                         /\ Share(job, s) \ Left(me) = (Share(job, s) \ Left(lambda[s])) \cup b
  BY SendKeeps
<1>2. /\ job' = job /\ attempts' = attempts /\ lambda[s].pc # "failed"
      /\ mishaps' = mishaps \/ (mishaps' = mishaps + 1 /\ CanFail)
  BY DEF SendEntries, SendBatch
<1>3. /\ DOMAIN lambda' = DOMAIN lambda /\ lambda'[s] = me
      /\ lambda' \in [Shares(job') -> Lambda]
      /\ \A r \in DOMAIN lambda' :
            lambda'[r].pc = "sending" => lambda'[r].batch # {} /\ lambda'[r].retry > 0
  BY <1>1, <1>2, OthersStay
<1>4. mishaps' \in 0 .. MaxMishaps
  BY <1>2, PopulateConstants DEF PopulateInv, IngestTypeOK, CanFail
<1>5. IsABag(queue')
  BY <1>1, BagGrows DEF PopulateInv, IngestTypeOK
<1>6. IngestTypeOK'
  BY <1>2, <1>3, <1>4, <1>5 DEF PopulateInv, IngestTypeOK
<1>7. \A r \in DOMAIN lambda' : lambda'[r].pc # "failed" => Fine(job', r, lambda'[r])
  BY <1>1, <1>2, FineStays
<1>8. ASSUME NobodyFailed'
      PROVE  queue' = SetToBag(UNION {Share(job', r) \ Left(lambda'[r]) : r \in DOMAIN lambda'})
  <2>1. me.pc # "failed"
    BY <1>3, <1>8 DEF NobodyFailed
  <2>2. b \subseteq Share(job, s) \cap Left(lambda[s])
    BY <1>1, <1>2 DEF PopulateInv, Fine, Left
  <2>3. queue' = SetToBag(UNION {Share(job, r) \ Left(lambda'[r]) : r \in DOMAIN lambda'})
    BY <1>1, <1>2, <1>8, <2>1, <2>2, QueueGrows
  <2> QED BY <1>2, <2>3
<1> QED BY <1>6, <1>7, <1>8 DEF PopulateInv, Sent

LEMMA DieKeepsInv ==
    ASSUME PopulateInv, NEW s \in DOMAIN lambda, Die(s)
    PROVE  PopulateInv'
<1>1. PICK me : Becomes(s, me) /\ me.pc = "failed"
  BY DieKeeps
<1>2. /\ job' = job /\ attempts' = attempts /\ mishaps' = mishaps + 1 /\ CanFail
  BY DEF Die
<1>3. /\ DOMAIN lambda' = DOMAIN lambda /\ lambda'[s] = me
      /\ lambda' \in [Shares(job') -> Lambda]
      /\ \A r \in DOMAIN lambda' :
            lambda'[r].pc = "sending" => lambda'[r].batch # {} /\ lambda'[r].retry > 0
  BY <1>1, <1>2, OthersStay
<1>4. mishaps' \in 0 .. MaxMishaps
  BY <1>2, PopulateConstants DEF PopulateInv, IngestTypeOK, CanFail
<1>5. IsABag(queue')
  BY DieKeeps, BagGrows DEF PopulateInv, IngestTypeOK
<1>6. IngestTypeOK'
  BY <1>2, <1>3, <1>4, <1>5 DEF PopulateInv, IngestTypeOK
<1>7. \A r \in DOMAIN lambda' : lambda'[r].pc # "failed" => Fine(job', r, lambda'[r])
  BY <1>1, <1>2, FineStays
<1>8. ~ NobodyFailed'
  BY <1>1, <1>3 DEF NobodyFailed
<1> QED BY <1>6, <1>7, <1>8 DEF PopulateInv

\* The invariant of filling the queue.  A lambda that has not failed has counted what
\* it has sent; when no lambda of the attempt has failed, the queue holds what they
\* have sent, once each, and nothing else.
THEOREM PopulateInvHolds == IngestSpec => []PopulateInv
<1>1. IngestInit => PopulateInv
  BY PopulateInit
<1>2. PopulateInv /\ [IngestNext]_ingest => PopulateInv'
  <2> SUFFICES ASSUME PopulateInv, [IngestNext]_ingest PROVE PopulateInv'
    OBVIOUS
  <2>1. CASE Retry
    BY <2>1, RetryKeeps
  <2>2. ASSUME NEW s \in DOMAIN lambda, Batch(s) PROVE PopulateInv'
    BY <2>2, BatchKeepsInv
  <2>3. ASSUME NEW s \in DOMAIN lambda, SendEntries(s) PROVE PopulateInv'
    BY <2>3, SendKeepsInv
  <2>4. ASSUME NEW s \in DOMAIN lambda, Die(s) PROVE PopulateInv'
    BY <2>4, DieKeepsInv
  <2>5. CASE Over \/ UNCHANGED ingest
    <3>1. job' = job /\ lambda' = lambda /\ queue' = queue
          /\ attempts' = attempts /\ mishaps' = mishaps
      BY <2>5 DEF Over, ingest
    <3> QED BY <3>1 DEF PopulateInv, IngestTypeOK, NobodyFailed, Sent
  <2> QED BY <2>1, <2>2, <2>3, <2>4, <2>5 DEF IngestNext
<1> QED BY <1>1, <1>2, PTL DEF IngestSpec

\* Type correctness of filling the queue: a lambda that sends has entries to send and a
\* try left, the queue is a bag, whatever fails.
THEOREM IngestTypeCorrect == IngestSpec => []IngestTypeOK
<1>1. PopulateInv => IngestTypeOK
  BY DEF PopulateInv
<1> QED BY <1>1, PopulateInvHolds, PTL

\* What each lambda makes of its items_to_skip is the slice of the walk that begins
\* there, and the walk has as many messages as were counted, all distinct: for every
\* start, stop, size and remainder of the four axes.
THEOREM SkippingIsExact == IngestSpec => []SharesAreSlices
<1>1. ASSUME NEW j \in Jobs
      PROVE  /\ Len(Expected(j)) = Total(j) /\ IsInjective(Expected(j))
             /\ \A skip \in 0 .. Total(j) :
                   Messages(j, skip)
                     = SubSeq(Expected(j), skip + 1, Smaller(skip + j.max, Len(Expected(j))))
  BY ExpectedIsGood, ShareIsSlice DEF Good
<1>2. PopulateInv => SharesAreSlices
  BY <1>1 DEF PopulateInv, IngestTypeOK, SharesAreSlices
<1> QED BY <1>2, PopulateInvHolds, PTL

\* When all lambdas of an attempt return, the queue holds every tile of the job once.
THEOREM TilesAreQueuedOnce == IngestSpec => []EveryTileOnce
<1>1. ASSUME PopulateInv, \A s \in DOMAIN lambda : lambda[s].pc = "done"
      PROVE  queue = SetToBag(ToSet(Expected(job)))
  <2>1. job \in Jobs /\ DOMAIN lambda = Shares(job)
    BY <1>1 DEF PopulateInv, IngestTypeOK
  <2>2. queue = SetToBag(UNION {Sent(s) : s \in DOMAIN lambda})
    BY <1>1 DEF PopulateInv, NobodyFailed
  <2>3. ASSUME NEW s \in DOMAIN lambda PROVE Sent(s) = Share(job, s)
    <3>1. lambda[s].rest = <<>> /\ lambda[s].batch = {}
      BY <1>1 DEF PopulateInv, Fine
    <3>2. ToSet(<<>>) = {}
      BY DEF ToSet
    <3> QED BY <3>1, <3>2 DEF Sent, Left
  <2>4. UNION {Sent(s) : s \in DOMAIN lambda} = ToSet(Expected(job))
    BY <2>1, <2>3, SharesPartition
  <2> QED BY <2>2, <2>4
<1>2. PopulateInv => EveryTileOnce
  BY <1>1 DEF EveryTileOnce
<1> QED BY <1>2, PopulateInvHolds, PTL

\* As long as no lambda of an attempt has failed, each has counted the messages of its
\* share that are in the queue, which is what the check of the count builds on.
THEOREM CountsAreTrue == IngestSpec => []CountIsTrue
<1>1. ASSUME PopulateInv, NobodyFailed, NEW s \in DOMAIN lambda
      PROVE  lambda[s].sent
               = Cardinality({m \in BagToSet(queue) : m \in ToSet(Messages(job, s))})
  <2>1. job \in Jobs /\ DOMAIN lambda = Shares(job)
    BY <1>1 DEF PopulateInv, IngestTypeOK
  <2>2. BagToSet(queue) = UNION {Sent(r) : r \in DOMAIN lambda}
    BY <1>1 DEF PopulateInv, BagToSet, SetToBag
  <2>3. \A r \in DOMAIN lambda : r # s => Sent(r) \cap Share(job, s) = {}
    BY <2>1, SharesPartition DEF Sent
  <2>4. Sent(s) \subseteq Share(job, s)
    BY DEF Sent
  <2>5. {m \in BagToSet(queue) : m \in Share(job, s)} = Sent(s)
    BY <2>2, <2>3, <2>4
  <2>6. lambda[s].sent = Cardinality(Sent(s))
    BY <1>1 DEF PopulateInv, NobodyFailed, Fine, Sent
  <2> QED BY <2>5, <2>6 DEF Share
<1>2. PopulateInv => CountIsTrue
  BY <1>1 DEF CountIsTrue, NobodyFailed
<1> QED BY <1>2, PopulateInvHolds, PTL

================================================================================
