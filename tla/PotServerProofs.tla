--------------------------- MODULE PotServerProofs ---------------------------
(***************************************************************************)
(* Proofs about PotServer, for any set of jobs and any timeouts.           *)
(***************************************************************************)
EXTENDS PotServer, FiniteSetTheorems, TLAPS

\* The steps with the lock in hand.
Holding == {"reap", "look", "spawn", "glance", "poll", "check", "sleep", "terminate",
            "terminated"}

\* One call at a time has the lock.
LockInv == \A c \in Calls : pc[c] \in Holding => holder = c

RoleInv ==
    \A c \in Calls :
        /\ pc[c] \in Holding \ {"terminate", "terminated"} => c \in Ensures
        /\ pc[c] \in {"terminate", "terminated"} => c = Stopper
        /\ pc[c] = "glance" => c = Boot
        /\ pc[c] \in {"poll", "check", "sleep"} => c \in Jobs

\* A process is started only where none is known.
ProcInv ==
    /\ NoServerForgotten
    /\ \A c \in Calls : pc[c] = "spawn" => proc = NoOne

PortInv == up => Listening

\* What has been seen when a call is about to give up.
WaitInv ==
    \A c \in Calls :
        /\ pc[c] \in {"check", "sleep"} => left > 0 /\ ~ up
        /\ pc[c] = "spawn" => ~ up
        /\ pc[c] = "poll" => left > 0 \/ ~ up
        /\ pc[c] \in {"spawn", "look", "glance", "poll", "check", "sleep"} /\ Exited => lost
        /\ pc[c] \in {"poll", "check", "sleep"} => waited[c] + left >= Ready

\* The jobs whose clock has started, or that need none any more, and what each
\* kind of holder may have let the others wait for.
Charged == {j \in Jobs : pc[j] \in {"poll", "check", "sleep", "returned"}}
Farewell == IF pc[Stopper] \in {"terminated", "returned"} THEN Grace ELSE 0

\* Every sleep is paid from the clock of one job, or from that of stop(): what a
\* call has waited for, and the sleeps that are left, come from clocks that have
\* started.
CostInv ==
    \A c \in Calls : waited[c] + left <= Cardinality(Charged) * Ready + Farewell

IInv ==
    /\ TypeOK
    /\ LockInv
    /\ RoleInv
    /\ ProcInv
    /\ PortInv
    /\ WaitInv
    /\ CostInv

LEMMA InvInitially == Init => IInv
<1> SUFFICES ASSUME Init PROVE IInv
  OBVIOUS
<1>1. TypeOK
  BY DEF Init, TypeOK, Steps
<1>2. LockInv /\ RoleInv /\ ProcInv /\ PortInv /\ WaitInv
  BY DEF Init, LockInv, RoleInv, ProcInv, PortInv, WaitInv, Holding, NoServerForgotten
<1>3. CostInv
  <2>1. Charged = {}
    BY CallsAssumption DEF Init, Charged, Calls, Ensures
  <2>2. Cardinality(Charged) * Ready = 0 /\ Farewell = 0
    BY <2>1, FS_EmptySet, CallsAssumption, TimesAssumption DEF Init, Farewell, Calls
  <2>3. QED
    BY <2>2 DEF Init, CostInv
<1>4. QED
  BY <1>1, <1>2, <1>3 DEF IInv

LEMMA TypeStep == IInv /\ [Next]_vars => TypeOK'
<1> SUFFICES ASSUME IInv, [Next]_vars PROVE TypeOK'
  OBVIOUS
<1> USE CallsAssumption, TimesAssumption
    DEF local, world, vars, Next, World, Step, Goto, Leave, StartWaiting, Kill
<1>1. (pc \in [Calls -> Steps])'
  BY DEF IInv, TypeOK, Steps, Ask, Acquire, Reap, Look, Spawn, SpawnFails, Glance, Poll,
     Check, Sleep, Terminate, StopEnds, Listens, Exits, OtherComes, OtherGoes
<1>2. (setup \in {"off", "missing", "installed"})'
  BY DEF IInv, TypeOK, Ask, Acquire, Reap, Look, Spawn, SpawnFails, Glance, Poll,
     Check, Sleep, Terminate, StopEnds, Listens, Exits, OtherComes, OtherGoes
<1>3. (holder \in Calls \cup {NoOne})'
  BY DEF IInv, TypeOK, Ask, Acquire, Reap, Look, Spawn, SpawnFails, Glance, Poll,
     Check, Sleep, Terminate, StopEnds, Listens, Exits, OtherComes, OtherGoes
<1>4. (proc \in Ensures \cup {NoOne})'
  BY DEF IInv, TypeOK, RoleInv, Holding, Calls, Ask, Acquire, Reap, Look, Spawn,
     SpawnFails, Glance, Poll, Check, Sleep, Terminate, StopEnds, Listens, Exits,
     OtherComes, OtherGoes
<1>5. (left \in Nat)'
  BY DEF IInv, TypeOK, WaitInv, Ask, Acquire, Reap, Look, Spawn, SpawnFails, Glance,
     Poll, Check, Sleep, Terminate, StopEnds, Listens, Exits, OtherComes, OtherGoes
<1>6. (answer \in [Calls -> {"none", "yes", "no"}])'
  BY DEF IInv, TypeOK, Ask, Acquire, Reap, Look, Spawn, SpawnFails, Glance, Poll,
     Check, Sleep, Terminate, StopEnds, Listens, Exits, OtherComes, OtherGoes
<1>7. (waited \in [Calls -> Nat])'
  BY DEF IInv, TypeOK, Ask, Acquire, Reap, Look, Spawn, SpawnFails, Glance, Poll,
     Check, Sleep, Terminate, StopEnds, Listens, Exits, OtherComes, OtherGoes
<1>8. (server \in [Calls -> {"none", "alive", "dead"}])'
  BY DEF IInv, TypeOK, Ask, Acquire, Reap, Look, Spawn, SpawnFails, Glance, Poll,
     Check, Sleep, Terminate, StopEnds, Listens, Exits, OtherComes, OtherGoes
<1>9. (port \in Ensures \cup {NoOne, Other})'
  BY DEF IInv, TypeOK, ProcInv, NoServerForgotten, Calls, Ask, Acquire, Reap, Look,
     Spawn, SpawnFails, Glance, Poll, Check, Sleep, Terminate, StopEnds, Listens, Exits,
     OtherComes, OtherGoes
<1>10. (up \in BOOLEAN)'
  BY DEF IInv, TypeOK, Listening, Ask, Acquire, Reap, Look, Spawn, SpawnFails, Glance,
     Poll, Check, Sleep, Terminate, StopEnds, Listens, Exits, OtherComes, OtherGoes
<1>11. (lost \in BOOLEAN)'
  BY DEF IInv, TypeOK, Ask, Acquire, Reap, Look, Spawn, SpawnFails, Glance, Poll,
     Check, Sleep, Terminate, StopEnds, Listens, Exits, OtherComes, OtherGoes
<1>12. QED
  BY <1>1, <1>2, <1>3, <1>4, <1>5, <1>6, <1>7, <1>8, <1>9, <1>10, <1>11 DEF TypeOK

LEMMA LockStep == IInv /\ [Next]_vars => LockInv' /\ RoleInv'
<1> SUFFICES ASSUME IInv, [Next]_vars PROVE LockInv' /\ RoleInv'
  OBVIOUS
<1> USE CallsAssumption
    DEF local, world, vars, Next, World, Step, Goto, Leave, StartWaiting, Kill
<1>1. LockInv'
  BY DEF IInv, TypeOK, LockInv, Holding, Ask, Acquire, Reap, Look, Spawn, SpawnFails,
     Glance, Poll, Check, Sleep, Terminate, StopEnds, Listens, Exits, OtherComes, OtherGoes
<1>2. RoleInv'
  BY DEF IInv, TypeOK, RoleInv, Holding, Ensures, Calls, Ask, Acquire, Reap, Look, Spawn,
     SpawnFails, Glance, Poll, Check, Sleep, Terminate, StopEnds, Listens, Exits,
     OtherComes, OtherGoes
<1>3. QED
  BY <1>1, <1>2

LEMMA ProcStep == IInv /\ [Next]_vars => ProcInv'
<1> SUFFICES ASSUME IInv, [Next]_vars PROVE ProcInv'
  OBVIOUS
<1> USE CallsAssumption
    DEF local, world, vars, Next, World, Step, Goto, Leave, StartWaiting, Kill
<1>1. NoServerForgotten'
  BY DEF IInv, TypeOK, ProcInv, NoServerForgotten, Exited, Ask, Acquire, Reap, Look,
     Spawn, SpawnFails, Glance, Poll, Check, Sleep, Terminate, StopEnds, Listens, Exits,
     OtherComes, OtherGoes
<1>2. (\A c \in Calls : pc[c] = "spawn" => proc = NoOne)'
  BY DEF IInv, TypeOK, ProcInv, LockInv, Holding, Missing, Ask, Acquire, Reap, Look,
     Spawn, SpawnFails, Glance, Poll, Check, Sleep, Terminate, StopEnds, Listens, Exits,
     OtherComes, OtherGoes
<1>3. QED
  BY <1>1, <1>2 DEF ProcInv

LEMMA PortStep == IInv /\ [Next]_vars => PortInv'
BY CallsAssumption
   DEF local, world, vars, Next, World, Step, Goto, Leave, StartWaiting, Kill, IInv, TypeOK,
   Calls, PortInv, Listening, Ask, Acquire, Reap, Look, Spawn, SpawnFails, Glance, Poll,
   Check, Sleep, Terminate, StopEnds, Listens, Exits, OtherComes, OtherGoes

LEMMA WaitStep == IInv /\ [Next]_vars => WaitInv'
<1> SUFFICES ASSUME IInv, [Next]_vars, NEW c \in Calls
             PROVE  /\ (pc[c] \in {"check", "sleep"} => left > 0 /\ ~ up)'
                    /\ (pc[c] = "spawn" => ~ up)'
                    /\ (pc[c] = "poll" => left > 0 \/ ~ up)'
                    /\ (pc[c] \in {"spawn", "look", "glance", "poll", "check", "sleep"}
                          /\ Exited => lost)'
                    /\ (pc[c] \in {"poll", "check", "sleep"} => waited[c] + left >= Ready)'
  BY DEF WaitInv
<1> USE CallsAssumption, TimesAssumption
    DEF local, world, vars, Next, World, Step, Goto, Leave, StartWaiting, Kill
<1>1. (pc[c] \in {"check", "sleep"} => left > 0 /\ ~ up)'
  BY DEF IInv, TypeOK, PortInv, WaitInv, LockInv, Holding, Patience, Listening, Ask, Acquire, Reap, Look, Spawn,
     SpawnFails, Glance, Poll, Check, Sleep, Terminate, StopEnds, Listens, Exits,
     OtherComes, OtherGoes
<1>2. (pc[c] = "spawn" => ~ up)'
  BY DEF IInv, TypeOK, PortInv, WaitInv, LockInv, Holding, Missing, Listening, Ask, Acquire, Reap, Look, Spawn,
     SpawnFails, Glance, Poll, Check, Sleep, Terminate, StopEnds, Listens, Exits,
     OtherComes, OtherGoes
<1>3. (pc[c] = "poll" => left > 0 \/ ~ up)'
  BY DEF IInv, TypeOK, PortInv, WaitInv, LockInv, Holding, Ask, Acquire, Reap, Look, Spawn,
     SpawnFails, Glance, Poll, Check, Sleep, Terminate, StopEnds, Listens, Exits,
     OtherComes, OtherGoes
<1>4. (pc[c] \in {"spawn", "look", "glance", "poll", "check", "sleep"} /\ Exited => lost)'
  BY DEF IInv, TypeOK, WaitInv, LockInv, Holding, Exited, Ask, Acquire, Reap, Look, Spawn,
     SpawnFails, Glance, Poll, Check, Sleep, Terminate, StopEnds, Listens, Exits,
     OtherComes, OtherGoes
<1>5. (pc[c] \in {"poll", "check", "sleep"} => waited[c] + left >= Ready)'
  BY DEF IInv, TypeOK, WaitInv, LockInv, RoleInv, Holding, Asking, Ask, Acquire, Reap, Look, Spawn,
     SpawnFails, Glance, Poll, Check, Sleep, Terminate, StopEnds, Listens, Exits,
     OtherComes, OtherGoes
<1>6. QED
  BY <1>1, <1>2, <1>3, <1>4, <1>5

\* Clocks that have started bound no less when more have.
LEMMA MoreClocks ==
    ASSUME NEW S, NEW T, IsFiniteSet(T), S \subseteq T
    PROVE  /\ Cardinality(S) \in Nat /\ Cardinality(T) \in Nat
           /\ Cardinality(S) * Ready \in Nat
           /\ Cardinality(S) * Ready <= Cardinality(T) * Ready
<1>1. /\ IsFiniteSet(S) /\ Cardinality(S) \in Nat /\ Cardinality(T) \in Nat
      /\ Cardinality(S) <= Cardinality(T)
  BY FS_Subset, FS_CardinalityType
<1>2. \A m, n, k \in Nat : m <= n => m * k \in Nat /\ m * k <= n * k
  OBVIOUS
<1>3. QED
  BY <1>1, <1>2, TimesAssumption

\* A job starts its clock once, and stop() its own once.
LEMMA ClockStarts ==
    ASSUME IInv, [Next]_vars
    PROVE  /\ Charged \subseteq Charged'
           /\ Farewell \in Nat /\ Farewell' \in Nat /\ Farewell <= Farewell'
           /\ \/ left' <= left
              \/ \E j \in Jobs \ Charged : j \in Charged' /\ left' = Ready
              \/ left' = Grace /\ Farewell' = Farewell + Grace
           /\ \A c \in Calls : \/ waited'[c] + left' <= waited[c] + left
                               \/ left' > left /\ waited'[c] = waited[c]
<1> USE CallsAssumption, TimesAssumption
    DEF local, world, vars, Next, World, Step, Goto, Leave, StartWaiting, Kill
<1>1. Charged \subseteq Charged'
  BY DEF IInv, TypeOK, Charged, Calls, Ensures, Ask, Acquire, Reap, Look, Spawn, SpawnFails,
     Glance, Poll, Check, Sleep, Terminate, StopEnds, Listens, Exits, OtherComes, OtherGoes
<1>2. Farewell \in Nat /\ Farewell' \in Nat /\ Farewell <= Farewell'
  BY DEF IInv, TypeOK, Farewell, Calls, Ask, Acquire, Reap, Look, Spawn, SpawnFails,
     Glance, Poll, Check, Sleep, Terminate, StopEnds, Listens, Exits, OtherComes, OtherGoes
<1>3. \/ left' <= left
      \/ \E j \in Jobs \ Charged : j \in Charged' /\ left' = Ready
      \/ left' = Grace /\ Farewell' = Farewell + Grace
  BY DEF IInv, TypeOK, RoleInv, Holding, Charged, Farewell, Calls, Ensures, Ask, Acquire,
     Reap, Look, Spawn, SpawnFails, Glance, Poll, Check, Sleep, Terminate, StopEnds,
     Listens, Exits, OtherComes, OtherGoes
<1>4. ASSUME NEW c \in Calls
      PROVE  \/ waited'[c] + left' <= waited[c] + left
             \/ left' > left /\ waited'[c] = waited[c]
  BY DEF IInv, TypeOK, WaitInv, Asking, Ask, Acquire, Reap, Look, Spawn, SpawnFails,
     Glance, Poll, Check, Sleep, Terminate, StopEnds, Listens, Exits, OtherComes, OtherGoes
<1>5. QED
  BY <1>1, <1>2, <1>3, <1>4

LEMMA CostStep == IInv /\ [Next]_vars => CostInv'
<1> DEFINE paid == Cardinality(Charged) * Ready
           paid2 == Cardinality(Charged') * Ready
<1> SUFFICES ASSUME IInv, [Next]_vars, NEW c \in Calls
             PROVE  waited'[c] + left' <= paid2 + Farewell'
  BY DEF CostInv
<1>1. /\ waited[c] \in Nat /\ waited'[c] \in Nat /\ left \in Nat /\ left' \in Nat
      /\ Ready \in Nat /\ Grace \in Nat
  BY TypeStep, TimesAssumption DEF IInv, TypeOK
<1>2. waited[c] + left <= paid + Farewell
  BY DEF IInv, CostInv
<1>3. IsFiniteSet(Charged')
  BY CallsAssumption, FS_Subset DEF Charged
<1>4. paid \in Nat /\ paid2 \in Nat /\ paid <= paid2
  <2>1. Charged \subseteq Charged'
    BY ClockStarts
  <2>2. QED
    BY <1>3, <2>1, MoreClocks
<1>5. Farewell \in Nat /\ Farewell' \in Nat /\ Farewell <= Farewell'
  BY ClockStarts
<1>6. CASE waited'[c] + left' <= waited[c] + left
  <2> HIDE DEF paid, paid2
  <2>1. QED
    BY <1>1, <1>2, <1>4, <1>5, <1>6
<1>7. CASE left' > left /\ waited'[c] = waited[c]
  <2>1. CASE \E j \in Jobs \ Charged : j \in Charged' /\ left' = Ready
    <3>1. PICK j \in Jobs \ Charged : j \in Charged' /\ left' = Ready
      BY <2>1
    <3>2. /\ Cardinality(Charged) \in Nat
          /\ Cardinality(Charged \cup {j}) = Cardinality(Charged) + 1
      BY <3>1, CallsAssumption, FS_Subset, FS_AddElement, FS_CardinalityType DEF Charged
    <3>3. (Cardinality(Charged) + 1) * Ready = paid + Ready
      BY <1>1, <3>2
    <3>4. Charged \cup {j} \subseteq Charged'
      BY <3>1, ClockStarts
    <3>5. Cardinality(Charged \cup {j}) * Ready <= paid2
      BY <1>3, <3>4, MoreClocks
    <3>6. paid + Ready <= paid2
      BY <3>2, <3>3, <3>5
    <3> HIDE DEF paid, paid2
    <3>7. QED
      BY <1>1, <1>2, <1>4, <1>5, <1>7, <3>1, <3>6
  <2>2. CASE left' = Grace /\ Farewell' = Farewell + Grace
    <3> HIDE DEF paid, paid2
    <3>1. QED
      BY <1>1, <1>2, <1>4, <1>5, <1>7, <2>2
  <2>3. QED
    BY <1>1, <1>7, <2>1, <2>2, ClockStarts
<1>8. QED
  BY <1>6, <1>7, ClockStarts

LEMMA InvStep == IInv /\ [Next]_vars => IInv'
BY TypeStep, LockStep, ProcStep, PortStep, WaitStep, CostStep DEF IInv

LEMMA Invariance == Spec => []IInv
BY InvInitially, InvStep, PTL DEF Spec

\* Every variable keeps its type; the countdown of a wait never goes below 0.
THEOREM TypeCorrect == Spec => []TypeOK
<1>1. IInv => TypeOK
  BY DEF IInv
<1>2. QED
  BY <1>1, Invariance, PTL

\* A living process of the worker is always the one it remembers.
THEOREM NoneForgotten == Spec => []NoServerForgotten
<1>1. IInv => NoServerForgotten
  BY DEF IInv, ProcInv
<1>2. QED
  BY <1>1, Invariance, PTL

\* What a call waits for, its own sleeps and those of whoever had the lock before
\* it, is at most one timeout per job and the grace of stop().
THEOREM CostBounded == Spec => []TokenCostBounded
<1>1. ASSUME IInv, NEW c \in Calls PROVE waited[c] <= Cardinality(Jobs) * Ready + Grace
  <2>1. waited[c] \in Nat /\ left \in Nat /\ Grace \in Nat /\ Farewell \in Nat /\ Farewell <= Grace
    BY <1>1, TimesAssumption DEF IInv, TypeOK, Farewell
  <2>2. Charged \subseteq Jobs
    BY DEF Charged
  <2>3. /\ Cardinality(Charged) * Ready \in Nat /\ Cardinality(Jobs) * Ready \in Nat
        /\ Cardinality(Charged) * Ready <= Cardinality(Jobs) * Ready
    BY <2>2, CallsAssumption, MoreClocks
  <2>4. waited[c] + left <= Cardinality(Charged) * Ready + Farewell
    BY <1>1 DEF IInv, CostInv
  <2>5. QED
    BY <2>1, <2>3, <2>4
<1>2. IInv => TokenCostBounded
  BY <1>1 DEF TokenCostBounded
<1>3. QED
  BY <1>2, Invariance, PTL

\* ensure() gives up for a reason: silence on the port, and for a job a full wait,
\* a refused start or a death in its own time.
THEOREM GivesUpForAReason == Spec => NoForAReason
<1> DEFINE reason(c) == /\ ~ up
                        /\ c \in Jobs => pc[c] = "spawn" \/ lost \/ waited[c] >= Ready
<1>1. ASSUME IInv, Next, NEW c \in Ensures, Denied(c) PROVE reason(c)
  <2>0. c \in Calls /\ c # Stopper /\ answer[c] = "none" /\ answer'[c] = "no" /\ setup # "off"
    BY <1>1, CallsAssumption DEF Denied, Calls, Ensures
  <2>1. SpawnFails(c) \/ Glance(c) \/ Poll(c) \/ Check(c)
    BY <1>1, <2>0
       DEF local, world, vars, Next, World, Step, Goto, Leave, StartWaiting, IInv, TypeOK, Ask, Acquire, Reap, Look, Spawn,
     SpawnFails, Glance, Poll, Check, Sleep, Terminate, StopEnds, Listens, Exits,
     OtherComes, OtherGoes
  <2>2. CASE SpawnFails(c)
    BY <1>1, <2>0, <2>2 DEF SpawnFails, IInv, WaitInv
  <2>3. CASE Glance(c)
    <3>1. pc[c] = "glance" /\ ~ Listening
      BY <1>1, <2>0, <2>3 DEF Glance, Leave, IInv, TypeOK
    <3>2. c \notin Jobs
      BY <1>1, <2>0, <3>1, CallsAssumption DEF IInv, RoleInv
    <3>3. QED
      BY <1>1, <3>1, <3>2 DEF IInv, PortInv
  <2>4. CASE Poll(c)
    <3>1. pc[c] = "poll" /\ ~ (left > 0)
      BY <1>1, <2>0, <2>4 DEF Poll, Patience, Goto, Leave, IInv, TypeOK
    <3>2. ~ up /\ waited[c] + left >= Ready /\ left \in Nat /\ waited[c] \in Nat
      BY <1>1, <2>0, <3>1 DEF IInv, WaitInv, TypeOK
    <3>3. QED
      BY <3>1, <3>2, TimesAssumption
  <2>5. CASE Check(c)
    <3>1. pc[c] = "check" /\ Exited
      BY <1>1, <2>0, <2>5 DEF Check, Goto, IInv, TypeOK
    <3>2. QED
      BY <1>1, <2>0, <3>1 DEF IInv, WaitInv
  <2>6. QED
    BY <2>1, <2>2, <2>3, <2>4, <2>5
<1>2. IInv /\ [Next]_vars =>
         [\A c \in Ensures : Denied(c) => reason(c)]_vars
  BY <1>1
<1>3. QED
  BY <1>2, Invariance, PTL DEF Spec, NoForAReason

(***************************************************************************)
(* The steps of a call are numbered.                                       *)
(***************************************************************************)
\* The steps from here to the end of a call with the lock, with l sleeps left.
Place(step, l) ==
    CASE step = "returned" -> 0
      [] step = "glance" -> 1
      [] step = "sleep" -> 3 * l - 1
      [] step = "check" -> 3 * l
      [] step = "poll" -> 3 * l + 1
      [] step = "terminated" -> l + 1
      [] step = "terminate" -> Grace + 2
      [] step = "spawn" -> 3 * Ready + 2
      [] step = "look" -> 3 * Ready + 3
      [] step = "reap" -> 3 * Ready + 4
      [] step = "lock" -> 3 * Ready + Grace + 5
      [] OTHER -> 3 * Ready + Grace + 6

StepsLeft(c) == Place(pc[c], left)

\* No clock is set to more than its timeout.
LeftInv ==
    \A c \in Calls :
        /\ pc[c] \in {"poll", "check", "sleep"} => left <= Ready
        /\ pc[c] = "terminated" => left <= Grace

LEMMA PlaceType ==
    ASSUME NEW step \in Steps, NEW l \in Nat,
           step \in {"poll", "check", "sleep"} => l <= Ready,
           step \in {"check", "sleep"} => l > 0,
           step = "terminated" => l <= Grace
    PROVE  Place(step, l) \in 0..(3 * Ready + Grace + 6)
<1>1. Ready \in Nat /\ Grace \in Nat
  BY TimesAssumption
<1>2. CASE step \in {"poll", "check", "sleep"}
  <2>1. \/ Place(step, l) = 3 * l + 1
        \/ Place(step, l) = 3 * l
        \/ l > 0 /\ Place(step, l) = 3 * l - 1
    BY <1>2 DEF Place
  <2>2. QED
    BY <1>1, <1>2, <2>1
<1>3. CASE step \in {"terminate", "terminated", "glance", "returned"}
  <2>1. \/ Place(step, l) = 0
        \/ Place(step, l) = 1
        \/ l <= Grace /\ Place(step, l) = l + 1
        \/ Place(step, l) = Grace + 2
    BY <1>3 DEF Place
  <2>2. QED
    BY <1>1, <2>1
<1>4. CASE step \in {"spawn", "look", "reap"}
  <2>1. \/ Place(step, l) = 3 * Ready + 2
        \/ Place(step, l) = 3 * Ready + 3
        \/ Place(step, l) = 3 * Ready + 4
    BY <1>4 DEF Place
  <2>2. QED
    BY <1>1, <2>1
<1>5. CASE step \in {"lock", "idle"}
  <2>1. \/ Place(step, l) = 3 * Ready + Grace + 5
        \/ Place(step, l) = 3 * Ready + Grace + 6
    BY <1>5 DEF Place
  <2>2. QED
    BY <1>1, <2>1
<1>6. QED
  BY <1>2, <1>3, <1>4, <1>5 DEF Steps

LEMMA StepsLeftType ==
    ASSUME IInv, LeftInv, NEW c \in Calls
    PROVE  StepsLeft(c) \in 0..(3 * Ready + Grace + 6)
<1>1. /\ pc[c] \in Steps /\ left \in Nat
      /\ pc[c] \in {"poll", "check", "sleep"} => left <= Ready
      /\ pc[c] \in {"check", "sleep"} => left > 0
      /\ pc[c] = "terminated" => left <= Grace
  BY DEF IInv, TypeOK, WaitInv, LeftInv
<1>2. QED
  BY <1>1, PlaceType DEF StepsLeft

\* What one call's step does to the clock of another call.
LEMMA OthersUntouched ==
    ASSUME IInv, NEW c \in Calls, Ask(c) \/ Step(c), NEW d \in Calls \ {c}
    PROVE  /\ pc'[d] = pc[d]
           /\ pc[d] \in Holding => left' = left
<1>1. pc'[d] = pc[d]
  BY DEF IInv, TypeOK, Ask, Step, Acquire, Reap, Look, Spawn, SpawnFails, Glance, Poll, Check,
     Sleep, Terminate, StopEnds, StartWaiting, Goto, Leave
<1>2. ASSUME pc[c] \in Holding, pc[d] \in Holding PROVE FALSE
  BY <1>2 DEF IInv, LockInv
<1>3. pc[c] \in Holding \/ left' = left
  BY DEF Holding, Ask, Step, Acquire, Reap, Look, Spawn, SpawnFails, Glance, Poll, Check,
     Sleep, Terminate, StopEnds
<1>4. QED
  BY <1>1, <1>2, <1>3

LEMMA StepCounts ==
    ASSUME IInv, NEW c \in Calls, Ask(c) \/ Step(c)
    PROVE  StepsLeft(c)' < StepsLeft(c)
<1> DEFINE goal == StepsLeft(c)' < StepsLeft(c)
<1>1. /\ Ready \in Nat /\ Grace \in Nat /\ left \in Nat
      /\ pc \in [Calls -> Steps]
      /\ pc[c] \in {"check", "sleep"} => left > 0
  BY TimesAssumption DEF IInv, TypeOK, WaitInv
<1>2. ASSUME NEW said, Leave(c, said), pc[c] \in Steps \ {"returned"} PROVE goal
  <2>1. StepsLeft(c)' = 0
    BY <1>1, <1>2 DEF Leave, StepsLeft, Place
  <2>2. StepsLeft(c) > 0
    BY <1>1, <1>2 DEF StepsLeft, Place, Steps
  <2>3. QED
    BY <2>1, <2>2
<1>3. ASSUME StartWaiting(c), pc[c] \in {"look", "spawn"} PROVE goal
  <2>1. StepsLeft(c)' = 1 \/ StepsLeft(c)' = 3 * Ready + 1
    BY <1>1, <1>3 DEF StartWaiting, Goto, StepsLeft, Place
  <2>2. StepsLeft(c) = 3 * Ready + 2 \/ StepsLeft(c) = 3 * Ready + 3
    BY <1>3 DEF StepsLeft, Place
  <2>3. QED
    BY <1>1, <2>1, <2>2
<1>4. CASE Ask(c)
  <2>1. pc[c] = "idle" /\ pc'[c] \in {"returned", "lock"}
    BY <1>4, <1>1 DEF Ask, Goto
  <2>2. StepsLeft(c) = 3 * Ready + Grace + 6
    BY <2>1 DEF StepsLeft, Place
  <2>3. StepsLeft(c)' = 0 \/ StepsLeft(c)' = 3 * Ready + Grace + 5
    BY <2>1 DEF StepsLeft, Place
  <2>4. QED
    BY <1>1, <2>2, <2>3
<1>5. CASE Acquire(c)
  <2>1. pc[c] = "lock" /\ pc'[c] \in {"terminate", "reap"}
    BY <1>5, <1>1 DEF Acquire, Goto
  <2>2. StepsLeft(c) = 3 * Ready + Grace + 5
    BY <2>1 DEF StepsLeft, Place
  <2>3. StepsLeft(c)' = Grace + 2 \/ StepsLeft(c)' = 3 * Ready + 4
    BY <2>1 DEF StepsLeft, Place
  <2>4. QED
    BY <1>1, <2>2, <2>3
<1>6. CASE Reap(c)
  <2>1. pc[c] = "reap" /\ pc'[c] = "look"
    BY <1>6, <1>1 DEF Reap, Goto
  <2>2. StepsLeft(c) = 3 * Ready + 4 /\ StepsLeft(c)' = 3 * Ready + 3
    BY <2>1 DEF StepsLeft, Place
  <2>3. QED
    BY <1>1, <2>2
<1>7. CASE Look(c)
  <2>1. CASE Goto(c, "spawn")
    <3>1. pc[c] = "look" /\ pc'[c] = "spawn"
      BY <1>7, <2>1, <1>1 DEF Look, Goto
    <3>2. StepsLeft(c) = 3 * Ready + 3 /\ StepsLeft(c)' = 3 * Ready + 2
      BY <3>1 DEF StepsLeft, Place
    <3>3. QED
      BY <1>1, <3>2
  <2>2. CASE StartWaiting(c)
    BY <1>7, <2>2, <1>3 DEF Look
  <2>3. QED
    BY <1>7, <2>1, <2>2 DEF Look
<1>8. CASE Spawn(c)
  BY <1>8, <1>3 DEF Spawn
<1>9. CASE SpawnFails(c)
  BY <1>9, <1>2 DEF SpawnFails, Steps
<1>10. CASE Glance(c)
  BY <1>10, <1>2 DEF Glance, Steps
<1>11. CASE Poll(c)
  <2>1. pc[c] = "poll"
    BY <1>11 DEF Poll
  <2>2. CASE Goto(c, "check") /\ UNCHANGED left
    <3>1. pc'[c] = "check"
      BY <2>2, <1>1 DEF Goto
    <3>2. StepsLeft(c) = 3 * left + 1 /\ StepsLeft(c)' = 3 * left
      BY <2>1, <2>2, <3>1 DEF StepsLeft, Place
    <3>3. QED
      BY <1>1, <3>2
  <2>3. CASE \E said \in {"yes", "no"} : Leave(c, said)
    BY <2>1, <2>3, <1>2 DEF Steps
  <2>4. QED
    BY <1>11, <2>2, <2>3 DEF Poll
<1>12. CASE Check(c)
  <2>1. pc[c] = "check"
    BY <1>12 DEF Check
  <2>2. CASE Goto(c, "sleep") /\ UNCHANGED left
    <3>1. pc'[c] = "sleep"
      BY <2>2, <1>1 DEF Goto
    <3>2. StepsLeft(c) = 3 * left /\ StepsLeft(c)' = 3 * left - 1
      BY <2>1, <2>2, <3>1 DEF StepsLeft, Place
    <3>3. QED
      BY <1>1, <3>2
  <2>3. CASE Leave(c, "no")
    BY <2>1, <2>3, <1>2 DEF Steps
  <2>4. QED
    BY <1>12, <2>2, <2>3 DEF Check
<1>13. CASE Sleep(c)
  <2>1. left' = left - 1 /\ left > 0
    BY <1>13, <1>1 DEF Sleep
  <2>2. CASE pc[c] = "sleep" /\ pc'[c] = "poll"
    <3>1. StepsLeft(c) = 3 * left - 1 /\ StepsLeft(c)' = 3 * (left - 1) + 1
      BY <2>1, <2>2 DEF StepsLeft, Place
    <3>2. QED
      BY <1>1, <3>1
  <2>3. CASE pc[c] = "terminated" /\ pc'[c] = "terminated"
    <3>1. StepsLeft(c) = left + 1 /\ StepsLeft(c)' = (left - 1) + 1
      BY <2>1, <2>3 DEF StepsLeft, Place
    <3>2. QED
      BY <1>1, <3>1
  <2>4. QED
    BY <1>13, <1>1, <2>2, <2>3 DEF Sleep
<1>14. CASE Terminate(c)
  <2>1. pc[c] = "terminate"
    BY <1>14 DEF Terminate
  <2>2. CASE Goto(c, "terminated") /\ left' = Grace
    <3>1. pc'[c] = "terminated"
      BY <2>2, <1>1 DEF Goto
    <3>2. StepsLeft(c) = Grace + 2 /\ StepsLeft(c)' = Grace + 1
      BY <2>1, <2>2, <3>1 DEF StepsLeft, Place
    <3>3. QED
      BY <1>1, <3>2
  <2>3. CASE Leave(c, "none")
    BY <2>1, <2>3, <1>2 DEF Steps
  <2>4. QED
    BY <1>14, <2>2, <2>3 DEF Terminate
<1>15. CASE StopEnds(c)
  BY <1>15, <1>2 DEF StopEnds, Steps
<1>16. QED
  BY <1>4, <1>5, <1>6, <1>7, <1>8, <1>9, <1>10, <1>11, <1>12, <1>13, <1>14, <1>15 DEF Step

LEMMA LeftStep == IInv /\ LeftInv /\ [Next]_vars => LeftInv'
<1> SUFFICES ASSUME IInv, LeftInv, [Next]_vars, NEW d \in Calls
             PROVE  /\ pc'[d] \in {"poll", "check", "sleep"} => left' <= Ready
                    /\ pc'[d] = "terminated" => left' <= Grace
  BY DEF LeftInv
<1>1. Ready \in Nat /\ Grace \in Nat /\ left \in Nat /\ pc \in [Calls -> Steps]
  BY TimesAssumption DEF IInv, TypeOK
<1>2. /\ pc[d] \in {"poll", "check", "sleep"} => left <= Ready
      /\ pc[d] = "terminated" => left <= Grace
  BY DEF LeftInv
<1>3. CASE UNCHANGED <<pc, left>>
  BY <1>2, <1>3
<1>4. ASSUME NEW c \in Calls \ {d}, Ask(c) \/ Step(c)
      PROVE  /\ pc'[d] \in {"poll", "check", "sleep"} => left' <= Ready
             /\ pc'[d] = "terminated" => left' <= Grace
  BY <1>2, <1>4, OthersUntouched DEF Holding
<1>5. CASE Ask(d)
  BY <1>1, <1>5 DEF Ask, Goto
<1>6. CASE Step(d)
  BY <1>1, <1>2, <1>6 DEF Step, Acquire, Reap, Look, Spawn, SpawnFails, Glance, Poll, Check,
     Sleep, Terminate, StopEnds, StartWaiting, Goto, Leave
<1>7. QED
  BY <1>3, <1>4, <1>5, <1>6 DEF Next, World, Listens, Exits, OtherComes, OtherGoes, Kill, local, vars

\* A call of ensure() or stop() that has the lock does not keep it: each step of
\* a call counts down from a bound that the two timeouts set, whatever the server
\* does, and nothing but a step of its own changes the count (the poll loop of
\* ensure(), the wait and the kill of stop()).
THEOREM StepsRunOut ==
    Spec => /\ [](\A c \in Calls : StepsLeft(c) \in 0..(3 * Ready + Grace + 6))
            /\ [][\A c \in Calls :
                     /\ Ask(c) \/ Step(c) => StepsLeft(c)' < StepsLeft(c)
                     /\ StepsLeft(c)' # StepsLeft(c) => Ask(c) \/ Step(c)]_vars
<1> DEFINE Inside == \A c \in Calls : StepsLeft(c) \in 0..(3 * Ready + Grace + 6)
           Down == \A c \in Calls :
                     /\ Ask(c) \/ Step(c) => StepsLeft(c)' < StepsLeft(c)
                     /\ StepsLeft(c)' # StepsLeft(c) => Ask(c) \/ Step(c)
<1>1. Init => LeftInv
  BY DEF Init, LeftInv
<1>2. IInv /\ LeftInv => Inside
  BY StepsLeftType
<1>3. IInv /\ [Next]_vars => [Down]_vars
  <2> SUFFICES ASSUME IInv, [Next]_vars, ~ UNCHANGED vars, NEW c \in Calls
               PROVE  /\ Ask(c) \/ Step(c) => StepsLeft(c)' < StepsLeft(c)
                      /\ StepsLeft(c)' # StepsLeft(c) => Ask(c) \/ Step(c)
    OBVIOUS
  <2>1. ASSUME NEW d \in Calls \ {c}, Ask(d) \/ Step(d) PROVE StepsLeft(c)' = StepsLeft(c)
    <3>1. pc'[c] = pc[c] /\ (pc[c] \in Holding => left' = left)
      BY <2>1, OthersUntouched
    <3>2. QED
      BY <3>1 DEF StepsLeft, Place, Holding
  <2>2. CASE World
    <3>1. UNCHANGED <<pc, left>>
      BY <2>2 DEF World, Listens, Exits, OtherComes, OtherGoes, local
    <3>2. QED
      BY <2>2, <3>1, StepCounts DEF StepsLeft
  <2>3. QED
    BY <2>1, <2>2, StepCounts DEF Next
<1>4. QED
  BY <1>1, <1>2, <1>3, LeftStep, InvInitially, InvStep, Invariance, PTL DEF Spec

\* The lock is not lost: whenever a call waits for it, it is free, or the call that
\* has it is inside ensure() or stop() with fewer steps left than the timeouts
\* allow (the with blocks of ensure() and stop(), left by an exception too).
THEOREM LockComesFree ==
    Spec => [](\A c \in Calls : pc[c] = "lock" /\ holder # NoOne =>
                  /\ pc[holder] \in Holding
                  /\ StepsLeft(holder) < StepsLeft(c))
<1> DEFINE Held == holder # NoOne => pc[holder] \in Holding
           Free == \A c \in Calls : pc[c] = "lock" /\ holder # NoOne =>
                      /\ pc[holder] \in Holding
                      /\ StepsLeft(holder) < StepsLeft(c)
<1>1. Init => Held
  BY DEF Init
<1>2. IInv /\ Held /\ [Next]_vars => Held'
  <2> SUFFICES ASSUME IInv, Held, [Next]_vars, holder' # NoOne PROVE pc'[holder'] \in Holding
    OBVIOUS
  <2>1. pc \in [Calls -> Steps] /\ holder \in Calls \cup {NoOne} /\ NoOne \notin Calls
    BY CallsAssumption DEF IInv, TypeOK
  <2>2. CASE UNCHANGED <<pc, holder>>
    BY <2>2
  <2>3. ASSUME NEW c \in Calls, Ask(c) PROVE pc'[holder'] \in Holding
    BY <2>1, <2>3 DEF Ask, Goto, Holding
  <2>4. ASSUME NEW c \in Calls, Step(c) PROVE pc'[holder'] \in Holding
    <3>1. CASE Acquire(c)
      BY <2>1, <3>1 DEF Acquire, Goto, Holding
    <3>2. CASE ~ Acquire(c)
      <4>1. pc[c] \in Holding /\ holder = c
        BY <2>4, <3>2 DEF IInv, LockInv, Holding, Step, Reap, Look, Spawn, SpawnFails, Glance,
           Poll, Check, Sleep, Terminate, StopEnds
      <4>2. holder' = c \/ holder' = NoOne
        BY <2>4, <3>2, <4>1 DEF Step, Reap, Look, Spawn, SpawnFails, Glance, Poll, Check, Sleep,
           Terminate, StopEnds, Leave
      <4>3. holder' = c => pc'[c] \in Holding
        BY <2>1, <2>4, <3>2, <4>1 DEF Step, Reap, Look, Spawn, SpawnFails, Glance, Poll, Check,
           Sleep, Terminate, StopEnds, Leave, StartWaiting, Goto, Holding
      <4>4. QED
        BY <4>2, <4>3
    <3>3. QED
      BY <3>1, <3>2
  <2>5. QED
    BY <2>2, <2>3, <2>4 DEF Next, World, Listens, Exits, OtherComes, OtherGoes, Kill, local, vars
<1>3. IInv /\ LeftInv /\ Held => Free
  <2> SUFFICES ASSUME IInv, LeftInv, NEW c \in Calls, pc[c] = "lock", holder # NoOne,
                      pc[holder] \in Holding
               PROVE  StepsLeft(holder) < StepsLeft(c)
    OBVIOUS
  <2>1. /\ Ready \in Nat /\ Grace \in Nat /\ left \in Nat /\ holder \in Calls
        /\ pc[holder] \in {"poll", "check", "sleep"} => left <= Ready
        /\ pc[holder] = "terminated" => left <= Grace
    BY TimesAssumption DEF IInv, TypeOK, LeftInv
  <2>2. StepsLeft(c) = 3 * Ready + Grace + 5
    BY DEF StepsLeft, Place
  <2>3. CASE pc[holder] \in {"poll", "check", "sleep"}
    <3>1. \/ StepsLeft(holder) = 3 * left + 1
          \/ StepsLeft(holder) = 3 * left
          \/ StepsLeft(holder) = 3 * left - 1
      BY <2>3 DEF StepsLeft, Place
    <3>2. QED
      BY <2>1, <2>2, <2>3, <3>1
  <2>4. CASE pc[holder] \in {"glance", "terminated", "terminate"}
    <3>1. \/ StepsLeft(holder) = 1
          \/ left <= Grace /\ StepsLeft(holder) = left + 1
          \/ StepsLeft(holder) = Grace + 2
      BY <2>1, <2>4 DEF StepsLeft, Place
    <3>2. QED
      BY <2>1, <2>2, <3>1
  <2>5. CASE pc[holder] \in {"spawn", "look", "reap"}
    <3>1. \/ StepsLeft(holder) = 3 * Ready + 2
          \/ StepsLeft(holder) = 3 * Ready + 3
          \/ StepsLeft(holder) = 3 * Ready + 4
      BY <2>5 DEF StepsLeft, Place
    <3>2. QED
      BY <2>1, <2>2, <3>1
  <2>6. QED
    BY <2>3, <2>4, <2>5 DEF Holding
<1>4. Init => LeftInv
  BY DEF Init, LeftInv
<1>5. QED
  BY <1>1, <1>2, <1>3, <1>4, LeftStep, InvInitially, InvStep, Invariance, PTL DEF Spec
==============================================================================
