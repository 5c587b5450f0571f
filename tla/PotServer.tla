------------------------------ MODULE PotServer ------------------------------
(***************************************************************************)
(* The token server behind yt-dlp (postiz_uploader/pot.py): a process the  *)
(* worker starts at boot, and again before an ingest when it has died.     *)
(* ensure() and stop() share one lock and the variable _proc; the process  *)
(* lives and dies on its own, and its port may be held by another server   *)
(* of the host.                                                            *)
(*                                                                         *)
(* A process is named by the call of ensure() that started it: no call     *)
(* starts two.  Time passes while the holder of the lock sleeps; what it   *)
(* does between two sleeps takes none.                                     *)
(***************************************************************************)
EXTENDS Naturals, FiniteSets

CONSTANTS
    Jobs,      \* the ingest jobs that reach ensure(settings)
    Boot,      \* the call ensure(settings, wait=False) at start
    Stopper,   \* the call stop()
    Ready,     \* READY_TIMEOUT, in sleeps
    Grace,     \* how long stop() waits for the process, in sleeps
    NoOne,     \* None
    Other      \* a server on the port that this worker has not started

Ensures == Jobs \cup {Boot}
Calls == Ensures \cup {Stopper}

ASSUME CallsAssumption ==
    /\ IsFiniteSet(Jobs)
    /\ Boot # Stopper
    /\ {Boot, Stopper} \cap Jobs = {}
    /\ NoOne \notin Calls
    /\ Other \notin Calls \cup {NoOne}

ASSUME TimesAssumption == Ready \in Nat \ {0} /\ Grace \in Nat

VARIABLES
    pc,        \* the next step of each call
    setup,     \* "off" (no POT_SERVER_DIR), "missing" (nothing there) or "installed"
    holder,    \* the call that has _lock
    proc,      \* _proc, named by the call that started it
    left,      \* sleeps until the holder gives up
    answer,    \* what each call returned: "none", "yes" or "no"
    waited,    \* the sleeps each call has waited for, its own and those of others
    server,    \* the process each call started: "none", "alive" or "dead"
    port,      \* who listens on PORT
    up,        \* whether the port has answered ever since the holder got the lock
    lost       \* whether a process of the worker has died since then

local == <<pc, answer, waited>>
world == <<server, port, up, lost>>
vars  == <<local, setup, holder, proc, left, world>>
----------------------------------------------------------------------------
Listening == port # NoOne

\* _proc.poll() is not None
Exited == proc # NoOne /\ server[proc] = "dead"

Asking == {c \in Calls : pc[c] \notin {"idle", "returned"}}

Init ==
    /\ pc = [c \in Calls |-> "idle"]
    /\ setup \in {"off", "missing", "installed"}
    /\ holder = NoOne
    /\ proc = NoOne
    /\ left = 0
    /\ answer = [c \in Calls |-> "none"]
    /\ waited = [c \in Calls |-> 0]
    /\ server = [c \in Calls |-> "none"]
    /\ port \in {NoOne, Other}
    /\ up = FALSE
    /\ lost = FALSE

Goto(c, step) == pc' = [pc EXCEPT ![c] = step] /\ UNCHANGED <<answer, waited>>

\* The with block is left, by a return or by an exception.
Leave(c, said) ==
    /\ pc' = [pc EXCEPT ![c] = "returned"]
    /\ answer' = [answer EXCEPT ![c] = said]
    /\ holder' = NoOne
    /\ left' = 0
    /\ UNCHANGED <<setup, waited>>

(***************************************************************************)
(* ensure(): the jobs are taken after the call at boot has returned.       *)
(***************************************************************************)
Ask(c) ==
    /\ pc[c] = "idle"
    /\ c # Boot => pc[Boot] = "returned"
    /\ IF setup = "off" /\ c # Stopper
       THEN /\ pc' = [pc EXCEPT ![c] = "returned"]
            /\ answer' = [answer EXCEPT ![c] = "no"]
            /\ UNCHANGED waited
       ELSE Goto(c, "lock")
    /\ UNCHANGED <<setup, holder, proc, left, world>>

Acquire(c) ==
    /\ pc[c] = "lock"
    /\ holder = NoOne
    /\ holder' = c
    /\ up' = Listening
    /\ lost' = FALSE
    /\ Goto(c, IF c = Stopper THEN "terminate" ELSE "reap")
    /\ UNCHANGED <<setup, proc, left, server, port>>

\* Mutant: a process that has exited is still taken for the server.
ReapNothing(c) ==
    /\ pc[c] = "reap"
    /\ Goto(c, "look")
    /\ UNCHANGED <<setup, holder, proc, left, world>>

Reap(c) ==
    /\ pc[c] = "reap"
    /\ proc' = IF Exited THEN NoOne ELSE proc
    /\ Goto(c, "look")
    /\ UNCHANGED <<setup, holder, left, world>>

\* Mutant: a server that does not listen yet is started again.
MissingWhenSilent == ~ Listening

Missing == proc = NoOne /\ ~ Listening

\* The clock of the poll loop starts when the server is known to be there.
StartWaiting(c) ==
    IF c = Boot THEN Goto(c, "glance") /\ UNCHANGED left
                ELSE Goto(c, "poll") /\ left' = Ready

Look(c) ==
    /\ pc[c] = "look"
    /\ IF Missing THEN Goto(c, "spawn") /\ UNCHANGED left ELSE StartWaiting(c)
    /\ UNCHANGED <<setup, holder, proc, world>>

Spawn(c) ==
    /\ pc[c] = "spawn"
    /\ setup = "installed"
    /\ proc' = c
    /\ server' = [server EXCEPT ![c] = "alive"]
    /\ StartWaiting(c)
    /\ UNCHANGED <<setup, holder, port, up, lost>>

\* Nothing is installed, and _spawn() says None; or the log or the process cannot
\* be created, and it raises.
SpawnFails(c) ==
    /\ pc[c] = "spawn"
    /\ Leave(c, "no")
    /\ UNCHANGED <<proc, world>>

Glance(c) ==
    /\ pc[c] = "glance"
    /\ Leave(c, IF Listening THEN "yes" ELSE "no")
    /\ UNCHANGED <<proc, world>>

\* Mutant: the loop waits for as long as the process is alive.
PatienceForEver == TRUE

Patience == left > 0

Poll(c) ==
    /\ pc[c] = "poll"
    /\ IF ~ Patience THEN Leave(c, "no")
       ELSE IF Listening THEN Leave(c, "yes")
       ELSE Goto(c, "check") /\ UNCHANGED <<setup, holder, left>>
    /\ UNCHANGED <<proc, world>>

Check(c) ==
    /\ pc[c] = "check"
    /\ IF Exited THEN Leave(c, "no")
       ELSE Goto(c, "sleep") /\ UNCHANGED <<setup, holder, left>>
    /\ UNCHANGED <<proc, world>>

\* time.sleep(), or a moment of Popen.wait(): everyone who waits, waits on.
Sleep(c) ==
    /\ \/ pc[c] = "sleep" /\ pc' = [pc EXCEPT ![c] = "poll"]
       \/ pc[c] = "terminated" /\ left > 0 /\ ~ Exited /\ UNCHANGED pc
    /\ left' = left - 1
    /\ waited' = [d \in Calls |-> IF d \in Asking THEN waited[d] + 1 ELSE waited[d]]
    /\ UNCHANGED <<answer, setup, holder, proc, world>>

(***************************************************************************)
(* stop()                                                                  *)
(***************************************************************************)
Terminate(c) ==
    /\ pc[c] = "terminate"
    /\ IF proc # NoOne /\ ~ Exited
       THEN Goto(c, "terminated") /\ left' = Grace /\ UNCHANGED <<setup, holder, proc>>
       ELSE Leave(c, "none") /\ proc' = NoOne
    /\ UNCHANGED world

\* The process is gone, and so is its socket.
Kill(p) ==
    /\ server' = [server EXCEPT ![p] = "dead"]
    /\ port' = IF port = p THEN NoOne ELSE port
    /\ up' = (up /\ port # p)
    /\ lost' = TRUE

\* Mutant: a process that ignores SIGTERM is waited for.
StopEndsPolitely(c) ==
    /\ pc[c] = "terminated"
    /\ Exited
    /\ proc' = NoOne
    /\ Leave(c, "none")
    /\ UNCHANGED world

StopEnds(c) ==
    /\ pc[c] = "terminated"
    /\ \/ Exited /\ UNCHANGED world
       \/ ~ Exited /\ left = 0 /\ Kill(proc)
    /\ proc' = NoOne
    /\ Leave(c, "none")

(***************************************************************************)
(* The processes.                                                          *)
(***************************************************************************)
Listens(c) ==
    /\ server[c] = "alive"
    /\ port = NoOne
    /\ port' = c
    /\ UNCHANGED <<local, setup, holder, proc, left, server, up, lost>>

\* It is killed, fails, finds its port taken or obeys SIGTERM.
Exits(c) ==
    /\ server[c] = "alive"
    /\ Kill(c)
    /\ UNCHANGED <<local, setup, holder, proc, left>>

OtherComes ==
    /\ port = NoOne
    /\ port' = Other
    /\ UNCHANGED <<local, setup, holder, proc, left, server, up, lost>>

OtherGoes ==
    /\ port = Other
    /\ port' = NoOne
    /\ up' = FALSE
    /\ UNCHANGED <<local, setup, holder, proc, left, server, lost>>

Step(c) ==
    \/ Acquire(c) \/ Reap(c) \/ Look(c) \/ Spawn(c) \/ SpawnFails(c) \/ Glance(c)
    \/ Poll(c) \/ Check(c) \/ Sleep(c)
    \/ Terminate(c) \/ StopEnds(c)

World == OtherComes \/ OtherGoes \/ \E c \in Calls : Listens(c) \/ Exits(c)

Next == World \/ \E c \in Calls : Ask(c) \/ Step(c)

\* A thread that can run does; the lock is not fair, but each call takes it
\* once.  A process need never listen, nor exit.
Spec == Init /\ [][Next]_vars /\ \A c \in Calls : WF_vars(Step(c))
----------------------------------------------------------------------------
Steps == {"idle", "lock", "reap", "look", "spawn", "glance", "poll", "check", "sleep",
          "terminate", "terminated", "returned"}

TypeOK ==
    /\ pc \in [Calls -> Steps]
    /\ setup \in {"off", "missing", "installed"}
    /\ holder \in Calls \cup {NoOne}
    /\ proc \in Ensures \cup {NoOne}
    /\ left \in Nat
    /\ answer \in [Calls -> {"none", "yes", "no"}]
    /\ waited \in [Calls -> Nat]
    /\ server \in [Calls -> {"none", "alive", "dead"}]
    /\ port \in Ensures \cup {NoOne, Other}
    /\ up \in BOOLEAN
    /\ lost \in BOOLEAN

\* A living process the worker has started is always _proc: so there is one at
\* most, the next call finds it, and stop() can end it.  A slow start of one
\* call, a restart and a stop must not overlap.
NoServerForgotten == \A c \in Calls : server[c] = "alive" => proc = c

\* What one job pays for the token server: its own timeout and that of every
\* other job before it, since each of them waits with the lock in its hand.
TokenCostBounded ==
    \A c \in Calls : waited[c] <= Cardinality(Jobs) * Ready + Grace

Denied(c) == answer[c] = "none" /\ answer'[c] = "no" /\ setup # "off"

\* ensure() says no only if the port has been silent at some moment since it got
\* the lock, whoever listens there; and a job goes on without tokens only after
\* the full wait, unless the start itself was refused or the process died in its
\* own time: a server that died before is replaced first (docstring of ensure).
NoForAReason ==
    [][\A c \in Ensures : Denied(c) =>
          /\ ~ up
          /\ c \in Jobs => pc[c] = "spawn" \/ lost \/ waited[c] >= Ready]_vars

\* Every caller gets its answer, though the server may hang for ever.
EveryCallReturns == \A c \in Calls : pc[c] = "lock" ~> pc[c] = "returned"
=============================================================================
