---------------------------- MODULE RecoveryNode ----------------------------
(***************************************************************************)
(* One recovery node: it receives the heartbeats of the containers it is    *)
(* responsible for and restarts, through docker, those it has not heard of  *)
(* for longer than the timeout.  Two threads share its two dictionaries     *)
(* under state_lock: the consumer of heartbeats and the timer, which looks  *)
(* at the dictionaries every interval and is the one that restarts.         *)
(*                                                                         *)
(* Sources: recovery_node/main.py, healthcheck/utils.py and                 *)
(* recovery_controller.py (the sender in each container).                   *)
(*                                                                         *)
(* Time is in ticks.  A point in time the code keeps is modelled by its     *)
(* distance to now: age[c] is now - last_heartbeat_received[c] and          *)
(* resetting[c] what is left until workers_currently_reseting[c].  Docker,  *)
(* the containers and the broker's delay are external; heartbeats are taken *)
(* from the queue within MaxDelay, which is below the TTL of the queue, so  *)
(* none expires.                                                            *)
(***************************************************************************)
EXTENDS Integers, FiniteSets

CONSTANTS Containers,       \* ALL_MONITORED_CONTAINERS
          RecoveryId,       \* the id of each recovery node's container
          HashNode,         \* stable_hash(c) % RECOVERY_AMOUNT of the others
          RecoveryAmount,
          Self,             \* the id of this node
          Interval,         \* HEARTBEAT_INTERVAL
          Misses,           \* MAX_HEARTBEAT_MISSES
          MaxDelay,         \* a heartbeat waits at most so long
          MaxOversleep,     \* a sleep lasts at most so much longer
          DockerTimeout,    \* DOCKER_RESTART_TIMEOUT_SECS
          MaxCrashes,       \* bound: containers that go down
          MaxFailures       \* bound: docker restarts that fail

ASSUME TimeAssumption == /\ Interval \in Nat \ {0}
                         /\ Misses \in Nat /\ Misses >= 2
                         /\ MaxDelay \in Nat
                         /\ Interval + MaxDelay <= Misses * Interval

Timeout == Misses * Interval        \* HEARTBEAT_TIMEOUT_SECS
Grace == Timeout                    \* RECOVERY_GRACE_SECS

VARIABLES age,        \* [Watched -> ticks since last_heartbeat_received]
          resetting,  \* [Watched -> ticks left, Forever or NotResetting]
          timer,      \* the timer thread: "sleep", "reset" or "docker"
          elapsed,    \* ticks it has slept, or waited for docker
          todo,       \* workers_to_reset
          target,     \* the container being restarted
          up,         \* the containers that run
          nextBeat,   \* ticks until a container sends its next heartbeat
          inbox,      \* how long each waiting heartbeat has waited
          restarted,  \* containers restarted so far (history)
          crashes, failures

vars == <<age, resetting, timer, elapsed, todo, target, up, nextBeat, inbox,
          restarted, crashes, failures>>

state == <<age, resetting>>
thread == <<timer, elapsed, todo, target>>
world == <<up, nextBeat, inbox, restarted, crashes, failures>>

NotResetting == -2
Forever == -1
NoContainer == "none"

(***************************************************************************)
(* utils.py: the node before it in the ring for a recovery node, a hash of  *)
(* the name for the others.  _build_data passes the node's own id.          *)
(***************************************************************************)
Responsible(id, c) ==
    IF c \in DOMAIN RecoveryId THEN (id - 1) % RecoveryAmount ELSE HashNode[c]

WatchedBy(n) == {c \in Containers : Responsible(n, c) = n}
Watched == WatchedBy(Self)

Init == /\ age = [c \in Watched |-> 0]
        /\ resetting = [c \in Watched |-> NotResetting]
        /\ timer = "sleep"
        /\ elapsed = 0
        /\ todo = {}
        /\ target = NoContainer
        /\ up = Watched
        /\ nextBeat \in [Watched -> 0..Interval]
        /\ inbox = [c \in Watched |-> {}]
        /\ restarted = {}
        /\ crashes = 0
        /\ failures = 0

(* now < recovering_until *)
Recovering(c) == resetting[c] = Forever \/ resetting[c] > 0

StaleAtOnce(c) == age[c] > Interval                           \* mutant
Stale(c) == age[c] > Timeout

-----------------------------------------------------------------------------
(* The sender of a container sends a heartbeat every interval. *)
Beat(c) ==
    /\ c \in up
    /\ nextBeat[c] = 0
    /\ nextBeat' = [nextBeat EXCEPT ![c] = Interval]
    /\ inbox' = [inbox EXCEPT ![c] = @ \cup {0}]
    /\ UNCHANGED <<state, thread, up, restarted, crashes, failures>>

Oldest(waits) == CHOOSE t \in waits : \A u \in waits : u <= t

(***************************************************************************)
(* _process_heartbeat: a heartbeat during the grace is ignored; the first   *)
(* one after it ends the recovery.                                          *)
(***************************************************************************)
ProcessHeartbeat(c) ==
    /\ inbox[c] # {}
    /\ inbox' = [inbox EXCEPT ![c] = @ \ {Oldest(@)}]
    /\ IF Recovering(c)
         THEN UNCHANGED state
         ELSE /\ resetting' = [resetting EXCEPT ![c] = NotResetting]
              /\ age' = [age EXCEPT ![c] = 0]
    /\ UNCHANGED <<thread, up, nextBeat, restarted, crashes, failures>>

(* _check_heartbeats, after sleep(HEARTBEAT_INTERVAL) *)
CheckHeartbeats ==
    /\ timer = "sleep"
    /\ elapsed >= Interval
    /\ timer' = "reset"
    /\ elapsed' = 0
    /\ todo' = {c \in Watched : ~Recovering(c) /\ Stale(c)}
    /\ resetting' = [c \in Watched |-> IF Recovering(c) THEN resetting[c]
                                                        ELSE NotResetting]
    /\ UNCHANGED <<age, target, world>>

ResetUnchecked(c) ==                                          \* mutant
    /\ timer = "reset"
    /\ c \in todo
    /\ todo' = todo \ {c}
    /\ resetting' = [resetting EXCEPT ![c] = Forever]
    /\ timer' = "docker"
    /\ target' = c
    /\ UNCHANGED <<age, elapsed, world>>

(***************************************************************************)
(* _reset_worker up to the docker command.  The list was made under the     *)
(* lock and is used after it, so the container is looked at again.          *)
(***************************************************************************)
ResetWorker(c) ==
    /\ timer = "reset"
    /\ c \in todo
    /\ todo' = todo \ {c}
    /\ IF resetting[c] # NotResetting \/ ~Stale(c)
         THEN UNCHANGED <<resetting, timer, target>>
         ELSE /\ resetting' = [resetting EXCEPT ![c] = Forever]
              /\ timer' = "docker"
              /\ target' = c
    /\ UNCHANGED <<age, elapsed, world>>

AllReset ==
    /\ timer = "reset"
    /\ todo = {}
    /\ timer' = "sleep"
    /\ UNCHANGED <<state, elapsed, todo, target, world>>

EndDocker ==
    /\ timer = "docker"
    /\ timer' = "reset"
    /\ elapsed' = 0
    /\ target' = NoContainer
    /\ restarted' = restarted \cup {target}
    /\ UNCHANGED <<todo, inbox, crashes>>

(* The container starts and sends its first heartbeat some time later. *)
Start(c) == /\ up' = up \cup {c}
            /\ \E t \in 0..Interval : nextBeat' = [nextBeat EXCEPT ![c] = t]

(* docker restart succeeds: the grace begins. *)
DockerSucceeds ==
    /\ EndDocker
    /\ Start(target)
    /\ resetting' = [resetting EXCEPT ![target] = Grace]
    /\ age' = [age EXCEPT ![target] = 0]
    /\ UNCHANGED failures

FailAndKeepResetting ==                                       \* mutant
    /\ failures < MaxFailures
    /\ failures' = failures + 1
    /\ EndDocker
    /\ UNCHANGED <<state, up, nextBeat>>

(***************************************************************************)
(* It fails or takes too long; the container may be up or not.              *)
(***************************************************************************)
DockerFails ==
    /\ failures < MaxFailures
    /\ failures' = failures + 1
    /\ EndDocker
    /\ \/ Start(target)
       \/ up' = up \ {target} /\ UNCHANGED nextBeat
    /\ resetting' = [resetting EXCEPT ![target] = NotResetting]
    /\ UNCHANGED age

GoDown(c) ==
    /\ c \in up
    /\ crashes < MaxCrashes
    /\ crashes' = crashes + 1
    /\ up' = up \ {c}
    /\ UNCHANGED <<state, thread, nextBeat, inbox, restarted, failures>>

(***************************************************************************)
(* Time passes.  A heartbeat that is due or that has waited for MaxDelay    *)
(* comes first, the steps of the timer thread take no time, its sleep may   *)
(* last longer, and docker answers within its timeout.                      *)
(***************************************************************************)
Lower(t) == IF t > 0 THEN t - 1 ELSE t
Older(t) == IF t > Timeout THEN t ELSE t + 1

Tick ==
    /\ \A c \in up : nextBeat[c] > 0
    /\ \A c \in Watched : \A t \in inbox[c] : t < MaxDelay
    /\ \/ timer = "sleep" /\ elapsed < Interval + MaxOversleep
       \/ timer = "docker" /\ elapsed < DockerTimeout
    /\ elapsed' = elapsed + 1
    /\ age' = [c \in Watched |-> Older(age[c])]
    /\ resetting' = [c \in Watched |-> Lower(resetting[c])]
    /\ nextBeat' = [c \in Watched |-> Lower(nextBeat[c])]
    /\ inbox' = [c \in Watched |-> {t + 1 : t \in inbox[c]}]
    /\ UNCHANGED <<timer, todo, target, up, restarted, crashes, failures>>

TimerThread == \/ CheckHeartbeats
               \/ \E c \in Watched : ResetWorker(c)
               \/ AllReset

Docker == DockerSucceeds \/ DockerFails

Next == \/ \E c \in Watched : Beat(c) \/ ProcessHeartbeat(c) \/ GoDown(c)
        \/ TimerThread
        \/ Docker
        \/ Tick

Spec == Init /\ [][Next]_vars

(***************************************************************************)
(* Time passes, threads run, docker answers, and senders and the consumer   *)
(* do not stop.  Containers need not go down and restarts need not fail.    *)
(***************************************************************************)
FairSpec == /\ Spec
            /\ WF_vars(Tick)
            /\ WF_vars(TimerThread)
            /\ WF_vars(Docker)
            /\ \A c \in Watched : WF_vars(Beat(c)) /\ WF_vars(ProcessHeartbeat(c))

-----------------------------------------------------------------------------
(* The variables have their types; a container has no limit to its recovery *)
(* exactly while docker restarts it.                                        *)
TypeOK ==
    /\ age \in [Watched -> 0..Timeout + 1]
    /\ resetting \in [Watched -> -2..Grace]
    /\ timer \in {"sleep", "reset", "docker"}
    /\ todo \subseteq Watched
    /\ up \subseteq Watched
    /\ nextBeat \in [Watched -> 0..Interval]
    /\ \A c \in Watched : (resetting[c] = Forever) = (timer = "docker" /\ target = c)

(* A container that was never restarted is restarted only when it is down:  *)
(* one that sends its heartbeats, and whose heartbeats are not delayed more *)
(* than the timeout allows, is left alone, also while docker restarts       *)
(* another one for longer than the timeout.                                 *)
FirstRestartJustified ==
    timer = "docker" /\ target \notin restarted => target \notin up

(* A restart begins only for a container that has not been heard of within  *)
(* the timeout, though the list of them was made before, without the lock   *)
(* in between.                                                              *)
HeardIsNotRestarted ==
    [][timer # "docker" /\ timer' = "docker" => age[target'] > Timeout]_vars

(* A container that goes down comes back, also when docker restarts fail.   *)
DownComesBack == \A c \in Watched : c \notin up ~> c \in up
=============================================================================
