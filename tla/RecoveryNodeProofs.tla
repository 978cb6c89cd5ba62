------------------------- MODULE RecoveryNodeProofs -------------------------
(***************************************************************************)
(* A recovery node, for any number of containers, any interval, number of  *)
(* misses and delay of the heartbeats that leaves them time to arrive, any *)
(* docker that is slow or fails, and any containers that go down.          *)
(***************************************************************************)
EXTENDS RecoveryNode, TLAPS

(* The times.                                                                *)
LEMMA Times ==
    /\ Interval \in Nat \ {0} /\ MaxDelay \in Nat
    /\ Timeout \in Nat /\ Interval + MaxDelay <= Timeout /\ Interval <= Timeout
    /\ Grace = Timeout
<1>1. Interval \in Nat \ {0} /\ MaxDelay \in Nat /\ Misses \in Nat
  BY TimeAssumption
<1>2. Misses * Interval \in Nat
  BY <1>1
<1>. QED
  BY <1>1, <1>2, TimeAssumption DEF Timeout, Grace

(***************************************************************************)
(* What TypeOK leaves open: the container docker restarts is a watched one, *)
(* and a heartbeat waits no longer than the broker's delay.                 *)
(***************************************************************************)
NodeInv ==
    /\ TypeOK
    /\ timer = "docker" => target \in Watched
    /\ inbox \in [Watched -> SUBSET (0..MaxDelay)]

LEMMA InitNode == Init => NodeInv
<1> SUFFICES ASSUME Init
             PROVE  NodeInv
  OBVIOUS
<1>1. /\ age \in [Watched -> 0..Timeout + 1]
      /\ resetting \in [Watched -> -2..Grace]
  BY Times DEF Init, NotResetting
<1>2. \A c \in Watched : resetting[c] # Forever
  BY DEF Init, NotResetting, Forever
<1>3. /\ timer = "sleep" /\ todo = {} /\ up = Watched /\ nextBeat \in [Watched -> 0..Interval]
      /\ inbox = [c \in Watched |-> {}]
  BY DEF Init
<1>. QED
  BY <1>1, <1>2, <1>3 DEF NodeInv, TypeOK

(* The container whose recovery has no limit is the one docker restarts.     *)
Marked == \A c \in Watched : (resetting[c] = Forever) = (timer = "docker" /\ target = c)

LEMMA NodeParts ==
    ASSUME NodeInv
    PROVE  /\ age \in [Watched -> 0..Timeout + 1] /\ resetting \in [Watched -> -2..Grace]
           /\ timer \in {"sleep", "reset", "docker"} /\ todo \subseteq Watched
           /\ up \subseteq Watched /\ nextBeat \in [Watched -> 0..Interval] /\ Marked
           /\ timer = "docker" => target \in Watched
           /\ inbox \in [Watched -> SUBSET (0..MaxDelay)]
BY DEF NodeInv, TypeOK, Marked

LEMMA BeatNode ==
    ASSUME NodeInv, NEW c \in Watched, Beat(c)
    PROVE  NodeInv'
<1>1. /\ nextBeat' = [nextBeat EXCEPT ![c] = Interval]
      /\ inbox' = [inbox EXCEPT ![c] = @ \cup {0}]
      /\ UNCHANGED <<age, resetting, timer, todo, target, up>>
  BY DEF Beat, state, thread
<1>2. nextBeat' \in [Watched -> 0..Interval] /\ inbox' \in [Watched -> SUBSET (0..MaxDelay)]
  BY <1>1, NodeParts, Times
<1>. QED
  BY <1>1, <1>2 DEF NodeInv, TypeOK

LEMMA HeartbeatNode ==
    ASSUME NodeInv, NEW c \in Watched, ProcessHeartbeat(c)
    PROVE  NodeInv'
<1>1. /\ \E t : inbox' = [inbox EXCEPT ![c] = @ \ {t}]
      /\ UNCHANGED <<timer, todo, target, up, nextBeat>>
  BY DEF ProcessHeartbeat, thread
<1>2. inbox' \in [Watched -> SUBSET (0..MaxDelay)]
  BY <1>1, NodeParts
<1>3. CASE UNCHANGED state
  BY <1>1, <1>2, <1>3 DEF NodeInv, TypeOK, state
<1>4. CASE ~Recovering(c) /\ resetting' = [resetting EXCEPT ![c] = NotResetting]
             /\ age' = [age EXCEPT ![c] = 0]
  <2>1. resetting[c] # Forever
    BY <1>4 DEF Recovering
  <2>2. age' \in [Watched -> 0..Timeout + 1] /\ resetting' \in [Watched -> -2..Grace]
    BY <1>4, NodeParts, Times DEF NotResetting
  <2>3. Marked'
    BY <1>1, <1>4, <2>1, NodeParts DEF Marked, NotResetting, Forever
  <2>. QED
    BY <1>1, <1>2, <2>2, <2>3 DEF NodeInv, TypeOK, Marked
<1>. QED
  BY <1>3, <1>4 DEF ProcessHeartbeat

LEMMA CheckNode ==
    ASSUME NodeInv, CheckHeartbeats
    PROVE  NodeInv'
<1>1. /\ timer = "sleep" /\ timer' = "reset" /\ todo' \subseteq Watched
      /\ resetting' = [c \in Watched |-> IF Recovering(c) THEN resetting[c] ELSE NotResetting]
      /\ UNCHANGED <<age, target, up, nextBeat, inbox>>
  BY DEF CheckHeartbeats, world
<1>2. resetting' \in [Watched -> -2..Grace]
  BY <1>1, NodeParts, Times DEF NotResetting
<1>3. Marked'
  BY <1>1, NodeParts DEF Marked, NotResetting, Forever
<1>. QED
  BY <1>1, <1>2, <1>3 DEF NodeInv, TypeOK, Marked

LEMMA ResetNode ==
    ASSUME NodeInv, NEW c \in Watched, ResetWorker(c)
    PROVE  NodeInv'
<1>1. /\ timer = "reset" /\ todo' \subseteq todo
      /\ UNCHANGED <<age, up, nextBeat, inbox>>
  BY DEF ResetWorker, world
<1>2. CASE UNCHANGED <<resetting, timer, target>>
  BY <1>1, <1>2 DEF NodeInv, TypeOK
<1>3. CASE resetting' = [resetting EXCEPT ![c] = Forever] /\ timer' = "docker" /\ target' = c
  <2>1. resetting' \in [Watched -> -2..Grace]
    BY <1>3, NodeParts, Times DEF Forever
  <2>2. Marked'
    BY <1>1, <1>3, NodeParts DEF Marked
  <2>. QED
    BY <1>1, <1>3, <2>1, <2>2 DEF NodeInv, TypeOK, Marked
<1>. QED
  BY <1>2, <1>3 DEF ResetWorker

LEMMA DockerNode ==
    ASSUME NodeInv, Docker
    PROVE  NodeInv'
<1>1. timer = "docker" /\ timer' = "reset" /\ todo' = todo /\ inbox' = inbox
  BY DEF Docker, DockerSucceeds, DockerFails, EndDocker
<1>2. target \in Watched
  BY <1>1, NodeParts
<1>3. up' \subseteq Watched /\ nextBeat' \in [Watched -> 0..Interval]
  <2>1. (up' = up \cup {target} /\ \E t \in 0..Interval : nextBeat' = [nextBeat EXCEPT ![target] = t])
          \/ (up' = up \ {target} /\ nextBeat' = nextBeat)
    BY DEF Docker, DockerSucceeds, DockerFails, Start
  <2>. QED
    BY <1>2, <2>1, NodeParts
<1>4. PICK r \in {Grace, NotResetting} : resetting' = [resetting EXCEPT ![target] = r]
  BY DEF Docker, DockerSucceeds, DockerFails
<1>5. r \in -2..Grace /\ r # Forever
  BY Times DEF NotResetting, Forever
<1>6. resetting' \in [Watched -> -2..Grace]
  BY <1>2, <1>4, <1>5, NodeParts
<1>7. age' \in [Watched -> 0..Timeout + 1]
  <2>1. age' = age \/ age' = [age EXCEPT ![target] = 0]
    BY DEF Docker, DockerSucceeds, DockerFails
  <2>. QED
    BY <2>1, NodeParts, Times
<1>8. Marked'
  BY <1>1, <1>2, <1>4, <1>5, NodeParts DEF Marked
<1>. QED
  BY <1>1, <1>3, <1>6, <1>7, <1>8, NodeParts DEF NodeInv, TypeOK, Marked

LEMMA TickNode ==
    ASSUME NodeInv, Tick
    PROVE  NodeInv'
<1>1. /\ \A c \in Watched : \A t \in inbox[c] : t < MaxDelay
      /\ age' = [c \in Watched |-> Older(age[c])]
      /\ resetting' = [c \in Watched |-> Lower(resetting[c])]
      /\ nextBeat' = [c \in Watched |-> Lower(nextBeat[c])]
      /\ inbox' = [c \in Watched |-> {t + 1 : t \in inbox[c]}]
      /\ UNCHANGED <<timer, todo, target, up>>
  BY DEF Tick
<1>2. \A c \in Watched : Older(age[c]) \in 0..Timeout + 1
  BY NodeParts, Times DEF Older
<1>3. \A c \in Watched : /\ Lower(resetting[c]) \in -2..Grace
                         /\ (Lower(resetting[c]) = Forever) = (resetting[c] = Forever)
  <2> SUFFICES ASSUME NEW c \in Watched
               PROVE  /\ Lower(resetting[c]) \in -2..Grace
                      /\ (Lower(resetting[c]) = Forever) = (resetting[c] = Forever)
    OBVIOUS
  <2>1. resetting[c] \in -2..Grace /\ Grace \in Nat
    BY NodeParts, Times
  <2>. QED
    BY <2>1 DEF Lower, Forever
<1>4. \A c \in Watched : Lower(nextBeat[c]) \in 0..Interval
  <2> SUFFICES ASSUME NEW c \in Watched
               PROVE  Lower(nextBeat[c]) \in 0..Interval
    OBVIOUS
  <2>1. nextBeat[c] \in 0..Interval /\ Interval \in Nat
    BY NodeParts, Times
  <2>. QED
    BY <2>1 DEF Lower
<1>5. \A c \in Watched : {t + 1 : t \in inbox[c]} \subseteq 0..MaxDelay
  <2>1. \A c \in Watched : \A t \in inbox[c] : t \in 0..MaxDelay
    BY NodeParts
  <2>. QED
    BY <1>1, <2>1, Times
<1>6. Marked'
  BY <1>1, <1>3, NodeParts DEF Marked
<1>7. /\ age' \in [Watched -> 0..Timeout + 1] /\ resetting' \in [Watched -> -2..Grace]
      /\ nextBeat' \in [Watched -> 0..Interval] /\ inbox' \in [Watched -> SUBSET (0..MaxDelay)]
  BY <1>1, <1>2, <1>3, <1>4, <1>5
<1>. QED
  BY <1>1, <1>6, <1>7, NodeParts DEF NodeInv, TypeOK, Marked

LEMMA NextNode == NodeInv /\ [Next]_vars => NodeInv'
<1> SUFFICES ASSUME NodeInv, [Next]_vars
             PROVE  NodeInv'
  OBVIOUS
<1>1. CASE UNCHANGED vars
  BY <1>1 DEF vars, NodeInv, TypeOK
<1>2. ASSUME NEW c \in Watched, GoDown(c)
      PROVE  NodeInv'
  BY <1>2 DEF GoDown, state, thread, NodeInv, TypeOK
<1>3. CASE AllReset
  <2>1. timer = "reset" /\ timer' = "sleep" /\ UNCHANGED <<state, todo, target, world>>
    BY <1>3 DEF AllReset
  <2>. QED
    BY <2>1 DEF state, world, NodeInv, TypeOK
<1>. QED
  BY <1>1, <1>2, <1>3, BeatNode, HeartbeatNode, CheckNode, ResetNode, DockerNode, TickNode
     DEF Next, TimerThread

(* The types of the dictionaries, and a recovery without limit exactly while *)
(* docker restarts the container: no interleaving of the two threads and no  *)
(* docker that fails leaves a container that is never looked at again.       *)
THEOREM TypeOKHolds == Spec => []TypeOK
<1>1. NodeInv => TypeOK
  BY DEF NodeInv
<1>. QED
  BY <1>1, InitNode, NextNode, PTL DEF Spec

-----------------------------------------------------------------------------
(***************************************************************************)
(* A container that runs and was never restarted is no candidate: either   *)
(* its next heartbeat comes in time, or one waits that was sent in time.   *)
(***************************************************************************)
OnTime(c) ==
    /\ resetting[c] = NotResetting
    /\ \/ inbox[c] = {} /\ age[c] + nextBeat[c] <= Interval
       \/ \E t \in inbox[c] : age[c] <= Interval + t

OnTimeInv == \A c \in up \ restarted : OnTime(c)

LEMMA InitOnTime == Init => OnTimeInv
<1> SUFFICES ASSUME Init, NEW c \in Watched
             PROVE  OnTime(c)
  BY DEF Init, OnTimeInv
<1>1. resetting[c] = NotResetting /\ inbox[c] = {} /\ age[c] = 0 /\ nextBeat[c] \in 0..Interval
  BY DEF Init
<1>. QED
  BY <1>1, Times DEF OnTime

LEMMA NotStale ==
    ASSUME NodeInv, NEW c \in Watched, OnTime(c)
    PROVE  ~Stale(c)
<1>1. age[c] \in Nat /\ nextBeat[c] \in Nat
  BY NodeParts, Times
<1>2. \A t \in inbox[c] : t \in 0..MaxDelay
  BY NodeParts
<1>. QED
  BY <1>1, <1>2, Times DEF OnTime, Stale

(* What happens to the others.                                               *)
LEMMA StayOnTime ==
    ASSUME OnTimeInv, NEW c \in up \ restarted, resetting'[c] = resetting[c],
           inbox'[c] = inbox[c], age'[c] = age[c], nextBeat'[c] = nextBeat[c]
    PROVE  OnTime(c)'
BY DEF OnTimeInv, OnTime, NotResetting

LEMMA NextOnTime == NodeInv /\ OnTimeInv /\ [Next]_vars => OnTimeInv'
<1> SUFFICES ASSUME NodeInv, OnTimeInv, [Next]_vars, NEW c \in up' \ restarted'
             PROVE  OnTime(c)'
  BY DEF OnTimeInv
<1>1. CASE UNCHANGED vars
  BY <1>1, StayOnTime DEF vars
<1>t. up \subseteq Watched /\ Interval \in Nat
  BY NodeParts, Times
<1>2. ASSUME NEW d \in Watched, Beat(d)
      PROVE  OnTime(c)'
  <2>1. /\ nextBeat[d] = 0 /\ nextBeat' = [nextBeat EXCEPT ![d] = Interval]
        /\ inbox' = [inbox EXCEPT ![d] = @ \cup {0}]
        /\ UNCHANGED <<age, resetting, up, restarted>>
    BY <1>2 DEF Beat, state
  <2>2. CASE c = d
    <3>1. OnTime(c)
      BY <2>1 DEF OnTimeInv
    <3>2. inbox'[c] = inbox[c] \cup {0} /\ age[c] \in Nat
      BY <1>2, <2>1, <2>2, NodeParts, Times
    <3>3. \E t \in inbox'[c] : age[c] <= Interval + t
      <4>1. CASE inbox[c] = {} /\ age[c] + nextBeat[c] <= Interval
        <5>1. age[c] <= Interval + 0 /\ 0 \in inbox'[c]
          BY <1>t, <2>1, <2>2, <3>2, <4>1
        <5>. QED
          BY <5>1
      <4>2. CASE \E t \in inbox[c] : age[c] <= Interval + t
        BY <3>2, <4>2
      <4>. QED
        BY <3>1, <4>1, <4>2 DEF OnTime
    <3>. QED
      BY <2>1, <3>1, <3>3 DEF OnTime, NotResetting
  <2>3. CASE c # d
    <3>1. nextBeat'[c] = nextBeat[c] /\ inbox'[c] = inbox[c]
      BY <1>t, <2>1, <2>3, NodeParts
    <3>. QED
      BY <2>1, <3>1, StayOnTime
  <2>. QED
    BY <2>2, <2>3
<1>3. ASSUME NEW d \in Watched, ProcessHeartbeat(d)
      PROVE  OnTime(c)'
  <2>1. /\ \E t : inbox' = [inbox EXCEPT ![d] = @ \ {t}]
        /\ UNCHANGED <<up, restarted, nextBeat>>
        /\ UNCHANGED state \/ (/\ resetting' = [resetting EXCEPT ![d] = NotResetting]
                               /\ age' = [age EXCEPT ![d] = 0])
        /\ Recovering(d) => UNCHANGED state
        /\ ~Recovering(d) => /\ resetting' = [resetting EXCEPT ![d] = NotResetting]
                             /\ age' = [age EXCEPT ![d] = 0]
    BY <1>3 DEF ProcessHeartbeat
  <2>2. CASE c = d
    <3>1. OnTime(c) /\ c \in Watched
      BY <1>t, <2>1 DEF OnTimeInv
    <3>2. ~Recovering(c)
      BY <3>1 DEF OnTime, Recovering, NotResetting, Forever
    <3>3. resetting'[c] = NotResetting /\ age'[c] = 0
      BY <2>1, <2>2, <3>1, <3>2, NodeParts
    <3>4. nextBeat'[c] \in 0..Interval /\ \A t \in inbox'[c] : t \in Nat
      <4>1. inbox'[c] \subseteq inbox[c]
        BY <2>1, <3>1, NodeParts
      <4>2. inbox[c] \subseteq 0..MaxDelay
        BY <3>1, NodeParts
      <4>. QED
        BY <2>1, <3>1, <4>1, <4>2, NodeParts, Times
    <3>5. CASE inbox'[c] = {}
      BY <1>t, <3>3, <3>4, <3>5 DEF OnTime, NotResetting
    <3>6. CASE inbox'[c] # {}
      <4>1. \E t \in inbox'[c] : age'[c] <= Interval + t
        BY <1>t, <3>3, <3>4, <3>6
      <4>. QED
        BY <3>3, <4>1 DEF OnTime, NotResetting
    <3>. QED
      BY <3>5, <3>6
  <2>3. CASE c # d
    <3>1. inbox'[c] = inbox[c] /\ age'[c] = age[c] /\ resetting'[c] = resetting[c]
      BY <1>t, <2>1, <2>3, NodeParts DEF state
    <3>. QED
      BY <2>1, <3>1, StayOnTime
  <2>. QED
    BY <2>2, <2>3
<1>4. CASE CheckHeartbeats
  <2>1. /\ resetting' = [d \in Watched |-> IF Recovering(d) THEN resetting[d] ELSE NotResetting]
        /\ UNCHANGED <<age, inbox, nextBeat, up, restarted>>
    BY <1>4 DEF CheckHeartbeats, world
  <2>2. resetting'[c] = resetting[c]
    BY <1>t, <2>1 DEF OnTimeInv, OnTime, NotResetting
  <2>. QED
    BY <2>1, <2>2, StayOnTime
<1>5. ASSUME NEW d \in Watched, ResetWorker(d)
      PROVE  OnTime(c)'
  <2>1. UNCHANGED <<age, inbox, nextBeat, up, restarted>>
    BY <1>5 DEF ResetWorker, world
  <2>2. ~Stale(c)
    BY <1>t, <2>1, NotStale DEF OnTimeInv
  <2>3. resetting'[c] = resetting[c]
    BY <1>5, <2>2, NodeParts, <1>t, <2>1 DEF ResetWorker
  <2>. QED
    BY <2>1, <2>3, StayOnTime
<1>6. CASE Docker
  <2>1. /\ timer = "docker" /\ restarted' = restarted \cup {target} /\ inbox' = inbox
        /\ up' \subseteq up \cup {target}
        /\ \E r : resetting' = [resetting EXCEPT ![target] = r]
        /\ age' = age \/ age' = [age EXCEPT ![target] = 0]
        /\ nextBeat' = nextBeat \/ \E t : nextBeat' = [nextBeat EXCEPT ![target] = t]
    BY <1>6 DEF Docker, DockerSucceeds, DockerFails, EndDocker, Start
  <2>2. c # target /\ c \in up \ restarted
    BY <2>1
  <2>3. resetting'[c] = resetting[c] /\ age'[c] = age[c] /\ nextBeat'[c] = nextBeat[c]
    BY <1>t, <2>1, <2>2, NodeParts
  <2>. QED
    BY <2>1, <2>2, <2>3, StayOnTime
<1>7. ASSUME NEW d \in Watched, GoDown(d)
      PROVE  OnTime(c)'
  BY <1>7, StayOnTime DEF GoDown, state
<1>8. CASE AllReset
  BY <1>8, StayOnTime DEF AllReset, state, world
<1>9. CASE Tick
  <2>1. /\ \A d \in up : nextBeat[d] > 0
        /\ age' = [d \in Watched |-> Older(age[d])]
        /\ resetting' = [d \in Watched |-> Lower(resetting[d])]
        /\ nextBeat' = [d \in Watched |-> Lower(nextBeat[d])]
        /\ inbox' = [d \in Watched |-> {t + 1 : t \in inbox[d]}]
        /\ UNCHANGED <<up, restarted>>
    BY <1>9 DEF Tick
  <2>2. c \in Watched /\ c \in up \ restarted /\ OnTime(c)
    BY <1>t, <2>1 DEF OnTimeInv
  <2>3. /\ age[c] \in Nat /\ nextBeat[c] \in Nat /\ nextBeat[c] > 0 /\ \A t \in inbox[c] : t \in Nat
    <3>1. age[c] \in Nat /\ nextBeat[c] \in Nat
      BY <2>2, NodeParts, Times
    <3>2. inbox[c] \subseteq 0..MaxDelay
      BY <2>2, NodeParts
    <3>. QED
      BY <2>1, <2>2, <3>1, <3>2
  <2>4. age'[c] <= age[c] + 1 /\ age'[c] \in Nat
    BY <2>1, <2>2, <2>3, Times DEF Older
  <2>5. nextBeat'[c] = nextBeat[c] - 1
    BY <2>1, <2>2, <2>3 DEF Lower
  <2>6. resetting'[c] = NotResetting
    BY <2>1, <2>2 DEF OnTime, NotResetting, Lower
  <2>7. CASE inbox[c] = {} /\ age[c] + nextBeat[c] <= Interval
    <3>1. inbox'[c] = {}
      BY <2>1, <2>2, <2>7
    <3>2. age'[c] + nextBeat'[c] <= Interval
      BY <1>t, <2>3, <2>4, <2>5, <2>7
    <3>. QED
      BY <2>6, <3>1, <3>2 DEF OnTime, NotResetting
  <2>8. ASSUME NEW t \in inbox[c], age[c] <= Interval + t
        PROVE  OnTime(c)'
    <3>1. t + 1 \in inbox'[c]
      BY <2>1, <2>2
    <3>2. age'[c] <= Interval + (t + 1)
      BY <1>t, <2>3, <2>4, <2>8
    <3>. QED
      BY <2>6, <3>1, <3>2 DEF OnTime, NotResetting
  <2>. QED
    BY <2>2, <2>7, <2>8 DEF OnTime
<1>. QED
  BY <1>1, <1>2, <1>3, <1>4, <1>5, <1>6, <1>7, <1>8, <1>9 DEF Next, TimerThread

(* A container that was never restarted is restarted only when it is down,   *)
(* as long as interval and delay together stay within the timeout: however   *)
(* long docker takes with another one and the timer thread sleeps.           *)
THEOREM FirstRestartJustifiedHolds == Spec => []FirstRestartJustified
<1>1. NodeInv /\ OnTimeInv => FirstRestartJustified
  <2> SUFFICES ASSUME NodeInv, OnTimeInv, timer = "docker", target \notin restarted, target \in up
               PROVE  FALSE
    BY DEF FirstRestartJustified
  <2>1. resetting[target] = Forever
    BY NodeParts DEF Marked
  <2>2. resetting[target] = NotResetting
    BY DEF OnTimeInv, OnTime
  <2>. QED
    BY <2>1, <2>2 DEF Forever, NotResetting
<1>. QED
  BY <1>1, InitNode, NextNode, InitOnTime, NextOnTime, PTL DEF Spec

(* A restart begins only for a container not heard of within the timeout at  *)
(* that moment, though the list of them was made earlier.                    *)
THEOREM HeardIsNotRestartedHolds == Spec => HeardIsNotRestarted
<1>1. [Next]_vars => [timer # "docker" /\ timer' = "docker" => age[target'] > Timeout]_vars
  <2> SUFFICES ASSUME Next, timer # "docker", timer' = "docker"
               PROVE  age[target'] > Timeout
    OBVIOUS
  <2>1. PICK c \in Watched : ResetWorker(c)
    BY DEF Next, Beat, ProcessHeartbeat, GoDown, TimerThread, CheckHeartbeats, AllReset, Docker,
       DockerSucceeds, DockerFails, EndDocker, Tick, thread
  <2>2. Stale(c) /\ target' = c
    BY <2>1 DEF ResetWorker
  <2>. QED
    BY <2>2 DEF Stale
<1>. QED
  BY <1>1, PTL DEF Spec, HeardIsNotRestarted
=============================================================================
