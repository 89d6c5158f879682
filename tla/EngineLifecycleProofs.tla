----------------------- MODULE EngineLifecycleProofs -----------------------
(***************************************************************************)
(* The safety of EngineLifecycle, for any callers, watchers and bounds.    *)
(* Beside the types the invariant says: Held, the lock is with the thread  *)
(* that joins, and only while it does; Handed, a polling thread told to    *)
(* stop is joined before the lock is given back, what a stop call is       *)
(* through with is off, and an upgrade has polling to replace; Counted,    *)
(* two fallback threads are there only where a join has timed out.         *)
(***************************************************************************)
EXTENDS EngineLifecycle, TLAPS

Threads ==
    /\ caller \in [Caller -> {"idle", "start", "stop", "join watcher", "join poller"}]
    /\ lock \in Caller \cup Watcher \cup {None}
    /\ exec \in {"none", "running", "stopping"}
    /\ watcher \in [Watcher -> {"none", "asleep", "ready", "joining"}]
    /\ watching \in Watcher \cup {None}
    /\ monitor \in {"watch", "join"}
    /\ wanted \in {"on", "off"}

Flags ==
    /\ stopEvent \in BOOLEAN /\ registered \in BOOLEAN /\ running \in BOOLEAN
    /\ fallback \in BOOLEAN
    /\ healthy \in BOOLEAN /\ fresh \in BOOLEAN

Numbers ==
    /\ left \in Nat /\ loops \in Nat /\ orphans \in Nat
    /\ slow \in 0 .. MaxSlow
    /\ faults \in 0 .. MaxFaults
    /\ left <= slow
    /\ loops + orphans <= MaxLoops

Held ==
    /\ \A c \in Caller : caller[c] \in {"join watcher", "join poller"} <=> lock = c
    /\ \A w \in Watcher : watcher[w] = "joining" <=> lock = w

Handed ==
    /\ (running => registered)
    /\ (exec = "running" => ~running)
    /\ (exec = "stopping" => lock # None)
    /\ (lock \in Watcher => wanted = "on" /\ exec # "running")
    /\ \A c \in Caller : caller[c] = "join poller" => (exec # "running" /\ ~running)
    /\ ((lock = None /\ wanted = "off") => (exec # "running" /\ ~running))

Counted == slow = 0 => (loops <= 1 /\ ((monitor = "watch" /\ ~fallback) => loops = 0))

\* The bounds are numbers.
LEMMA Bounds == MaxLoops \in Nat /\ MaxSlow \in Nat /\ MaxFaults \in Nat
BY LifecycleAssumption

\* The types, by kind.
LEMMA TypeParts == (Threads /\ Flags /\ Numbers) => TypeOK
<1>1. Numbers => left \in 0 .. MaxSlow /\ loops \in 0 .. MaxLoops /\ orphans \in 0 .. MaxLoops
    BY Bounds DEF Numbers
<1> QED
    BY <1>1, Zenon DEF TypeOK, Threads, Flags, Numbers

\* Every step keeps the types of the threads.
LEMMA ThreadsStep ==
    ASSUME Threads, [Next]_vars
    PROVE  Threads'
<1> USE DEF calls, polling, upgrade, engine, outside, Alive
<1>1. ASSUME NEW c \in Caller, NEW on \in BOOLEAN, Switch(c, on) PROVE Threads'
    BY <1>1, LifecycleAssumption DEF Switch, Threads
<1>2. ASSUME NEW c \in Caller, Start(c) PROVE Threads'
    BY <1>2, LifecycleAssumption DEF Start, Serving, StartWebSocket, StartPolling, WatchUpgrade, Threads
<1>3. ASSUME NEW c \in Caller, Stop(c) PROVE Threads'
    BY <1>3, LifecycleAssumption DEF Stop, Threads
<1>4. ASSUME NEW c \in Caller, StopEngines(c) PROVE Threads'
    BY <1>4, LifecycleAssumption DEF StopEngines, Threads
<1>5. ASSUME NEW c \in Caller, StopEnd(c) PROVE Threads'
    BY <1>5, LifecycleAssumption DEF StopEnd, JoinPoller, Joined, Threads
<1>6. ASSUME NEW w \in Watcher, Wake(w) PROVE Threads'
    BY <1>6, LifecycleAssumption DEF Wake, Threads
<1>7. ASSUME NEW w \in Watcher, Upgrade(w) PROVE Threads'
    BY <1>7, LifecycleAssumption DEF Upgrade, StartWebSocket, Threads
<1>8. ASSUME NEW w \in Watcher, UpgradeEnd(w) PROVE Threads'
    BY <1>8, LifecycleAssumption DEF UpgradeEnd, JoinPoller, Joined, Threads
<1>9. ASSUME PollerEnds PROVE Threads'
    BY <1>9, LifecycleAssumption DEF PollerEnds, Threads
<1>10. ASSUME StartFallback PROVE Threads'
    BY <1>10, LifecycleAssumption DEF StartFallback, Threads
<1>11. ASSUME StopFallback PROVE Threads'
    BY <1>11, LifecycleAssumption DEF StopFallback, Threads
<1>12. ASSUME FallbackJoined PROVE Threads'
    BY <1>12, LifecycleAssumption DEF FallbackJoined, Joined, Threads
<1>13. ASSUME LoopEnds PROVE Threads'
    BY <1>13, LifecycleAssumption DEF LoopEnds, Threads
<1>14. ASSUME Outside PROVE Threads'
    BY <1>14, LifecycleAssumption DEF Outside, Threads
<1>15. CASE UNCHANGED vars
    BY <1>15 DEF vars, Threads
<1> QED
    BY <1>1, <1>2, <1>3, <1>4, <1>5, <1>6, <1>7, <1>8, <1>9, <1>10, <1>11, <1>12, <1>13, <1>14, <1>15 DEF Next, Call, Watch, Monitor

\* Every step keeps the flags.
LEMMA FlagsStep ==
    ASSUME Flags, [Next]_vars
    PROVE  Flags'
<1> USE DEF calls, polling, upgrade, engine, outside, Alive
<1>1. ASSUME NEW c \in Caller, NEW on \in BOOLEAN, Switch(c, on) PROVE Flags'
    BY <1>1, Zenon DEF Switch, Flags
<1>2. ASSUME NEW c \in Caller, Start(c) PROVE Flags'
    BY <1>2, Zenon DEF Start, Serving, StartWebSocket, StartPolling, WatchUpgrade, Flags
<1>3. ASSUME NEW c \in Caller, Stop(c) PROVE Flags'
    BY <1>3, Zenon DEF Stop, Flags
<1>4. ASSUME NEW c \in Caller, StopEngines(c) PROVE Flags'
    BY <1>4, Zenon DEF StopEngines, Flags
<1>5. ASSUME NEW c \in Caller, StopEnd(c) PROVE Flags'
    BY <1>5, Zenon DEF StopEnd, JoinPoller, Joined, Flags
<1>6. ASSUME NEW w \in Watcher, Wake(w) PROVE Flags'
    BY <1>6, Zenon DEF Wake, Flags
<1>7. ASSUME NEW w \in Watcher, Upgrade(w) PROVE Flags'
    BY <1>7, Zenon DEF Upgrade, StartWebSocket, Flags
<1>8. ASSUME NEW w \in Watcher, UpgradeEnd(w) PROVE Flags'
    BY <1>8, Zenon DEF UpgradeEnd, JoinPoller, Joined, Flags
<1>9. ASSUME PollerEnds PROVE Flags'
    BY <1>9, Zenon DEF PollerEnds, Flags
<1>10. ASSUME StartFallback PROVE Flags'
    BY <1>10, Zenon DEF StartFallback, Flags
<1>11. ASSUME StopFallback PROVE Flags'
    BY <1>11, Zenon DEF StopFallback, Flags
<1>12. ASSUME FallbackJoined PROVE Flags'
    BY <1>12, Zenon DEF FallbackJoined, Joined, Flags
<1>13. ASSUME LoopEnds PROVE Flags'
    BY <1>13, Zenon DEF LoopEnds, Flags
<1>14. ASSUME Outside PROVE Flags'
    BY <1>14, Zenon DEF Outside, Flags
<1>15. CASE UNCHANGED vars
    BY <1>15 DEF vars, Flags
<1> QED
    BY <1>1, <1>2, <1>3, <1>4, <1>5, <1>6, <1>7, <1>8, <1>9, <1>10, <1>11, <1>12, <1>13, <1>14, <1>15 DEF Next, Call, Watch, Monitor

\* Every step keeps the numbers within their bounds.
LEMMA NumbersStep ==
    ASSUME Numbers, [Next]_vars
    PROVE  Numbers'
<1> USE DEF calls, polling, upgrade, engine, outside, Alive
<1>1. ASSUME NEW c \in Caller, NEW on \in BOOLEAN, Switch(c, on) PROVE Numbers'
    BY <1>1, Bounds DEF Switch, Numbers
<1>2. ASSUME NEW c \in Caller, Start(c) PROVE Numbers'
    BY <1>2, Bounds DEF Start, Serving, StartWebSocket, StartPolling, WatchUpgrade, Numbers
<1>3. ASSUME NEW c \in Caller, Stop(c) PROVE Numbers'
    BY <1>3, Bounds DEF Stop, Numbers
<1>4. ASSUME NEW c \in Caller, StopEngines(c) PROVE Numbers'
  <2>1. loops' = 0 /\ orphans' = orphans + loops
      BY <1>4 DEF StopEngines
  <2>2. left' = left /\ slow' = slow /\ faults' = faults
      BY <1>4 DEF StopEngines
  <2> QED
      BY <2>1, <2>2, Bounds DEF Numbers
<1>5. ASSUME NEW c \in Caller, StopEnd(c) PROVE Numbers'
  <2>1. loops' = loops /\ orphans' = orphans /\ faults' = faults
      BY <1>5 DEF StopEnd, engine
  <2>2. CASE ~Alive
    <3>1. left' = left /\ slow' = slow
        BY <1>5, <2>2 DEF StopEnd, JoinPoller, Joined
    <3> QED
        BY <2>1, <3>1 DEF Numbers
  <2>3. CASE Alive
    <3>1. left' = left + 1 /\ slow < MaxSlow /\ slow' = slow + 1
        BY <1>5, <2>3 DEF StopEnd, JoinPoller, Joined
    <3> QED
        BY <2>1, <3>1, Bounds DEF Numbers
  <2> QED
      BY <2>2, <2>3
<1>6. ASSUME NEW w \in Watcher, Wake(w) PROVE Numbers'
    BY <1>6, Bounds DEF Wake, Numbers
<1>7. ASSUME NEW w \in Watcher, Upgrade(w) PROVE Numbers'
    BY <1>7, Bounds DEF Upgrade, StartWebSocket, Numbers
<1>8. ASSUME NEW w \in Watcher, UpgradeEnd(w) PROVE Numbers'
    BY <1>8, Bounds DEF UpgradeEnd, JoinPoller, Joined, Numbers
<1>9. ASSUME PollerEnds PROVE Numbers'
    BY <1>9, Bounds DEF PollerEnds, Numbers
<1>10. ASSUME StartFallback PROVE Numbers'
    BY <1>10, Bounds DEF StartFallback, Numbers
<1>11. ASSUME StopFallback PROVE Numbers'
    BY <1>11, Bounds DEF StopFallback, Numbers
<1>12. ASSUME FallbackJoined PROVE Numbers'
    BY <1>12, Bounds DEF FallbackJoined, Joined, Numbers
<1>13. ASSUME LoopEnds PROVE Numbers'
    BY <1>13, Bounds DEF LoopEnds, Numbers
<1>14. ASSUME Outside PROVE Numbers'
    BY <1>14, Bounds DEF Outside, Numbers
<1>15. CASE UNCHANGED vars
    BY <1>15 DEF vars, Numbers
<1> QED
    BY <1>1, <1>2, <1>3, <1>4, <1>5, <1>6, <1>7, <1>8, <1>9, <1>10, <1>11, <1>12, <1>13, <1>14, <1>15 DEF Next, Call, Watch, Monitor

\* Every step keeps the lock with the thread that joins.
LEMMA HeldStep ==
    ASSUME Threads, Held, [Next]_vars
    PROVE  Held'
<1> USE DEF calls, polling, upgrade, engine, outside, Alive
<1>1. ASSUME NEW c \in Caller, NEW on \in BOOLEAN, Switch(c, on) PROVE Held'
    BY <1>1, LifecycleAssumption DEF Switch, Threads, Held
<1>2. ASSUME NEW c \in Caller, Start(c) PROVE Held'
    BY <1>2, LifecycleAssumption DEF Start, Serving, StartWebSocket, StartPolling, WatchUpgrade, Threads, Held
<1>3. ASSUME NEW c \in Caller, Stop(c) PROVE Held'
    BY <1>3, LifecycleAssumption DEF Stop, Threads, Held
<1>4. ASSUME NEW c \in Caller, StopEngines(c) PROVE Held'
    BY <1>4, LifecycleAssumption DEF StopEngines, Threads, Held
<1>5. ASSUME NEW c \in Caller, StopEnd(c) PROVE Held'
    BY <1>5, LifecycleAssumption DEF StopEnd, JoinPoller, Joined, Threads, Held
<1>6. ASSUME NEW w \in Watcher, Wake(w) PROVE Held'
    BY <1>6, LifecycleAssumption DEF Wake, Threads, Held
<1>7. ASSUME NEW w \in Watcher, Upgrade(w) PROVE Held'
  <2>1. CASE ~Alive \/ registered
    <3>1. lock' = lock /\ caller' = caller /\ watcher' = [watcher EXCEPT ![w] = "asleep"]
        BY <1>7, <2>1 DEF Upgrade, calls
    <3> QED
        BY <1>7, <3>1, LifecycleAssumption DEF Upgrade, Threads, Held
  <2>2. CASE Alive /\ ~registered
    <3>1. lock' = w /\ caller' = caller /\ watcher' = [watcher EXCEPT ![w] = "joining"]
        BY <1>7, <2>2 DEF Upgrade, calls
    <3> QED
        BY <1>7, <3>1, LifecycleAssumption DEF Upgrade, Threads, Held
  <2> QED
      BY <2>1, <2>2
<1>8. ASSUME NEW w \in Watcher, UpgradeEnd(w) PROVE Held'
    BY <1>8, LifecycleAssumption DEF UpgradeEnd, JoinPoller, Joined, Threads, Held
<1>9. ASSUME PollerEnds PROVE Held'
    BY <1>9, LifecycleAssumption DEF PollerEnds, Threads, Held
<1>10. ASSUME StartFallback PROVE Held'
    BY <1>10, LifecycleAssumption DEF StartFallback, Threads, Held
<1>11. ASSUME StopFallback PROVE Held'
    BY <1>11, LifecycleAssumption DEF StopFallback, Threads, Held
<1>12. ASSUME FallbackJoined PROVE Held'
    BY <1>12, LifecycleAssumption DEF FallbackJoined, Joined, Threads, Held
<1>13. ASSUME LoopEnds PROVE Held'
    BY <1>13, LifecycleAssumption DEF LoopEnds, Threads, Held
<1>14. ASSUME Outside PROVE Held'
    BY <1>14, LifecycleAssumption DEF Outside, Threads, Held
<1>15. CASE UNCHANGED vars
    BY <1>15 DEF vars, Threads, Held
<1> QED
    BY <1>1, <1>2, <1>3, <1>4, <1>5, <1>6, <1>7, <1>8, <1>9, <1>10, <1>11, <1>12, <1>13, <1>14, <1>15 DEF Next, Call, Watch, Monitor

\* No step brings back an engine that a stop call was through with.
LEMMA HandedStep ==
    ASSUME Threads, Flags, Held, Handed, [Next]_vars
    PROVE  Handed'
<1> USE DEF calls, polling, upgrade, engine, outside, Alive
<1>1. ASSUME NEW c \in Caller, NEW on \in BOOLEAN, Switch(c, on) PROVE Handed'
    BY <1>1, LifecycleAssumption DEF Switch, Threads, Flags, Held, Handed
<1>2. ASSUME NEW c \in Caller, Start(c) PROVE Handed'
  <2>1. lock = None /\ lock' = None /\ wanted' = "on" /\ None \notin Watcher
      BY <1>2, LifecycleAssumption DEF Start
  <2>2. \A d \in Caller : caller'[d] # "join poller"
      BY <1>2, LifecycleAssumption DEF Start, Threads, Held
  <2>3. exec # "stopping"
      BY <2>1 DEF Handed
  <2>4. exec' # "stopping" /\ (exec' = "running" => ~running') /\ (running' => registered')
    <3>1. CASE Serving
      <4>1. exec' = exec /\ running' = running /\ registered' = registered
          BY <1>2, <3>1 DEF Start, polling, engine
      <4> QED
          BY <4>1, <2>3 DEF Handed
    <3>2. CASE ~Serving /\ healthy
      <4>1. exec' = exec /\ registered'
          BY <1>2, <3>2 DEF Start, polling, StartWebSocket
      <4> QED
          BY <4>1, <3>2 DEF Serving, Alive
    <3>3. CASE ~Serving /\ ~healthy
      <4>1. StartPolling /\ UNCHANGED engine
          BY <1>2, <3>3 DEF Start
      <4>2. exec' = "running" /\ running' = running /\ registered' = registered
          BY <4>1 DEF StartPolling, engine
      <4>3. ~registered \/ ~running
          BY <3>3 DEF Serving
      <4> QED
          BY <4>2, <4>3 DEF Handed
    <3> QED
        BY <3>1, <3>2, <3>3
  <2> QED
      BY <2>1, <2>2, <2>4 DEF Handed
<1>3. ASSUME NEW c \in Caller, Stop(c) PROVE Handed'
    BY <1>3, LifecycleAssumption DEF Stop, Threads, Flags, Held, Handed
<1>4. ASSUME NEW c \in Caller, StopEngines(c) PROVE Handed'
    BY <1>4, LifecycleAssumption DEF StopEngines, Threads, Flags, Held, Handed
<1>5. ASSUME NEW c \in Caller, StopEnd(c) PROVE Handed'
    BY <1>5, LifecycleAssumption DEF StopEnd, JoinPoller, Joined, Threads, Flags, Held, Handed
<1>6. ASSUME NEW w \in Watcher, Wake(w) PROVE Handed'
    BY <1>6, LifecycleAssumption DEF Wake, Threads, Flags, Held, Handed
<1>7. ASSUME NEW w \in Watcher, Upgrade(w) PROVE Handed'
  <2>1. CASE ~Alive \/ registered
    <3>1. /\ lock' = lock /\ caller' = caller /\ exec' = exec
          /\ running' = running /\ registered' = registered /\ wanted' = wanted
        BY <1>7, <2>1 DEF Upgrade, calls, engine
    <3> QED
        BY <3>1 DEF Handed
  <2>2. CASE Alive /\ ~registered
    <3>1. lock = None /\ lock' = w /\ caller' = caller /\ exec' = "stopping" /\ wanted' = wanted
        BY <1>7, <2>2 DEF Upgrade, calls
    <3>6. registered'
        BY <1>7, <2>2 DEF Upgrade, StartWebSocket
    <3>2. w # None /\ w \notin Caller
        BY LifecycleAssumption
    <3>3. exec = "running"
        BY <2>2, <3>1 DEF Threads, Handed, Alive
    <3>4. wanted = "on"
        BY <3>1, <3>3 DEF Threads, Handed
    <3>5. \A c \in Caller : caller[c] # "join poller"
        BY <3>1, LifecycleAssumption DEF Held
    <3> QED
        BY <3>1, <3>2, <3>4, <3>5, <3>6 DEF Handed
  <2> QED
      BY <2>1, <2>2
<1>8. ASSUME NEW w \in Watcher, UpgradeEnd(w) PROVE Handed'
    BY <1>8, LifecycleAssumption DEF UpgradeEnd, JoinPoller, Joined, Threads, Flags, Held, Handed
<1>9. ASSUME PollerEnds PROVE Handed'
    BY <1>9, LifecycleAssumption DEF PollerEnds, Threads, Flags, Held, Handed
<1>10. ASSUME StartFallback PROVE Handed'
    BY <1>10, LifecycleAssumption DEF StartFallback, Threads, Flags, Held, Handed
<1>11. ASSUME StopFallback PROVE Handed'
    BY <1>11, LifecycleAssumption DEF StopFallback, Threads, Flags, Held, Handed
<1>12. ASSUME FallbackJoined PROVE Handed'
    BY <1>12, LifecycleAssumption DEF FallbackJoined, Joined, Threads, Flags, Held, Handed
<1>13. ASSUME LoopEnds PROVE Handed'
    BY <1>13, LifecycleAssumption DEF LoopEnds, Threads, Flags, Held, Handed
<1>14. ASSUME Outside PROVE Handed'
    BY <1>14, LifecycleAssumption DEF Outside, Threads, Flags, Held, Handed
<1>15. CASE UNCHANGED vars
    BY <1>15 DEF vars, Threads, Flags, Held, Handed
<1> QED
    BY <1>1, <1>2, <1>3, <1>4, <1>5, <1>6, <1>7, <1>8, <1>9, <1>10, <1>11, <1>12, <1>13, <1>14, <1>15 DEF Next, Call, Watch, Monitor

\* Every step keeps the fallback threads within what a join that timed out leaves.
LEMMA CountedStep ==
    ASSUME Flags, Numbers, Counted, [Next]_vars
    PROVE  Counted'
<1> USE DEF calls, polling, upgrade, engine, outside, Alive
<1>1. ASSUME NEW c \in Caller, NEW on \in BOOLEAN, Switch(c, on) PROVE Counted'
    BY <1>1, Bounds DEF Switch, Flags, Numbers, Counted
<1>2. ASSUME NEW c \in Caller, Start(c) PROVE Counted'
    BY <1>2, Bounds DEF Start, Serving, StartWebSocket, StartPolling, WatchUpgrade, Flags, Numbers, Counted
<1>3. ASSUME NEW c \in Caller, Stop(c) PROVE Counted'
    BY <1>3, Bounds DEF Stop, Flags, Numbers, Counted
<1>4. ASSUME NEW c \in Caller, StopEngines(c) PROVE Counted'
  <2>1. loops' = 0
      BY <1>4 DEF StopEngines
  <2> QED
      BY <2>1 DEF Counted
<1>5. ASSUME NEW c \in Caller, StopEnd(c) PROVE Counted'
  <2>1. /\ loops' = loops /\ fallback' = fallback /\ monitor' = monitor
      BY <1>5 DEF StopEnd, engine
  <2>2. slow' = slow \/ slow' = slow + 1
      BY <1>5 DEF StopEnd, JoinPoller, Joined
  <2>3. slow' = 0 => slow = 0
      BY <2>2 DEF Numbers
  <2> QED
      BY <2>1, <2>3 DEF Counted
<1>6. ASSUME NEW w \in Watcher, Wake(w) PROVE Counted'
    BY <1>6, Bounds DEF Wake, Flags, Numbers, Counted
<1>7. ASSUME NEW w \in Watcher, Upgrade(w) PROVE Counted'
    BY <1>7, Bounds DEF Upgrade, StartWebSocket, Flags, Numbers, Counted
<1>8. ASSUME NEW w \in Watcher, UpgradeEnd(w) PROVE Counted'
    BY <1>8, Bounds DEF UpgradeEnd, JoinPoller, Joined, Flags, Numbers, Counted
<1>9. ASSUME PollerEnds PROVE Counted'
    BY <1>9, Bounds DEF PollerEnds, Flags, Numbers, Counted
<1>10. ASSUME StartFallback PROVE Counted'
    BY <1>10, Bounds DEF StartFallback, Flags, Numbers, Counted
<1>11. ASSUME StopFallback PROVE Counted'
    BY <1>11, Bounds DEF StopFallback, Flags, Numbers, Counted
<1>12. ASSUME FallbackJoined PROVE Counted'
    BY <1>12, Bounds DEF FallbackJoined, Joined, Flags, Numbers, Counted
<1>13. ASSUME LoopEnds PROVE Counted'
    BY <1>13, Bounds DEF LoopEnds, Flags, Numbers, Counted
<1>14. ASSUME Outside PROVE Counted'
    BY <1>14, Bounds DEF Outside, Flags, Numbers, Counted
<1>15. CASE UNCHANGED vars
    BY <1>15 DEF vars, Flags, Numbers, Counted
<1> QED
    BY <1>1, <1>2, <1>3, <1>4, <1>5, <1>6, <1>7, <1>8, <1>9, <1>10, <1>11, <1>12, <1>13, <1>14, <1>15 DEF Next, Call, Watch, Monitor

-----------------------------------------------------------------------------
\* The inductive invariant: types, and who holds, has handed on or counts what.
Inv == Threads /\ Flags /\ Numbers /\ Held /\ Handed /\ Counted

LEMMA InvInit ==
    ASSUME Init
    PROVE  Inv
<1>1. Threads
    BY LifecycleAssumption DEF Init, Threads
<1>2. Flags
    BY Zenon DEF Init, Flags
<1>3. Numbers
    BY Bounds DEF Init, Numbers
<1>4. Held
    BY LifecycleAssumption DEF Init, Held
<1>5. Handed
    BY LifecycleAssumption DEF Init, Handed
<1>6. Counted
    BY LifecycleAssumption DEF Init, Counted
<1> QED
    BY <1>1, <1>2, <1>3, <1>4, <1>5, <1>6 DEF Inv

LEMMA InvAlways == Spec => []Inv
<1>1. Init => Inv
    BY InvInit
<1>2. Inv /\ [Next]_vars => Inv'
    BY ThreadsStep, FlagsStep, NumbersStep, HeldStep, HandedStep, CountedStep DEF Inv
<1> QED
    BY <1>1, <1>2, PTL DEF Spec

\* Every variable keeps its type, for any callers and watchers.
THEOREM LifecycleTyped == Spec => []TypeOK
<1>1. Inv => TypeOK
    BY TypeParts DEF Inv
<1> QED
    BY <1>1, InvAlways, PTL

\* Whatever the calls of start and stop, the watchers and the joins that time out,
\* between calls one engine executes orders at most
\* (start_execution_engine, stop_execution_engine, _watch).
THEOREM OneEngineAlways == Spec => []OneEngine
<1>1. Inv => OneEngine
  <2> SUFFICES ASSUME Inv PROVE OneEngine
      OBVIOUS
  <2>1. Engines <= 1
    <3>1. CASE running
      <4>1. exec # "running"
          BY <3>1 DEF Inv, Handed
      <4> QED
          BY <3>1, <4>1 DEF Engines
    <3>2. CASE ~running
        BY <3>2 DEF Engines
    <3> QED
        BY <3>1, <3>2
  <2>2. slow = 0 => left = 0
      BY DEF Inv, Numbers
  <2> QED
      BY <2>1, <2>2 DEF Inv, Handed, OneEngine
<1> QED
    BY <1>1, InvAlways, PTL

\* After a stop call no engine executes orders, though its threads may still be
\* there (stop_execution_engine).
THEOREM StoppedIsOff == Spec => []OffIsOff
<1>1. Inv => OffIsOff
  <2>1. (exec # "running" /\ ~running) => Engines = 0
      BY DEF Engines
  <2> QED
      BY <2>1 DEF Inv, Handed, OffIsOff
<1> QED
    BY <1>1, InvAlways, PTL

\* Data that come and go leave one fallback thread at most
\* (websocket_execution_engine.py _start_fallback, _stop_fallback).
THEOREM OneFallbackAlways == Spec => []OneFallback
<1>1. Inv => OneFallback
    BY DEF Inv, Counted, OneFallback
<1> QED
    BY <1>1, InvAlways, PTL
=============================================================================
