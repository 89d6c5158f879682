-------------------------- MODULE EngineLifecycle --------------------------
(***************************************************************************)
(* Which sandbox engine runs, and when: the start and stop calls of the    *)
(* analyzer mode switch, the polling thread, the WebSocket engine with its *)
(* own polling fallback, and the watcher that upgrades from the first to   *)
(* the second (sandbox/execution_thread.py, websocket_execution_engine.py, *)
(* services/analyzer_service.py).  A join that times out is a step of its  *)
(* own; what else a holder of _thread_lock does is one step.               *)
(***************************************************************************)
EXTENDS Naturals

CONSTANTS
    Caller,     \* threads that switch the mode
    Watcher,    \* bound: upgrade watchers alive at once
    MaxLoops,   \* bound: fallback threads alive at once, of all engines
    MaxSlow,    \* bound: joins that time out on a polling thread
    MaxFaults,  \* bound: starts of the WebSocket engine that fail unnoticed
    None        \* no thread

ASSUME LifecycleAssumption ==
    /\ None \notin Caller \cup Watcher
    /\ Caller \cap Watcher = {}
    /\ {MaxLoops, MaxSlow, MaxFaults} \subseteq Nat

VARIABLES
    caller,      \* what each caller is at
    lock,        \* _thread_lock: the thread that holds it
    exec,        \* _execution_thread: "none", "running", or told to stop
    left,        \* polling threads told to stop and forgotten before they ended
    watcher,     \* the upgrade watchers
    watching,    \* _auto_upgrade_thread
    stopEvent,   \* _auto_upgrade_stop_event
    registered,  \* is _websocket_engine set?
    running,     \* _running of the WebSocket engine
    monitor,     \* its health monitor: "watch", or "join" for a fallback to end
    fallback,    \* _fallback_running
    loops,       \* its fallback threads
    orphans,     \* fallback threads of engines that were stopped
    healthy,     \* does the WebSocket proxy accept connections?
    fresh,       \* is the market data fresh?
    slow, faults,
    wanted       \* the last call that was served: not in the program

calls   == <<caller, wanted>>
polling == <<exec, left>>
upgrade == <<watcher, watching, stopEvent>>
engine  == <<registered, running, monitor, fallback, loops, orphans>>
outside == <<healthy, fresh>>
vars    == <<calls, lock, polling, upgrade, engine, outside, slow, faults>>

Alive == exec # "none"

Init ==
    /\ caller = [c \in Caller |-> "idle"]
    /\ wanted = "off"
    /\ lock = None
    /\ exec = "none"
    /\ left = 0
    /\ watcher = [w \in Watcher |-> "none"]
    /\ watching = None
    /\ stopEvent = FALSE
    /\ registered = FALSE
    /\ running = FALSE
    /\ monitor = "watch"
    /\ fallback = FALSE
    /\ loops = 0
    /\ orphans = 0
    /\ healthy = TRUE
    /\ fresh = TRUE
    /\ slow = 0
    /\ faults = 0

-----------------------------------------------------------------------------
\* A join ends with the thread it waits for, or times out.
Joined(ended) ==
    \/ ended /\ UNCHANGED slow
    \/ ~ended /\ slow < MaxSlow /\ slow' = slow + 1

\* Mutant of JoinPoller: a thread that has ended is counted too.
JoinPollerUnasked ==
    /\ Joined(~Alive)
    /\ exec' = "none"
    /\ left' = left + 1

\* After ten seconds a polling thread is forgotten, ended or not.
JoinPoller ==
    /\ Joined(~Alive)
    /\ exec' = "none"
    /\ left' = IF Alive THEN left + 1 ELSE left

\* A request to switch the mode, before its call of start or stop.
Switch(c, on) ==
    /\ caller[c] = "idle"
    /\ caller' = [caller EXCEPT ![c] = IF on THEN "start" ELSE "stop"]
    /\ UNCHANGED <<wanted, lock, polling, upgrade, engine, outside, slow, faults>>

\* WebSocketExecutionEngine.start; when it cannot subscribe to the market data it
\* is not running, and the answer is success all the same.
StartWebSocket ==
    /\ registered' = TRUE
    /\ UNCHANGED <<monitor, fallback, loops, orphans>>
    /\ \/ running' = TRUE /\ UNCHANGED faults
       \/ running' = FALSE /\ faults < MaxFaults /\ faults' = faults + 1

\* Mutant of WatchUpgrade: the stop event of the last watcher stays set.
WatchUpgradeUncleared ==
    IF watching # None /\ watcher[watching] # "none"
    THEN UNCHANGED upgrade
    ELSE \E w \in Watcher :
             /\ watcher[w] = "none"
             /\ watcher' = [watcher EXCEPT ![w] = "asleep"]
             /\ watching' = w
             /\ UNCHANGED stopEvent

\* _start_websocket_upgrade_watcher
WatchUpgrade ==
    IF watching # None /\ watcher[watching] # "none"
    THEN UNCHANGED upgrade
    ELSE \E w \in Watcher :
             /\ watcher[w] = "none"
             /\ watcher' = [watcher EXCEPT ![w] = "asleep"]
             /\ watching' = w
             /\ stopEvent' = FALSE

StartPolling ==
    /\ exec' = "running"
    /\ UNCHANGED left
    /\ WatchUpgrade

\* Mutant of Serving: only a polling thread counts.
ServingPolled == Alive

\* An engine runs already.
Serving == Alive \/ (registered /\ running)

\* start_execution_engine, for the type "websocket", the default.
Start(c) ==
    /\ caller[c] = "start"
    /\ lock = None
    /\ caller' = [caller EXCEPT ![c] = "idle"]
    /\ wanted' = "on"
    /\ \/ /\ Serving
          /\ UNCHANGED <<polling, upgrade, engine, faults>>
       \/ /\ ~Serving /\ healthy
          /\ StartWebSocket
          /\ UNCHANGED <<polling, upgrade>>
       \/ /\ ~Serving /\ ~healthy
          /\ StartPolling
          /\ UNCHANGED <<engine, faults>>
    /\ UNCHANGED <<lock, outside, slow>>

\* stop_execution_engine: the watcher is told to stop and joined with the lock
\* held, for which it may be waiting.
Stop(c) ==
    /\ caller[c] = "stop"
    /\ lock = None
    /\ lock' = c
    /\ wanted' = "off"
    /\ stopEvent' = TRUE
    /\ caller' = [caller EXCEPT ![c] = "join watcher"]
    /\ UNCHANGED <<polling, watcher, watching, engine, outside, slow, faults>>

\* Mutant of StopEngines: the polling thread is left alone when a WebSocket engine
\* was registered.
StopEnginesEither(c) ==
    /\ caller[c] = "join watcher"
    /\ caller' = [caller EXCEPT ![c] = "join poller"]
    /\ watching' = None
    /\ registered' = FALSE
    /\ running' = FALSE
    /\ monitor' = "watch"
    /\ fallback' = FALSE
    /\ orphans' = orphans + loops
    /\ loops' = 0
    /\ exec' = IF Alive /\ ~registered THEN "stopping" ELSE exec
    /\ UNCHANGED <<wanted, lock, left, watcher, stopEvent, outside, slow, faults>>

\* The watcher has ended or five seconds are over: the WebSocket engine is stopped,
\* and the polling thread told to stop.
StopEngines(c) ==
    /\ caller[c] = "join watcher"
    /\ caller' = [caller EXCEPT ![c] = "join poller"]
    /\ watching' = None
    /\ registered' = FALSE
    /\ running' = FALSE
    /\ monitor' = "watch"
    /\ fallback' = FALSE
    /\ orphans' = orphans + loops
    /\ loops' = 0
    /\ exec' = IF Alive THEN "stopping" ELSE "none"
    /\ UNCHANGED <<wanted, lock, left, watcher, stopEvent, outside, slow, faults>>

StopEnd(c) ==
    /\ caller[c] = "join poller"
    /\ JoinPoller
    /\ caller' = [caller EXCEPT ![c] = "idle"]
    /\ lock' = None
    /\ UNCHANGED <<wanted, upgrade, engine, outside, faults>>

PollerEnds ==
    /\ \/ exec = "stopping" /\ exec' = "none" /\ UNCHANGED left
       \/ left > 0 /\ left' = left - 1 /\ UNCHANGED exec
    /\ UNCHANGED <<calls, lock, upgrade, engine, outside, slow, faults>>

-----------------------------------------------------------------------------
\* The watcher wakes every five seconds.
Wake(w) ==
    /\ watcher[w] = "asleep"
    /\ \/ stopEvent /\ watcher' = [watcher EXCEPT ![w] = "none"]
       \/ ~stopEvent /\ healthy /\ watcher' = [watcher EXCEPT ![w] = "ready"]
    /\ UNCHANGED <<calls, lock, polling, watching, stopEvent, engine, outside, slow, faults>>

\* Mutant of Upgrade: the watcher does not look whether polling still runs.
UpgradeAlways(w) ==
    /\ watcher[w] = "ready"
    /\ lock = None
    /\ \/ /\ registered
          /\ watcher' = [watcher EXCEPT ![w] = "asleep"]
          /\ UNCHANGED <<lock, exec, engine, faults>>
       \/ /\ ~registered
          /\ StartWebSocket
          /\ exec' = IF Alive THEN "stopping" ELSE "none"
          /\ lock' = w
          /\ watcher' = [watcher EXCEPT ![w] = "joining"]
    /\ UNCHANGED <<calls, left, watching, stopEvent, outside, slow>>

\* It upgrades when polling runs and the WebSocket engine does not.
Upgrade(w) ==
    /\ watcher[w] = "ready"
    /\ lock = None
    /\ \/ /\ ~Alive \/ registered
          /\ watcher' = [watcher EXCEPT ![w] = "asleep"]
          /\ UNCHANGED <<lock, exec, engine, faults>>
       \/ /\ Alive /\ ~registered
          /\ StartWebSocket
          /\ exec' = "stopping"
          /\ lock' = w
          /\ watcher' = [watcher EXCEPT ![w] = "joining"]
    /\ UNCHANGED <<calls, left, watching, stopEvent, outside, slow>>

UpgradeEnd(w) ==
    /\ watcher[w] = "joining"
    /\ JoinPoller
    /\ lock' = None
    /\ watcher' = [watcher EXCEPT ![w] = "none"]
    /\ UNCHANGED <<calls, watching, stopEvent, engine, outside, faults>>

-----------------------------------------------------------------------------
\* Mutant of StartFallback: also when one is on.
StartFallbackAgain ==
    /\ running /\ monitor = "watch" /\ ~fresh
    /\ loops + orphans < MaxLoops
    /\ fallback' = TRUE
    /\ loops' = loops + 1
    /\ UNCHANGED <<calls, lock, polling, upgrade, registered, running, monitor, orphans,
                   outside, slow, faults>>

\* The health monitor, every five seconds: stale data starts the fallback, fresh
\* data ends it; a thread that has not ended after ten seconds is forgotten.
StartFallback ==
    /\ running /\ monitor = "watch" /\ ~fresh /\ ~fallback
    /\ loops + orphans < MaxLoops
    /\ fallback' = TRUE
    /\ loops' = loops + 1
    /\ UNCHANGED <<calls, lock, polling, upgrade, registered, running, monitor, orphans,
                   outside, slow, faults>>

\* Mutant of StopFallback: the flag is cleared only after the join.
StopFallbackLate ==
    /\ running /\ monitor = "watch" /\ fresh /\ fallback
    /\ monitor' = "join"
    /\ UNCHANGED <<calls, lock, polling, upgrade, registered, running, fallback, loops, orphans,
                   outside, slow, faults>>

StopFallback ==
    /\ running /\ monitor = "watch" /\ fresh /\ fallback
    /\ fallback' = FALSE
    /\ monitor' = "join"
    /\ UNCHANGED <<calls, lock, polling, upgrade, registered, running, loops, orphans,
                   outside, slow, faults>>

FallbackJoined ==
    /\ running /\ monitor = "join"
    /\ Joined(loops = 0)
    /\ monitor' = "watch"
    /\ UNCHANGED <<calls, lock, polling, upgrade, registered, running, fallback, loops, orphans,
                   outside, faults>>

\* A fallback thread looks at the flags between two passes over the orders.
LoopEnds ==
    /\ \/ loops > 0 /\ ~fallback /\ loops' = loops - 1 /\ UNCHANGED orphans
       \/ orphans > 0 /\ orphans' = orphans - 1 /\ UNCHANGED loops
    /\ UNCHANGED <<calls, lock, polling, upgrade, registered, running, monitor, fallback,
                   outside, slow, faults>>

Outside ==
    /\ \/ healthy' = ~healthy /\ UNCHANGED fresh
       \/ fresh' = ~fresh /\ UNCHANGED healthy
    /\ UNCHANGED <<calls, lock, polling, upgrade, engine, slow, faults>>

Call(c)  == Start(c) \/ Stop(c) \/ StopEngines(c) \/ StopEnd(c)
Watch(w) == Wake(w) \/ Upgrade(w) \/ UpgradeEnd(w)
Monitor  == StartFallback \/ StopFallback \/ FallbackJoined

Next ==
    \/ \E c \in Caller : Call(c) \/ \E on \in BOOLEAN : Switch(c, on)
    \/ \E w \in Watcher : Watch(w)
    \/ PollerEnds
    \/ Monitor
    \/ LoopEnds
    \/ Outside

\* Every thread goes on; a polling pass ends.
Fairness ==
    /\ \A c \in Caller : WF_vars(Call(c))
    /\ \A w \in Watcher : WF_vars(Watch(w))
    /\ WF_vars(PollerEnds)
    /\ WF_vars(Monitor)
    /\ WF_vars(LoopEnds)

Spec == Init /\ [][Next]_vars /\ Fairness
-----------------------------------------------------------------------------
TypeOK ==
    /\ caller \in [Caller -> {"idle", "start", "stop", "join watcher", "join poller"}]
    /\ lock \in Caller \cup Watcher \cup {None}
    /\ exec \in {"none", "running", "stopping"}
    /\ left \in 0 .. MaxSlow
    /\ watcher \in [Watcher -> {"none", "asleep", "ready", "joining"}]
    /\ watching \in Watcher \cup {None}
    /\ stopEvent \in BOOLEAN /\ registered \in BOOLEAN /\ running \in BOOLEAN
    /\ monitor \in {"watch", "join"}
    /\ fallback \in BOOLEAN
    /\ loops \in 0 .. MaxLoops
    /\ orphans \in 0 .. MaxLoops
    /\ healthy \in BOOLEAN /\ fresh \in BOOLEAN
    /\ slow \in 0 .. MaxSlow
    /\ faults \in 0 .. MaxFaults
    /\ wanted \in {"on", "off"}

\* The engines not told to stop.
Engines == (IF exec = "running" THEN 1 ELSE 0) + (IF running THEN 1 ELSE 0)

\* "Thread-safe - only one instance will run" (execution_thread.py:96): whenever the
\* lock is free, one engine is not told to stop at most; and when no join has timed
\* out, one runs at most.
OneEngine ==
    lock = None =>
        /\ Engines <= 1
        /\ (slow = 0 => exec # "stopping" /\ left = 0)

\* What a stop call has stopped stays stopped until a start call: no watcher that
\* waited for the lock brings an engine back.
OffIsOff == (lock = None /\ wanted = "off") => Engines = 0

\* When no join has timed out, data that come and go leave one fallback thread.
OneFallback == slow = 0 => loops <= 1

Quiet == ~running /\ ~Alive /\ left + loops + orphans = 0

\* After a stop call every thread that executes orders ends.
StopEnds == (wanted = "off") ~> (Quiet \/ wanted = "on")

\* The polling engine is upgraded when the proxy is up again, whichever calls have
\* stopped and started watchers before.
UpgradeHappens ==
    (wanted = "on" /\ healthy) ~> (running \/ ~healthy \/ wanted = "off" \/ faults > 0)

\* With stale data the orders are polled, with fresh data they are not.
FallbackFollowsData ==
    /\ (running /\ ~fresh) ~> ((fallback /\ loops > 0) \/ fresh \/ ~running)
    /\ (running /\ fresh) ~> (loops = 0 \/ ~fresh \/ ~running)
=============================================================================
