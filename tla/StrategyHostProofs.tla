------------------------- MODULE StrategyHostProofs -------------------------
(***************************************************************************)
(* Theorems of StrategyHost for every set of process ids and threads: one  *)
(* process runs, and the stored id is that of the tracked process, unless  *)
(* a stored process was lost.                                              *)
(***************************************************************************)
EXTENDS StrategyHost, FiniteSetTheorems, TLAPS

\* A process that lives is the one in the configuration.
StoredLives == \A p \in Pid : Alive(p) => config.pid = p

\* An id is stored for a strategy that runs and waits for no contracts, and is tracked
\* or waits for a restore.
StoredRuns == config.pid # None =>
                  /\ config.exists /\ config.running /\ ~config.waiting
                  /\ entry.pid = config.pid \/ (entry = NoEntry /\ ~jobs)

\* The stages of a thread that is about to start a process.
Starting == {"start", "resume", "restart"}

\* Who is about to start a process while none is tracked has nothing to displace.
StartersMay == entry = NoEntry =>
                   \A t \in Thread : thread[t] \in Starting => jobs \/ ~Alive(config.pid)

\* What a restore has found is still what is stored.
SeenStored == (entry = NoEntry /\ config.pid # None) =>
                  \A t \in Thread : thread[t] = "adopt" => seen[t] = config.pid

Kept == StoredLives /\ StoredRuns /\ StartersMay /\ SeenStored

\* A thread that is to adopt a process has found one.
Stages == \A t \in Thread : thread[t] = "adopt" => seen[t] # None

IInv == TypeOK /\ Stages /\ (~lost => Kept)

-----------------------------------------------------------------------------
\* What a start changes.
LEMMA SpawnTypes ==
    ASSUME TypeOK, NEW b \in BOOLEAN, Spawn(b)
    PROVE  /\ config' \in Config
           /\ entry' \in [pid : Pid \cup {None}, by : {"none", "Popen", "psutil"}]
           /\ entry'.pid # None
           /\ proc' \in [Pid -> Process]
<1>1. PICK p \in Pid : /\ proc[p] = "free"
                       /\ proc' = [proc EXCEPT ![p] = "child"]
                       /\ entry' = [pid |-> p, by |-> "Popen"]
                       /\ config' = [config EXCEPT !.running = TRUE, !.pid = p,
                                                   !.waiting = FALSE, !.paused = b]
    BY DEF Spawn
<1>2. config' \in Config BY <1>1 DEF TypeOK, Config
<1>3. entry' \in [pid : Pid \cup {None}, by : {"none", "Popen", "psutil"}] BY <1>1
<1>4. entry'.pid # None BY <1>1, HostAssumption
<1>5. proc' \in [Pid -> Process] BY <1>1 DEF TypeOK, Process
<1> QED BY <1>2, <1>3, <1>4, <1>5

LEMMA SpawnKeeps ==
    ASSUME TypeOK, StoredLives, NEW b \in BOOLEAN, Spawn(b), ~Alive(config.pid)
    PROVE  Kept'
<1>1. PICK p \in Pid : /\ proc[p] = "free"
                       /\ proc' = [proc EXCEPT ![p] = "child"]
                       /\ entry' = [pid |-> p, by |-> "Popen"]
                       /\ config' = [config EXCEPT !.running = TRUE, !.pid = p,
                                                   !.waiting = FALSE, !.paused = b]
    BY DEF Spawn
<1>2. config'.pid = p /\ config'.running BY <1>1 DEF TypeOK, Config
<1>3. config'.exists = config.exists /\ ~config'.waiting BY <1>1 DEF TypeOK, Config
<1>4. config.exists BY DEF Spawn, Startable
<1>5. entry'.pid = p /\ entry' # NoEntry BY <1>1, HostAssumption DEF NoEntry
<1>6. \A q \in Pid : Alive(q)' => q = p
    <2>1. TAKE q \in Pid
    <2>2. CASE q = p BY <2>2
    <2>3. CASE q # p
        <3>1. proc'[q] = proc[q] BY <1>1, <2>3 DEF TypeOK
        <3>2. Alive(q)' => Alive(q) BY <3>1 DEF Alive
        <3>3. ~Alive(q) BY DEF StoredLives
        <3> QED BY <3>2, <3>3
    <2> QED BY <2>2, <2>3
<1>7. StoredLives' BY <1>2, <1>6 DEF StoredLives
<1>8. StoredRuns' BY <1>2, <1>3, <1>4, <1>5 DEF StoredRuns
<1>9. StartersMay' /\ SeenStored' BY <1>5 DEF StartersMay, SeenStored
<1> QED BY <1>7, <1>8, <1>9 DEF Kept

\* Nothing stored and nothing alive.
LEMMA NothingKept ==
    ASSUME config'.pid = None, \A p \in Pid : ~Alive(p)'
    PROVE  Kept'
<1>1. StoredLives' BY DEF StoredLives
<1>2. StoredRuns' BY DEF StoredRuns
<1>3. StartersMay' BY DEF StartersMay, Alive
<1>4. SeenStored' BY DEF SeenStored
<1> QED BY <1>1, <1>2, <1>3, <1>4 DEF Kept

\* What a stop changes.
LEMMA StopTypes ==
    ASSUME TypeOK, NEW b \in BOOLEAN, StopProcess(b)
    PROVE  /\ config' \in Config /\ config'.pid = None
           /\ config'.exists = config.exists
           /\ entry' = NoEntry
           /\ proc' \in [Pid -> Process]
<1>1. config' \in Config /\ config'.pid = None /\ config'.exists = config.exists
    BY DEF StopProcess, NotRunning, TypeOK, Config
<1>2. entry' = NoEntry BY DEF StopProcess
<1>3. proc' \in [Pid -> Process]
    <2>1. CASE entry # NoEntry /\ proc' = Terminated(entry.pid)
        BY <2>1 DEF Terminated, TypeOK, Process
    <2>2. CASE proc' = [proc EXCEPT ![config.pid] = "free"]
        BY <2>2 DEF TypeOK, Process
    <2> QED BY <2>1, <2>2 DEF StopProcess
<1> QED BY <1>1, <1>2, <1>3

LEMMA StopKeeps ==
    ASSUME TypeOK, Kept, NEW b \in BOOLEAN, StopProcess(b)
    PROVE  Kept'
<1>1. config'.pid = None BY StopTypes
<1>2. ASSUME NEW q \in Pid, Alive(q)' PROVE FALSE
    <2>1. CASE entry # NoEntry /\ proc' = Terminated(entry.pid)
        <3>1. entry.pid \in Pid BY <2>1 DEF TypeOK
        <3>2. Alive(q) /\ q # entry.pid
            BY <1>2, <2>1, <3>1 DEF Alive, Terminated, TypeOK, Process
        <3>3. config.pid = q /\ config.pid # None
            BY <3>2, HostAssumption DEF Kept, StoredLives
        <3>4. entry.pid = config.pid BY <2>1, <3>3 DEF Kept, StoredRuns
        <3> QED BY <3>2, <3>3, <3>4
    <2>2. CASE Exists(config.pid) /\ proc' = [proc EXCEPT ![config.pid] = "free"]
        <3>1. config.pid \in Pid BY <2>2 DEF TypeOK, Config, Exists
        <3>2. Alive(q) /\ q # config.pid
            BY <1>2, <2>2, <3>1 DEF Alive, TypeOK, Process
        <3> QED BY <3>2 DEF Kept, StoredLives
    <2> QED BY <2>1, <2>2 DEF StopProcess
<1> QED BY <1>1, <1>2, NothingKept

\* A step that leaves the entry and the stored process, and starts none.
LEMMA SameKept ==
    ASSUME Kept,
           entry' = entry,
           jobs' = jobs,
           config'.pid = config.pid,
           config'.exists = config.exists,
           config'.running = config.running,
           config'.waiting => config.waiting \/ config.pid = None,
           \A p \in Pid : proc'[p] \in {"child", "orphan"} => proc[p] \in {"child", "orphan"},
           config.pid \in Pid \cup {None},
           \A t \in Thread : thread'[t] \in Starting =>
               thread[t] \in Starting \/ jobs \/ ~Alive(config.pid),
           \A t \in Thread : thread'[t] = "adopt" =>
               seen'[t] = config.pid \/ (thread[t] = "adopt" /\ seen'[t] = seen[t])
    PROVE  Kept'
<1>1. StoredLives' BY DEF Kept, StoredLives, Alive
<1>2. StoredRuns' BY DEF Kept, StoredRuns
<1>3. StartersMay' BY DEF Kept, StartersMay, Alive
<1>4. SeenStored' BY DEF Kept, SeenStored
<1> QED BY <1>1, <1>2, <1>3, <1>4 DEF Kept

\* What the end of the application leaves.
LEMMA DownTypes ==
    ASSUME NEW ps \in [Pid -> Process], Down(ps)
    PROVE  /\ entry' = NoEntry
           /\ NoEntry \in [pid : Pid \cup {None}, by : {"none", "Popen", "psutil"}]
           /\ proc' \in [Pid -> Process]
           /\ \A p \in Pid : proc'[p] \in {"child", "orphan"} => ps[p] \in {"child", "orphan"}
<1>1. PICK stay \in {"free", "orphan"} :
          proc' = [p \in Pid |-> CASE ps[p] \in {"child", "orphan"} -> stay
                                  [] ps[p] = "zombie" -> "free"
                                  [] OTHER -> ps[p]]
    BY DEF Down
<1>2. \A p \in Pid : /\ proc'[p] \in Process
                     /\ proc'[p] \in {"child", "orphan"} => ps[p] \in {"child", "orphan"}
    <2>1. TAKE p \in Pid
    <2>2. CASE ps[p] \in {"child", "orphan"} BY <1>1, <2>2 DEF Process
    <2>3. CASE ps[p] = "zombie" BY <1>1, <2>3 DEF Process
    <2>4. CASE ps[p] \notin {"child", "orphan", "zombie"} BY <1>1, <2>4
    <2> QED BY <2>2, <2>3, <2>4
<1>3. proc' \in [Pid -> Process] BY <1>1, <1>2
<1>4. entry' = NoEntry BY DEF Down
<1>5. NoEntry \in [pid : Pid \cup {None}, by : {"none", "Popen", "psutil"}] BY DEF NoEntry
<1> QED BY <1>2, <1>3, <1>4, <1>5
\* The type invariant in three parts, one for each kind of variable.
MachineOK == /\ config \in Config
             /\ entry \in [pid : Pid \cup {None}, by : {"none", "Popen", "psutil"}]
             /\ entry = NoEntry \/ entry.pid # None
             /\ proc \in [Pid -> Process]
ThreadsOK == lock \in Thread \cup {None} /\ thread \in [Thread -> Stage] /\ seen \in [Thread -> Pid \cup {None}]
RestOK    == /\ up \in BOOLEAN /\ jobs \in BOOLEAN /\ lost \in BOOLEAN
             /\ site \in {"no broker", "downloading", "ready"}
             /\ calendar \in {"closed", "open"}

\* Every step leaves the configuration, the entry and the processes well typed.
LEMMA MachineStep ==
    ASSUME TypeOK, Stages, [Next]_vars
    PROVE  MachineOK'
<1>1. ASSUME NEW t \in Web, StartRoute(t) PROVE MachineOK'
    BY <1>1 DEF TypeOK, MachineOK, Config, Process, NoEntry, StartRoute, To, outside
<1>2. ASSUME NEW t \in Web, StopRoute(t) PROVE MachineOK'
    <2>1. CASE StopProcess(config.paused)
        <3>1. config.paused \in BOOLEAN BY DEF TypeOK, Config
        <3>2. NoEntry \in [pid : Pid \cup {None}, by : {"none", "Popen", "psutil"}] BY DEF NoEntry
        <3> QED BY <2>1, <3>1, <3>2, StopTypes DEF MachineOK
    <2>2. CASE UNCHANGED machine
        BY <2>2 DEF TypeOK, MachineOK, Config, machine
    <2> QED BY <1>2, <2>1, <2>2 DEF StopRoute, To, outside, machine
<1>3. ASSUME NEW t \in Web, Delete(t) PROVE MachineOK'
    BY <1>3 DEF TypeOK, MachineOK, Config, Process, NoEntry, Delete, To, outside
<1>4. ASSUME NEW t \in Web, Pending(t) PROVE MachineOK'
    BY <1>4 DEF TypeOK, MachineOK, Config, Process, NoEntry, Pending, To, outside
<1>5. ASSUME NEW t \in Thread, Begin(t) PROVE MachineOK'
    <2>1. CASE Spawn(config.paused)
        <3>1. config.paused \in BOOLEAN BY DEF TypeOK, Config
        <3> QED BY <2>1, <3>1, SpawnTypes DEF MachineOK
    <2>2. CASE config' = [config EXCEPT !.paused = config.paused] /\ UNCHANGED <<entry, proc>>
        BY <2>2 DEF TypeOK, MachineOK, Config, NotRunning
    <2> QED BY <1>5, <2>1, <2>2 DEF Begin, To, outside, StartProcess
<1>6. ASSUME NEW t \in Thread, Mark(t) PROVE MachineOK'
    BY <1>6 DEF TypeOK, MachineOK, Config, Process, NoEntry, Mark, To, outside
<1>7. ASSUME NEW t \in Thread, Adopt(t) PROVE MachineOK'
    BY <1>7 DEF TypeOK, Stages, MachineOK, NoEntry, Adopt, Ended, To, outside
<1>8. ASSUME NEW t \in Thread, Restart(t) PROVE MachineOK'
    <2>1. CASE Spawn(config.paused)
        <3>1. config.paused \in BOOLEAN BY DEF TypeOK, Config
        <3> QED BY <2>1, <3>1, SpawnTypes DEF MachineOK
    <2>2. CASE config' = [NotRunning EXCEPT !.waiting = (site # "ready")] /\ UNCHANGED <<entry, proc>>
        BY <2>2 DEF TypeOK, MachineOK, Config, NotRunning
    <2> QED BY <1>8, <2>1, <2>2 DEF Restart, Ended, To, outside, NotRunning
<1>9. ASSUME CronStart PROVE MachineOK'
    BY <1>9 DEF TypeOK, MachineOK, Config, Process, NoEntry, CronStart, To, outside
<1>10. ASSUME CronStop PROVE MachineOK'
    <2>1. CASE StopProcess(config.paused)
        <3>1. config.paused \in BOOLEAN BY DEF TypeOK, Config
        <3>2. NoEntry \in [pid : Pid \cup {None}, by : {"none", "Popen", "psutil"}] BY DEF NoEntry
        <3> QED BY <2>1, <3>1, <3>2, StopTypes DEF MachineOK
    <2> QED BY <1>10, <2>1 DEF CronStop, app, outside
<1>11. ASSUME Enforce PROVE MachineOK'
    BY <1>11 DEF TypeOK, MachineOK, Config, Process, NoEntry, Enforce, To, outside
<1>12. ASSUME Close PROVE MachineOK'
    <2>1. CASE StopProcess(TRUE)
        <3>1. TRUE \in BOOLEAN BY DEF TypeOK, Config
        <3>2. NoEntry \in [pid : Pid \cup {None}, by : {"none", "Popen", "psutil"}] BY DEF NoEntry
        <3> QED BY <2>1, <3>1, <3>2, StopTypes DEF MachineOK
    <2>2. CASE config' = [config EXCEPT !.paused = config.exists] /\ UNCHANGED <<entry, proc>>
        BY <2>2 DEF TypeOK, MachineOK, Config, machine
    <2> QED BY <1>12, <2>1, <2>2 DEF Close, To, outside
<1>13. ASSUME Resume PROVE MachineOK'
    <2>1. CASE Spawn(FALSE)
        <3>1. FALSE \in BOOLEAN BY DEF TypeOK, Config
        <3> QED BY <2>1, <3>1, SpawnTypes DEF MachineOK
    <2>2. CASE config' = [config EXCEPT !.paused = FALSE] /\ UNCHANGED <<entry, proc>>
        BY <2>2 DEF TypeOK, MachineOK, Config, NotRunning
    <2> QED BY <1>13, <2>1, <2>2 DEF Resume, To, outside, StartProcess
<1>14. ASSUME Reap PROVE MachineOK'
    BY <1>14 DEF TypeOK, MachineOK, Config, Process, NoEntry, Reap, app, outside,
       NotRunning, Terminated, EntryDead, FlagStale
<1>15. ASSUME Initialize PROVE MachineOK'
    BY <1>15 DEF TypeOK, MachineOK, Config, Process, NoEntry, Initialize, Wait, Restore,
       Ended, To, NotRunning
<1>16. ASSUME NEW t \in Login, AfterDownload(t) PROVE MachineOK'
    BY <1>16 DEF TypeOK, MachineOK, Config, Process, NoEntry, AfterDownload, Wait,
       Restore, Ended, To, NotRunning, outside
<1>17. ASSUME NEW t \in Login, Pending(t) PROVE MachineOK'
    BY <1>17 DEF TypeOK, MachineOK, Config, Process, NoEntry, Pending, To, outside
<1>18. ASSUME ClearError PROVE MachineOK'
    BY <1>18 DEF TypeOK, MachineOK, Config, Process, NoEntry, ClearError, app, outside
<1>19. ASSUME Exit PROVE MachineOK'
    <2>1. CASE UNCHANGED <<entry, proc>>
        BY <1>19, <2>1 DEF TypeOK, MachineOK, Exit
    <2>2. CASE Down(proc)
        <3>1. config' = config BY <1>19 DEF Exit
        <3> QED BY <2>2, <3>1, DownTypes DEF TypeOK, MachineOK
    <2> QED BY <1>19, <2>1, <2>2 DEF Exit
<1>20. ASSUME Kill PROVE MachineOK'
    <2>1. Down(proc) /\ config' = config BY <1>20 DEF Kill
    <2> QED BY <2>1, DownTypes DEF TypeOK, MachineOK
<1>21. ASSUME KillInStart PROVE MachineOK'
    <2>1. PICK p \in Pid : Down([proc EXCEPT ![p] = "child"]) BY <1>21 DEF KillInStart
    <2>2. [proc EXCEPT ![p] = "child"] \in [Pid -> Process] BY DEF TypeOK, Process
    <2>3. config' = config BY <1>21 DEF KillInStart
    <2> QED BY <2>1, <2>2, <2>3, DownTypes DEF TypeOK, MachineOK
<1>22. ASSUME Boot PROVE MachineOK'
    BY <1>22 DEF TypeOK, MachineOK, Config, Process, NoEntry, Boot, machine, outside
<1>23. ASSUME NEW p \in Pid, ProcessChanges(p) PROVE MachineOK'
    BY <1>23 DEF TypeOK, MachineOK, Config, Process, NoEntry, ProcessChanges, app, outside
<1>24. ASSUME Outside PROVE MachineOK'
    BY <1>24 DEF TypeOK, MachineOK, Config, Process, NoEntry, Outside, machine, app
<1>26. ASSUME NEW t \in Web, Index(t) PROVE MachineOK'
    BY <1>26 DEF TypeOK, MachineOK, Config, Process, NoEntry, Index, To, outside
<1>27. ASSUME NEW t \in Thread, Clear(t) PROVE MachineOK'
    BY <1>27 DEF TypeOK, MachineOK, Config, Process, NoEntry, Clear, NotRunning, To, outside
<1>25. CASE UNCHANGED vars
    BY <1>25 DEF TypeOK, MachineOK, vars, machine
<1> QED
    BY <1>1, <1>2, <1>3, <1>4, <1>5, <1>6, <1>7, <1>8, <1>9, <1>10, <1>11, <1>12, <1>13,
       <1>14, <1>15, <1>16, <1>17, <1>18, <1>19, <1>20, <1>21, <1>22, <1>23, <1>24, <1>25, <1>26, <1>27
       DEF Next, Request, Goes, Thread

\* What a thread that restores has found.
LEMMA RestoreWays ==
    ASSUME TypeOK, NEW t \in Thread, Restore(t)
    PROVE  \/ /\ config.exists /\ config.running /\ config.pid # None
              /\ jobs' = jobs
              /\ \/ /\ Alive(config.pid) /\ seen' = [seen EXCEPT ![t] = config.pid]
                    /\ thread' = [thread EXCEPT ![t] = "adopt"]
                 \/ /\ ~Alive(config.pid) /\ seen' = [seen EXCEPT ![t] = None]
                    /\ thread' = [thread EXCEPT ![t] = "restart"]
           \/ /\ ~(config.exists /\ config.running /\ config.pid # None)
              /\ jobs' = (jobs \/ t = "main") /\ seen' = seen /\ thread' = thread
<1>1. CASE config.exists /\ config.running /\ config.pid # None
    <2>1. CASE Alive(config.pid) BY <1>1, <2>1 DEF Restore, To
    <2>2. CASE ~Alive(config.pid) BY <1>1, <2>2 DEF Restore, To
    <2> QED BY <2>1, <2>2
<1>2. CASE ~(config.exists /\ config.running /\ config.pid # None)
    BY <1>2 DEF Restore, Ended
<1> QED BY <1>1, <1>2

LEMMA RestoreThreads ==
    ASSUME TypeOK, NEW t \in Thread, Restore(t), lock' = lock
    PROVE  ThreadsOK'
<1>1. thread' \in [Thread -> Stage]
    <2>1. \/ thread' = thread
          \/ thread' = [thread EXCEPT ![t] = "adopt"]
          \/ thread' = [thread EXCEPT ![t] = "restart"]
        BY RestoreWays
    <2> QED BY <2>1 DEF TypeOK, Stage
<1>2. seen' \in [Thread -> Pid \cup {None}]
    <2>1. \/ seen' = seen
          \/ seen' = [seen EXCEPT ![t] = config.pid]
          \/ seen' = [seen EXCEPT ![t] = None]
        BY RestoreWays
    <2> QED BY <2>1 DEF TypeOK, Config
<1> QED BY <1>1, <1>2 DEF TypeOK, ThreadsOK

\* Every step leaves the lock and the stages of the threads well typed.
LEMMA ThreadsStep ==
    ASSUME TypeOK, [Next]_vars
    PROVE  ThreadsOK'
<1>1. ASSUME NEW t \in Web, StartRoute(t) PROVE ThreadsOK'
    <2>1. t \in Thread BY DEF Thread
    <2>2. \/ thread' = thread
          \/ thread' = [thread EXCEPT ![t] = "start"]
        BY <1>1 DEF StartRoute, To
    <2>3. thread' \in [Thread -> Stage] BY <2>1, <2>2 DEF TypeOK, Stage
    <2>4. lock' \in {lock, t} /\ seen' = seen BY <1>1 DEF StartRoute
    <2> QED BY <2>1, <2>3, <2>4 DEF TypeOK, ThreadsOK
<1>2. ASSUME NEW t \in Web, StopRoute(t) PROVE ThreadsOK'
    <2>1. t \in Thread BY DEF Thread
    <2>2. \/ thread' = thread
          \/ thread' = [thread EXCEPT ![t] = "mark"]
        BY <1>2 DEF StopRoute, To
    <2>3. thread' \in [Thread -> Stage] BY <2>1, <2>2 DEF TypeOK, Stage
    <2>4. lock' \in {lock, t} /\ seen' = seen BY <1>2 DEF StopRoute
    <2> QED BY <2>1, <2>3, <2>4 DEF TypeOK, ThreadsOK
<1>3. ASSUME NEW t \in Web, Delete(t) PROVE ThreadsOK'
    <2>1. t \in Thread BY DEF Thread
    <2>2. \/ thread' = thread
          \/ thread' = [thread EXCEPT ![t] = "delete"]
        BY <1>3 DEF Delete, To
    <2>3. thread' \in [Thread -> Stage] BY <2>1, <2>2 DEF TypeOK, Stage
    <2>4. lock' \in {lock, t} /\ seen' = seen BY <1>3 DEF Delete
    <2> QED BY <2>1, <2>3, <2>4 DEF TypeOK, ThreadsOK
<1>4. ASSUME NEW t \in Web, Pending(t) PROVE ThreadsOK'
    BY <1>4, HostAssumption DEF TypeOK, ThreadsOK, Stage, Thread, Config, Pending, To, outside
<1>5. ASSUME NEW t \in Thread, Begin(t) PROVE ThreadsOK'
    BY <1>5, HostAssumption DEF TypeOK, ThreadsOK, Stage, Thread, Config, Begin, To,
       outside, StartProcess
<1>6. ASSUME NEW t \in Thread, Mark(t) PROVE ThreadsOK'
    BY <1>6, HostAssumption DEF TypeOK, ThreadsOK, Stage, Thread, Config, Mark, To, outside
<1>7. ASSUME NEW t \in Thread, Adopt(t) PROVE ThreadsOK'
    BY <1>7, HostAssumption DEF TypeOK, ThreadsOK, Stage, Thread, Config, Adopt, Ended, To, outside
<1>8. ASSUME NEW t \in Thread, Restart(t) PROVE ThreadsOK'
    BY <1>8, HostAssumption DEF TypeOK, ThreadsOK, Stage, Thread, Config, Restart, Ended, To,
       outside, NotRunning
<1>9. ASSUME CronStart PROVE ThreadsOK'
    BY <1>9, HostAssumption DEF TypeOK, ThreadsOK, Stage, Thread, Config, CronStart, To, outside
<1>10. ASSUME CronStop PROVE ThreadsOK'
    BY <1>10, HostAssumption DEF TypeOK, ThreadsOK, Stage, Thread, Config, CronStop, app,
       outside
<1>11. ASSUME Enforce PROVE ThreadsOK'
    BY <1>11, HostAssumption, ZenonT(60)
    DEF TypeOK, ThreadsOK, Stage, Thread, Config, Enforce, To, outside
<1>12. ASSUME Close PROVE ThreadsOK'
    BY <1>12, HostAssumption DEF TypeOK, ThreadsOK, Stage, Thread, Config, Close, To, outside
<1>13. ASSUME Resume PROVE ThreadsOK'
    BY <1>13, HostAssumption DEF TypeOK, ThreadsOK, Stage, Thread, Config, Resume, To,
       outside, StartProcess
<1>14. ASSUME Reap PROVE ThreadsOK'
    BY <1>14, HostAssumption DEF TypeOK, ThreadsOK, Stage, Thread, Config, Reap, app,
       outside, NotRunning, Terminated, EntryDead, FlagStale
<1>15. ASSUME Initialize PROVE ThreadsOK'
    <2>1. "main" \in Thread BY DEF Thread
    <2>2. lock' = lock BY <1>15 DEF Initialize
    <2>3. CASE thread' = thread /\ seen' = seen BY <2>2, <2>3 DEF TypeOK, ThreadsOK
    <2>4. CASE Restore("main") BY <2>1, <2>2, <2>4, RestoreThreads
    <2> QED BY <1>15, <2>3, <2>4 DEF Initialize, Wait
<1>16. ASSUME NEW t \in Login, AfterDownload(t) PROVE ThreadsOK'
    <2>1. t \in Thread BY DEF Thread
    <2>2. lock' = lock BY <1>16 DEF AfterDownload
    <2>3. CASE thread' = thread /\ seen' = seen BY <2>2, <2>3 DEF TypeOK, ThreadsOK
    <2>4. CASE Restore(t) BY <2>1, <2>2, <2>4, RestoreThreads
    <2> QED BY <1>16, <2>3, <2>4 DEF AfterDownload, Wait
<1>17. ASSUME NEW t \in Login, Pending(t) PROVE ThreadsOK'
    BY <1>17, HostAssumption DEF TypeOK, ThreadsOK, Stage, Thread, Config, Pending, To, outside
<1>18. ASSUME ClearError PROVE ThreadsOK'
    BY <1>18, HostAssumption DEF TypeOK, ThreadsOK, Stage, Thread, Config, ClearError, app,
       outside
<1>19. ASSUME Exit PROVE ThreadsOK'
    <2>1. CASE Down(proc) BY <2>1 DEF ThreadsOK, Stage, Down
    <2>2. CASE lock' = "main" /\ thread' = [thread EXCEPT !["main"] = "exit"] /\ seen' = seen
        BY <2>2 DEF TypeOK, ThreadsOK, Stage, Thread
    <2> QED BY <1>19, <2>1, <2>2 DEF Exit, To
<1>20. ASSUME Kill PROVE ThreadsOK'
    BY <1>20, HostAssumption DEF TypeOK, ThreadsOK, Stage, Thread, Config, Kill, Down, outside
<1>21. ASSUME KillInStart PROVE ThreadsOK'
    BY <1>21, HostAssumption, ZenonT(60)
    DEF TypeOK, ThreadsOK, Stage, Thread, Config, KillInStart,
       Down, outside
<1>22. ASSUME Boot PROVE ThreadsOK'
    BY <1>22, HostAssumption DEF TypeOK, ThreadsOK, Stage, Thread, Config, Boot, machine,
       outside
<1>23. ASSUME NEW p \in Pid, ProcessChanges(p) PROVE ThreadsOK'
    BY <1>23, HostAssumption DEF TypeOK, ThreadsOK, Stage, Thread, Config, ProcessChanges,
       app, outside
<1>24. ASSUME Outside PROVE ThreadsOK'
    BY <1>24, HostAssumption DEF TypeOK, ThreadsOK, Stage, Thread, Config, Outside, machine, app
<1>26. ASSUME NEW t \in Web, Index(t) PROVE ThreadsOK'
    <2>1. t \in Thread BY DEF Thread
    <2>2. thread' = thread \/ thread' = [thread EXCEPT ![t] = "clear"] BY <1>26 DEF Index, To
    <2>3. thread' \in [Thread -> Stage] BY <2>1, <2>2 DEF TypeOK, Stage
    <2>4. lock' = lock /\ seen' = seen BY <1>26 DEF Index
    <2> QED BY <2>3, <2>4 DEF TypeOK, ThreadsOK
<1>27. ASSUME NEW t \in Thread, Clear(t) PROVE ThreadsOK'
    BY <1>27, HostAssumption DEF TypeOK, ThreadsOK, Stage, Thread, Clear, To, outside
<1>25. CASE UNCHANGED vars
    BY <1>25 DEF TypeOK, ThreadsOK, vars, app
<1> QED
    BY <1>1, <1>2, <1>3, <1>4, <1>5, <1>6, <1>7, <1>8, <1>9, <1>10, <1>11, <1>12, <1>13,
       <1>14, <1>15, <1>16, <1>17, <1>18, <1>19, <1>20, <1>21, <1>22, <1>23, <1>24, <1>25, <1>26, <1>27
       DEF Next, Request, Goes, Thread

\* Every step leaves the flags and the outside well typed.
LEMMA RestStep ==
    ASSUME TypeOK, [Next]_vars
    PROVE  RestOK'
<1>1. ASSUME NEW t \in Web, StartRoute(t) PROVE RestOK'
    BY <1>1 DEF TypeOK, RestOK, StartRoute, To, outside
<1>2. ASSUME NEW t \in Web, StopRoute(t) PROVE RestOK'
    BY <1>2 DEF TypeOK, RestOK, StopRoute, To, outside, machine
<1>3. ASSUME NEW t \in Web, Delete(t) PROVE RestOK'
    BY <1>3 DEF TypeOK, RestOK, Delete, To, outside
<1>4. ASSUME NEW t \in Web, Pending(t) PROVE RestOK'
    BY <1>4 DEF TypeOK, RestOK, Pending, To, outside
<1>5. ASSUME NEW t \in Thread, Begin(t) PROVE RestOK'
    BY <1>5 DEF TypeOK, RestOK, Begin, To, outside, StartProcess
<1>6. ASSUME NEW t \in Thread, Mark(t) PROVE RestOK'
    BY <1>6 DEF TypeOK, RestOK, Mark, To, outside
<1>7. ASSUME NEW t \in Thread, Adopt(t) PROVE RestOK'
    BY <1>7 DEF TypeOK, RestOK, Adopt, Ended, To, outside
<1>8. ASSUME NEW t \in Thread, Restart(t) PROVE RestOK'
    BY <1>8 DEF TypeOK, RestOK, Restart, Ended, To, outside, NotRunning
<1>9. ASSUME CronStart PROVE RestOK'
    BY <1>9 DEF TypeOK, RestOK, CronStart, To, outside
<1>10. ASSUME CronStop PROVE RestOK'
    BY <1>10 DEF TypeOK, RestOK, CronStop, app, outside
<1>11. ASSUME Enforce PROVE RestOK'
    BY <1>11 DEF TypeOK, RestOK, Enforce, To, outside
<1>12. ASSUME Close PROVE RestOK'
    BY <1>12 DEF TypeOK, RestOK, Close, To, outside
<1>13. ASSUME Resume PROVE RestOK'
    BY <1>13 DEF TypeOK, RestOK, Resume, To, outside, StartProcess
<1>14. ASSUME Reap PROVE RestOK'
    BY <1>14 DEF TypeOK, RestOK, Reap, app, outside, NotRunning, Terminated, EntryDead,
       FlagStale
<1>15. ASSUME Initialize PROVE RestOK'
    <2>1. jobs' \in BOOLEAN BY <1>15 DEF TypeOK, Initialize, Wait, Restore, Ended
    <2>2. lost' \in BOOLEAN
        <3>1. lost \in BOOLEAN BY DEF TypeOK
        <3> QED BY <1>15, <3>1, Zenon DEF Initialize, Wait
    <2>3. UNCHANGED <<up, site, calendar>> BY <1>15 DEF Initialize, outside
    <2> QED BY <2>1, <2>2, <2>3 DEF TypeOK, RestOK
<1>16. ASSUME NEW t \in Login, AfterDownload(t) PROVE RestOK'
    <2>1. jobs' \in BOOLEAN BY <1>16 DEF TypeOK, AfterDownload, Wait, Restore, Ended
    <2>2. lost' \in BOOLEAN
        <3>1. lost \in BOOLEAN BY DEF TypeOK
        <3> QED BY <1>16, <3>1, Zenon DEF AfterDownload, Wait
    <2>3. UNCHANGED <<up, site, calendar>> BY <1>16 DEF AfterDownload, outside
    <2> QED BY <2>1, <2>2, <2>3 DEF TypeOK, RestOK
<1>17. ASSUME NEW t \in Login, Pending(t) PROVE RestOK'
    BY <1>17 DEF TypeOK, RestOK, Pending, To, outside
<1>18. ASSUME ClearError PROVE RestOK'
    BY <1>18 DEF TypeOK, RestOK, ClearError, app, outside
<1>19. ASSUME Exit PROVE RestOK'
    BY <1>19 DEF TypeOK, RestOK, Exit, Down, To, outside
<1>20. ASSUME Kill PROVE RestOK'
    BY <1>20 DEF TypeOK, RestOK, Kill, Down, outside
<1>21. ASSUME KillInStart PROVE RestOK'
    BY <1>21 DEF TypeOK, RestOK, KillInStart, Down, outside
<1>22. ASSUME Boot PROVE RestOK'
    BY <1>22 DEF TypeOK, RestOK, Boot, machine, outside
<1>23. ASSUME NEW p \in Pid, ProcessChanges(p) PROVE RestOK'
    BY <1>23 DEF TypeOK, RestOK, ProcessChanges, app, outside
<1>24. ASSUME Outside PROVE RestOK'
    BY <1>24 DEF TypeOK, RestOK, Outside, machine, app
<1>26. ASSUME NEW t \in Web, Index(t) PROVE RestOK'
    BY <1>26 DEF TypeOK, RestOK, Index, To, outside
<1>27. ASSUME NEW t \in Thread, Clear(t) PROVE RestOK'
    BY <1>27 DEF TypeOK, RestOK, Clear, To, outside
<1>25. CASE UNCHANGED vars
    BY <1>25 DEF TypeOK, RestOK, vars, app, outside
<1> QED
    BY <1>1, <1>2, <1>3, <1>4, <1>5, <1>6, <1>7, <1>8, <1>9, <1>10, <1>11, <1>12, <1>13,
       <1>14, <1>15, <1>16, <1>17, <1>18, <1>19, <1>20, <1>21, <1>22, <1>23, <1>24, <1>25, <1>26, <1>27
       DEF Next, Request, Goes, Thread

\* While nothing is lost and no entry is there, an id is stored only before the jobs.
LEMMA NoneStored ==
    ASSUME TypeOK, StoredRuns, entry = NoEntry, jobs
    PROVE  config.pid = None
BY DEF StoredRuns, NoEntry

\* Nobody lives when the stored process does not.
LEMMA NobodyLives ==
    ASSUME StoredLives, ~Alive(config.pid)
    PROVE  \A p \in Pid : ~Alive(p)
BY DEF StoredLives

LEMMA DownKeeps ==
    ASSUME TypeOK, Kept, NEW ps \in [Pid -> Process], Down(ps), config' = config,
           \A p \in Pid : ps[p] \in {"child", "orphan"} => proc[p] \in {"child", "orphan"}
    PROVE  Kept'
<1>1. entry' = NoEntry /\ jobs' = FALSE /\ thread' = [t \in Thread |-> "idle"]
    BY DEF Down
<1>2. \A p \in Pid : proc'[p] \in {"child", "orphan"} => proc[p] \in {"child", "orphan"}
    BY DownTypes
<1>3. StoredLives' BY <1>2 DEF Kept, StoredLives, Alive
<1>4. StoredRuns' BY <1>1 DEF Kept, StoredRuns
<1>5. StartersMay' BY <1>1 DEF StartersMay, Starting
<1>6. SeenStored' BY <1>1 DEF SeenStored, Thread
<1> QED BY <1>3, <1>4, <1>5, <1>6 DEF Kept

\* A restore that finds contracts keeps what is stored.
LEMMA RestoreKeeps ==
    ASSUME TypeOK, Kept, NEW t \in Thread, Restore(t), UNCHANGED <<entry, proc, config>>
    PROVE  Kept'
<1>1. CASE ~(config.exists /\ config.running /\ config.pid # None)
    <2>1. config.pid = None BY <1>1 DEF Kept, StoredRuns
    <2>2. \A p \in Pid : ~Alive(p) BY <2>1, NobodyLives DEF Kept, Alive
    <2>3. \A p \in Pid : ~Alive(p)' BY <2>2 DEF Alive
    <2> QED BY <2>1, <2>3, NothingKept
<1>2. CASE /\ jobs' = jobs /\ seen' = [seen EXCEPT ![t] = config.pid]
           /\ thread' = [thread EXCEPT ![t] = "adopt"]
    <2>1. \A q \in Thread : thread'[q] \in Starting => thread[q] \in Starting
        BY <1>2 DEF TypeOK, Starting
    <2>2. \A q \in Thread : thread'[q] = "adopt" =>
              seen'[q] = config.pid \/ (thread[q] = "adopt" /\ seen'[q] = seen[q])
        BY <1>2 DEF TypeOK
    <2>3. config.pid \in Pid \cup {None} BY DEF TypeOK, Config
    <2> QED BY <1>2, <2>1, <2>2, <2>3, SameKept
<1>3. CASE /\ jobs' = jobs /\ ~Alive(config.pid) /\ seen' = [seen EXCEPT ![t] = None]
           /\ thread' = [thread EXCEPT ![t] = "restart"]
    <2>1. \A q \in Thread : thread'[q] = "adopt" =>
              seen'[q] = config.pid \/ (thread[q] = "adopt" /\ seen'[q] = seen[q])
        BY <1>3 DEF TypeOK
    <2>2. config.pid \in Pid \cup {None} BY DEF TypeOK, Config
    <2> QED BY <1>3, <2>1, <2>2, SameKept
<1> QED BY <1>1, <1>2, <1>3, RestoreWays

\* One that finds none forgets the stored process, which is lost unless it is dead.
LEMMA WaitKeeps ==
    ASSUME TypeOK, Kept, NEW t \in Thread, Wait(t), ~lost', UNCHANGED <<entry, proc>>
    PROVE  Kept'
<1>1. ~Alive(config.pid) BY DEF Wait
<1>2. \A p \in Pid : ~Alive(p) BY <1>1, NobodyLives DEF Kept
<1>3. \A p \in Pid : ~Alive(p)' BY <1>2 DEF Alive
<1>4. config'.pid = None
    <2>1. CASE config.running BY <2>1 DEF Wait, NotRunning, TypeOK, Config
    <2>2. CASE ~config.running BY <2>2 DEF Wait, Kept, StoredRuns
    <2> QED BY <2>1, <2>2
<1> QED BY <1>3, <1>4, NothingKept

\* A thread that goes to a stage, with a process found when that is to be adopted.
LEMMA StagesMoved ==
    ASSUME TypeOK, Stages, NEW t \in Thread, NEW stage,
           thread' = [thread EXCEPT ![t] = stage],
           stage = "adopt" => seen'[t] # None,
           \A q \in Thread : q # t => seen'[q] = seen[q]
    PROVE  Stages'
BY DEF TypeOK, Stages

\* A restore adopts what it has found.
LEMMA RestoreStages ==
    ASSUME TypeOK, Stages, NEW t \in Thread, Restore(t)
    PROVE  Stages'
<1>1. CASE thread' = thread /\ seen' = seen BY <1>1 DEF Stages
<1>2. CASE /\ config.pid # None /\ seen' = [seen EXCEPT ![t] = config.pid]
           /\ thread' = [thread EXCEPT ![t] = "adopt"]
    <2>1. seen'[t] # None /\ \A q \in Thread : q # t => seen'[q] = seen[q]
        BY <1>2 DEF TypeOK
    <2> QED BY <1>2, <2>1, StagesMoved
<1>3. CASE /\ seen' = [seen EXCEPT ![t] = None]
           /\ thread' = [thread EXCEPT ![t] = "restart"]
    <2>1. \A q \in Thread : q # t => seen'[q] = seen[q] BY <1>3 DEF TypeOK
    <2> QED BY <1>3, <2>1, StagesMoved
<1> QED BY <1>1, <1>2, <1>3, RestoreWays

\* Every step leaves a thread that adopts with a process to adopt.
LEMMA StagesStep ==
    ASSUME TypeOK, Stages, [Next]_vars
    PROVE  Stages'
<1>1. ASSUME NEW t \in Web, StartRoute(t) PROVE Stages'
    BY <1>1, HostAssumption DEF TypeOK, Stages, Stage, Thread, StartRoute, To, outside
<1>2. ASSUME NEW t \in Web, StopRoute(t) PROVE Stages'
    BY <1>2, HostAssumption, ZenonT(60)
    DEF TypeOK, Stages, Stage, Thread, StopRoute, To, outside, machine
<1>3. ASSUME NEW t \in Web, Delete(t) PROVE Stages'
    BY <1>3, HostAssumption, ZenonT(60) DEF TypeOK, Stages, Stage, Thread, Delete, To, outside
<1>4. ASSUME NEW t \in Web, Pending(t) PROVE Stages'
    BY <1>4, HostAssumption DEF TypeOK, Stages, Stage, Thread, Pending, To, outside
<1>5. ASSUME NEW t \in Thread, Begin(t) PROVE Stages'
    BY <1>5, HostAssumption DEF TypeOK, Stages, Stage, Thread, Begin, To, outside, StartProcess
<1>6. ASSUME NEW t \in Thread, Mark(t) PROVE Stages'
    BY <1>6, HostAssumption DEF TypeOK, Stages, Stage, Thread, Mark, To, outside
<1>7. ASSUME NEW t \in Thread, Adopt(t) PROVE Stages'
    BY <1>7, HostAssumption DEF TypeOK, Stages, Stage, Thread, Adopt, Ended, To, outside
<1>8. ASSUME NEW t \in Thread, Restart(t) PROVE Stages'
    BY <1>8, HostAssumption DEF TypeOK, Stages, Stage, Thread, Restart, Ended, To, outside, NotRunning
<1>9. ASSUME CronStart PROVE Stages'
    BY <1>9, HostAssumption DEF TypeOK, Stages, Stage, Thread, CronStart, To, outside
<1>10. ASSUME CronStop PROVE Stages'
    BY <1>10, HostAssumption DEF TypeOK, Stages, Stage, Thread, CronStop, app, outside
<1>11. ASSUME Enforce PROVE Stages'
    BY <1>11, HostAssumption, ZenonT(60)
    DEF TypeOK, Stages, Stage, Thread, Enforce, To, outside
<1>12. ASSUME Close PROVE Stages'
    BY <1>12, HostAssumption DEF TypeOK, Stages, Stage, Thread, Close, To, outside
<1>13. ASSUME Resume PROVE Stages'
    BY <1>13, HostAssumption DEF TypeOK, Stages, Stage, Thread, Resume, To, outside,
       StartProcess
<1>14. ASSUME Reap PROVE Stages'
    BY <1>14, HostAssumption DEF TypeOK, Stages, Stage, Thread, Reap, app, outside,
       NotRunning, Terminated, EntryDead, FlagStale
<1>15. ASSUME Initialize PROVE Stages'
    <2>1. "main" \in Thread BY DEF Thread
    <2>2. CASE thread' = thread /\ seen' = seen BY <2>2 DEF Stages
    <2>3. CASE Restore("main") BY <2>1, <2>3, RestoreStages
    <2> QED BY <1>15, <2>2, <2>3 DEF Initialize, Wait
<1>16. ASSUME NEW t \in Login, AfterDownload(t) PROVE Stages'
    <2>1. t \in Thread BY DEF Thread
    <2>2. CASE thread' = thread /\ seen' = seen BY <2>2 DEF Stages
    <2>3. CASE Restore(t) BY <2>1, <2>3, RestoreStages
    <2> QED BY <1>16, <2>2, <2>3 DEF AfterDownload, Wait
<1>17. ASSUME NEW t \in Login, Pending(t) PROVE Stages'
    BY <1>17, HostAssumption DEF TypeOK, Stages, Stage, Thread, Pending, To, outside
<1>18. ASSUME ClearError PROVE Stages'
    BY <1>18, HostAssumption DEF TypeOK, Stages, Stage, Thread, ClearError, app, outside
<1>19. ASSUME Exit PROVE Stages'
    BY <1>19, HostAssumption DEF TypeOK, Stages, Stage, Thread, Exit, Down, To, outside
<1>20. ASSUME Kill PROVE Stages'
    BY <1>20, HostAssumption DEF TypeOK, Stages, Stage, Thread, Kill, Down, outside
<1>21. ASSUME KillInStart PROVE Stages'
    BY <1>21, HostAssumption DEF TypeOK, Stages, Stage, Thread, KillInStart, Down, outside
<1>22. ASSUME Boot PROVE Stages'
    BY <1>22, HostAssumption DEF TypeOK, Stages, Stage, Thread, Boot, machine, outside
<1>23. ASSUME NEW p \in Pid, ProcessChanges(p) PROVE Stages'
    BY <1>23, HostAssumption DEF TypeOK, Stages, Stage, Thread, ProcessChanges, app, outside
<1>24. ASSUME Outside PROVE Stages'
    BY <1>24, HostAssumption DEF TypeOK, Stages, Stage, Thread, Outside, machine, app
<1>26. ASSUME NEW t \in Web, Index(t) PROVE Stages'
    BY <1>26, HostAssumption DEF TypeOK, Stages, Stage, Thread, Index, To, outside
<1>27. ASSUME NEW t \in Thread, Clear(t) PROVE Stages'
    BY <1>27, HostAssumption DEF TypeOK, Stages, Stage, Thread, Clear, To, outside
<1>25. CASE UNCHANGED vars
    BY <1>25 DEF Stages, vars, app
<1> QED
    BY <1>1, <1>2, <1>3, <1>4, <1>5, <1>6, <1>7, <1>8, <1>9, <1>10, <1>11, <1>12, <1>13,
       <1>14, <1>15, <1>16, <1>17, <1>18, <1>19, <1>20, <1>21, <1>22, <1>23, <1>24, <1>25, <1>26, <1>27
       DEF Next, Request, Goes, Thread

\* What is lost stays lost.
LEMMA LostStays ==
    ASSUME TypeOK, [Next]_vars
    PROVE  lost => lost'
<1>1. ASSUME NEW t \in Web, StartRoute(t) PROVE lost => lost'
    BY <1>1 DEF StartRoute, To, outside
<1>2. ASSUME NEW t \in Web, StopRoute(t) PROVE lost => lost'
    BY <1>2 DEF StopRoute, To, outside, machine
<1>3. ASSUME NEW t \in Web, Delete(t) PROVE lost => lost'
    BY <1>3 DEF Delete, To, outside
<1>4. ASSUME NEW t \in Web, Pending(t) PROVE lost => lost'
    BY <1>4 DEF Pending, To, outside
<1>5. ASSUME NEW t \in Thread, Begin(t) PROVE lost => lost'
    BY <1>5 DEF Begin, To, outside, StartProcess
<1>6. ASSUME NEW t \in Thread, Mark(t) PROVE lost => lost'
    BY <1>6 DEF Mark, To, outside
<1>7. ASSUME NEW t \in Thread, Adopt(t) PROVE lost => lost'
    BY <1>7 DEF Adopt, Ended, To, outside
<1>8. ASSUME NEW t \in Thread, Restart(t) PROVE lost => lost'
    BY <1>8 DEF Restart, Ended, To, outside, NotRunning
<1>9. ASSUME CronStart PROVE lost => lost'
    BY <1>9 DEF CronStart, To, outside
<1>10. ASSUME CronStop PROVE lost => lost'
    BY <1>10 DEF CronStop, app, outside
<1>11. ASSUME Enforce PROVE lost => lost'
    BY <1>11 DEF Enforce, To, outside
<1>12. ASSUME Close PROVE lost => lost'
    BY <1>12 DEF Close, To, outside
<1>13. ASSUME Resume PROVE lost => lost'
    BY <1>13 DEF Resume, To, outside, StartProcess
<1>14. ASSUME Reap PROVE lost => lost'
    BY <1>14 DEF Reap, app, outside, NotRunning, Terminated, EntryDead, FlagStale
<1>15. ASSUME Initialize PROVE lost => lost'
    BY <1>15 DEF Initialize, Wait, Restore, Ended, To, NotRunning
<1>16. ASSUME NEW t \in Login, AfterDownload(t) PROVE lost => lost'
    BY <1>16 DEF AfterDownload, Wait, Restore, Ended, To, NotRunning, outside
<1>17. ASSUME NEW t \in Login, Pending(t) PROVE lost => lost'
    BY <1>17 DEF Pending, To, outside
<1>18. ASSUME ClearError PROVE lost => lost'
    BY <1>18 DEF ClearError, app, outside
<1>19. ASSUME Exit PROVE lost => lost'
    BY <1>19 DEF Exit, Down, To, outside
<1>20. ASSUME Kill PROVE lost => lost'
    BY <1>20 DEF Kill, Down, outside
<1>21. ASSUME KillInStart PROVE lost => lost'
    BY <1>21 DEF KillInStart, Down, outside
<1>22. ASSUME Boot PROVE lost => lost'
    BY <1>22 DEF Boot, machine, outside
<1>23. ASSUME NEW p \in Pid, ProcessChanges(p) PROVE lost => lost'
    BY <1>23 DEF ProcessChanges, app, outside
<1>24. ASSUME Outside PROVE lost => lost'
    BY <1>24 DEF Outside, machine, app
<1>26. ASSUME NEW t \in Web, Index(t) PROVE lost => lost'
    BY <1>26 DEF Index, To, outside
<1>27. ASSUME NEW t \in Thread, Clear(t) PROVE lost => lost'
    BY <1>27 DEF Clear, To, outside
<1>25. CASE UNCHANGED vars
    BY <1>25 DEF vars
<1> QED
    BY <1>1, <1>2, <1>3, <1>4, <1>5, <1>6, <1>7, <1>8, <1>9, <1>10, <1>11, <1>12, <1>13,
       <1>14, <1>15, <1>16, <1>17, <1>18, <1>19, <1>20, <1>21, <1>22, <1>23, <1>24, <1>25, <1>26, <1>27
       DEF Next, Request, Goes, Thread

\* A step that loses nothing leaves every living process stored, and every stored one
\* tracked or waiting for the restore.
LEMMA KeptStep ==
    ASSUME TypeOK, Stages, Kept, ~lost', [Next]_vars
    PROVE  Kept'
<1>1. ASSUME NEW t \in Web, StartRoute(t) PROVE Kept'
    <2>1. entry' = entry /\ jobs' = jobs BY <1>1 DEF StartRoute, To, outside
    <2>2. /\ config'.pid = config.pid
          /\ config'.exists = config.exists
          /\ config'.running = config.running
          /\ config'.waiting => config.waiting \/ config.pid = None
        BY <1>1 DEF TypeOK, Config, StartRoute, To, outside
    <2>3. \A q \in Pid : proc'[q] \in {"child", "orphan"} => proc[q] \in {"child", "orphan"}
        BY <1>1 DEF TypeOK, StartRoute, To, outside
    <2>4. \A q \in Thread : thread'[q] \in Starting =>
              thread[q] \in Starting \/ jobs \/ ~Alive(config.pid)
        BY <1>1 DEF TypeOK, Starting, StartRoute, To, outside
    <2>5. \A q \in Thread : thread'[q] = "adopt" =>
              seen'[q] = config.pid \/ (thread[q] = "adopt" /\ seen'[q] = seen[q])
        BY <1>1, HostAssumption DEF TypeOK, Stages, Thread, StartRoute, To, outside
    <2>6. config.pid \in Pid \cup {None} BY DEF TypeOK, Config
    <2> QED BY <2>1, <2>2, <2>3, <2>4, <2>5, <2>6, SameKept
<1>2. ASSUME NEW t \in Web, StopRoute(t) PROVE Kept'
    <2>1. CASE StopProcess(config.paused)
        <3>0. config.paused \in BOOLEAN BY DEF TypeOK, Config
        <3> QED BY <2>1, <3>0, StopKeeps
    <2>2. CASE UNCHANGED machine
        <3>1. entry' = entry /\ jobs' = jobs BY <1>2, <2>2 DEF StopRoute, To, outside, machine
        <3>2. /\ config'.pid = config.pid
              /\ config'.exists = config.exists
              /\ config'.running = config.running
              /\ config'.waiting => config.waiting \/ config.pid = None
            BY <1>2, <2>2 DEF TypeOK, Config, StopRoute, To, outside, machine
        <3>3. proc' = proc BY <1>2, <2>2 DEF StopRoute, To, outside, machine
        <3>4. \A q \in Thread : thread'[q] \in Starting =>
                  thread[q] \in Starting
            BY <1>2, <2>2 DEF TypeOK, Starting, Thread, StopRoute, To, outside, machine
        <3>5. \A q \in Thread : thread'[q] = "adopt" =>
                  thread[q] = "adopt" /\ seen' = seen
            BY <1>2, <2>2, HostAssumption DEF TypeOK, Thread, StopRoute, To, outside, machine
        <3>6. config.pid \in Pid \cup {None} BY DEF TypeOK, Config
        <3> QED BY <3>1, <3>2, <3>3, <3>4, <3>5, <3>6, SameKept
    <2> QED BY <1>2, <2>1, <2>2 DEF StopRoute
<1>3. ASSUME NEW t \in Web, Delete(t) PROVE Kept'
    <2>1. CASE UNCHANGED config
        <3>1. entry' = entry /\ jobs' = jobs BY <1>3, <2>1 DEF Delete, To, outside
        <3>2. /\ config'.pid = config.pid
              /\ config'.exists = config.exists
              /\ config'.running = config.running
              /\ config'.waiting => config.waiting \/ config.pid = None
            BY <1>3, <2>1 DEF TypeOK, Config, Delete, To, outside
        <3>3. proc' = proc BY <1>3, <2>1 DEF Delete, To, outside
        <3>4. \A q \in Thread : thread'[q] \in Starting =>
                  thread[q] \in Starting
            BY <1>3, <2>1 DEF TypeOK, Starting, Thread, Delete, To, outside
        <3>5. \A q \in Thread : thread'[q] = "adopt" =>
                  thread[q] = "adopt" /\ seen' = seen
            BY <1>3, <2>1, HostAssumption DEF TypeOK, Thread, Delete, To, outside
        <3>6. config.pid \in Pid \cup {None} BY DEF TypeOK, Config
        <3> QED BY <3>1, <3>2, <3>3, <3>4, <3>5, <3>6, SameKept
    <2>2. CASE ~config.running /\ config' = [config EXCEPT !.exists = FALSE]
        <3>1. config.pid = None BY <2>2 DEF Kept, StoredRuns
        <3>2. config'.pid = None BY <2>2, <3>1 DEF TypeOK, Config
        <3>3. proc' = proc BY <1>3 DEF Delete
        <3>4. \A p \in Pid : ~Alive(p) BY <3>1, NobodyLives DEF Kept, Alive
        <3>5. \A p \in Pid : ~Alive(p)' BY <3>3, <3>4 DEF Alive
        <3> QED BY <3>2, <3>5, NothingKept
    <2> QED BY <1>3, <2>1, <2>2 DEF Delete
<1>4. ASSUME NEW t \in Web, Pending(t) PROVE Kept'
    <2>1. entry' = entry /\ jobs' = jobs BY <1>4 DEF Pending, To, outside
    <2>2. /\ config'.pid = config.pid
          /\ config'.exists = config.exists
          /\ config'.running = config.running
          /\ config'.waiting => config.waiting \/ config.pid = None
        BY <1>4 DEF TypeOK, Config, Pending, To, outside
    <2>3. \A q \in Pid : proc'[q] \in {"child", "orphan"} => proc[q] \in {"child", "orphan"}
        BY <1>4 DEF TypeOK, Pending, To, outside
    <2>4. \A q \in Thread : thread'[q] \in Starting =>
              thread[q] \in Starting \/ jobs \/ ~Alive(config.pid)
        <3>1. config.pid = None BY <1>4 DEF Kept, StoredRuns, Pending
        <3> QED BY <3>1 DEF Alive
<2>5. \A q \in Thread : thread'[q] = "adopt" =>
              seen'[q] = config.pid \/ (thread[q] = "adopt" /\ seen'[q] = seen[q])
        BY <1>4, HostAssumption DEF TypeOK, Stages, Thread, Pending, To, outside
    <2>6. config.pid \in Pid \cup {None} BY DEF TypeOK, Config
    <2> QED BY <2>1, <2>2, <2>3, <2>4, <2>5, <2>6, SameKept
<1>5. ASSUME NEW t \in Thread, Begin(t) PROVE Kept'
    <2>1. CASE Spawn(config.paused)
        <3>0. config.paused \in BOOLEAN BY DEF TypeOK, Config
        <3>1. entry = NoEntry BY <2>1 DEF Spawn, Startable
        <3>2. ~Alive(config.pid)
            <4>1. thread[t] \in Starting BY <1>5 DEF Begin, Starting
            <4>2. jobs \/ ~Alive(config.pid) BY <3>1, <4>1 DEF Kept, StartersMay
            <4>3. jobs => config.pid = None BY <3>1, NoneStored DEF Kept
            <4> QED BY <4>2, <4>3 DEF Alive
        <3> QED BY <2>1, <3>0, <3>2, SpawnKeeps DEF Kept
    <2>2. CASE config' = [config EXCEPT !.paused = config.paused] /\ UNCHANGED <<entry, proc>>
        <3>1. entry' = entry /\ jobs' = jobs BY <1>5, <2>2 DEF Begin, To
        <3>2. /\ config'.pid = config.pid
              /\ config'.exists = config.exists
              /\ config'.running = config.running
              /\ config'.waiting => config.waiting \/ config.pid = None
            BY <1>5, <2>2 DEF TypeOK, Config, Begin, To
        <3>3. proc' = proc BY <1>5, <2>2 DEF Begin, To
        <3>4. \A q \in Thread : thread'[q] \in Starting =>
                  thread[q] \in Starting
            BY <1>5, <2>2 DEF TypeOK, Starting, Thread, Begin, To
        <3>5. \A q \in Thread : thread'[q] = "adopt" =>
                  thread[q] = "adopt" /\ seen' = seen
            BY <1>5, <2>2, HostAssumption DEF TypeOK, Thread, Begin, To
        <3>6. config.pid \in Pid \cup {None} BY DEF TypeOK, Config
        <3> QED BY <3>1, <3>2, <3>3, <3>4, <3>5, <3>6, SameKept
    <2> QED BY <1>5, <2>1, <2>2 DEF Begin, StartProcess
<1>6. ASSUME NEW t \in Thread, Mark(t) PROVE Kept'
    <2>1. entry' = entry /\ jobs' = jobs BY <1>6 DEF Mark, To, outside
    <2>2. /\ config'.pid = config.pid
          /\ config'.exists = config.exists
          /\ config'.running = config.running
          /\ config'.waiting => config.waiting \/ config.pid = None
        BY <1>6 DEF TypeOK, Config, Mark, To, outside
    <2>3. \A q \in Pid : proc'[q] \in {"child", "orphan"} => proc[q] \in {"child", "orphan"}
        BY <1>6 DEF TypeOK, Mark, To, outside
    <2>4. \A q \in Thread : thread'[q] \in Starting =>
              thread[q] \in Starting \/ jobs \/ ~Alive(config.pid)
        BY <1>6, HostAssumption DEF TypeOK, Starting, Thread, TakenForRunning, Exists, Alive, Mark,
           To, outside
    <2>5. \A q \in Thread : thread'[q] = "adopt" =>
              seen'[q] = config.pid \/ (thread[q] = "adopt" /\ seen'[q] = seen[q])
        BY <1>6, HostAssumption DEF TypeOK, Stages, Thread, Mark, To, outside
    <2>6. config.pid \in Pid \cup {None} BY DEF TypeOK, Config
    <2> QED BY <2>1, <2>2, <2>3, <2>4, <2>5, <2>6, SameKept
<1>7. ASSUME NEW t \in Thread, Adopt(t) PROVE Kept'
    <2>1. thread[t] = "adopt" /\ seen[t] # None BY <1>7 DEF Adopt, Stages
    <2>2. entry' = [pid |-> seen[t], by |-> "psutil"] /\ config' = config /\ proc' = proc
        BY <1>7 DEF Adopt
    <2>3. entry' # NoEntry /\ entry'.pid = seen[t] BY <2>1, <2>2 DEF NoEntry
    <2>4. entry.pid \in {None, seen[t]} BY <1>7 DEF Adopt
    <2>5. config.pid # None => seen[t] = config.pid
        <3>1. SUFFICES ASSUME config.pid # None PROVE seen[t] = config.pid OBVIOUS
        <3>2. CASE entry # NoEntry
            BY <2>4, <3>1, <3>2 DEF Kept, StoredRuns, TypeOK
        <3>3. CASE entry = NoEntry
            BY <2>1, <3>1, <3>3 DEF Kept, SeenStored
        <3> QED BY <3>2, <3>3
    <2>6. StoredLives' BY <2>2 DEF Kept, StoredLives, Alive
    <2>7. StoredRuns' BY <2>2, <2>3, <2>5 DEF Kept, StoredRuns
    <2>8. StartersMay' /\ SeenStored' BY <2>3 DEF StartersMay, SeenStored
    <2> QED BY <2>6, <2>7, <2>8 DEF Kept
<1>8. ASSUME NEW t \in Thread, Restart(t) PROVE Kept'
    <2>1. CASE Spawn(config.paused)
        <3>0. config.paused \in BOOLEAN BY DEF TypeOK, Config
        <3>1. entry = NoEntry BY <2>1 DEF Spawn, Startable
        <3>2. ~Alive(config.pid)
            <4>1. thread[t] \in Starting BY <1>8 DEF Restart, Starting
            <4>2. jobs \/ ~Alive(config.pid) BY <3>1, <4>1 DEF Kept, StartersMay
            <4>3. jobs => config.pid = None BY <3>1, NoneStored DEF Kept
            <4> QED BY <4>2, <4>3 DEF Alive
        <3> QED BY <2>1, <3>0, <3>2, SpawnKeeps DEF Kept
    <2>2. CASE /\ config' = [NotRunning EXCEPT !.waiting = (site # "ready")]
               /\ lost' = (lost \/ entry # NoEntry)
               /\ UNCHANGED <<entry, proc>>
        <3>0. config'.pid = None BY <2>2 DEF NotRunning, TypeOK, Config
        <3>1. entry = NoEntry BY <2>2
        <3>2. ~Alive(config.pid)
            <4>1. thread[t] \in Starting BY <1>8 DEF Restart, Starting
            <4>2. jobs \/ ~Alive(config.pid) BY <3>1, <4>1 DEF Kept, StartersMay
            <4>3. jobs => config.pid = None BY <3>1, NoneStored DEF Kept
            <4> QED BY <4>2, <4>3 DEF Alive
        <3>3. \A p \in Pid : ~Alive(p) BY <3>2, NobodyLives DEF Kept
        <3>4. \A p \in Pid : ~Alive(p)' BY <2>2, <3>3 DEF Alive
        <3> QED BY <3>0, <3>4, NothingKept
    <2> QED BY <1>8, <2>1, <2>2 DEF Restart
<1>9. ASSUME CronStart PROVE Kept'
    <2>1. entry' = entry /\ jobs' = jobs BY <1>9 DEF CronStart, To, outside
    <2>2. /\ config'.pid = config.pid
          /\ config'.exists = config.exists
          /\ config'.running = config.running
          /\ config'.waiting => config.waiting \/ config.pid = None
        BY <1>9 DEF TypeOK, Config, CronStart, To, outside
    <2>3. \A q \in Pid : proc'[q] \in {"child", "orphan"} => proc[q] \in {"child", "orphan"}
        BY <1>9 DEF TypeOK, CronStart, To, outside
    <2>4. \A q \in Thread : thread'[q] \in Starting =>
              thread[q] \in Starting \/ jobs \/ ~Alive(config.pid)
        BY <1>9, HostAssumption DEF TypeOK, Starting, Thread, TakenForRunning, Exists, Alive,
           CronStart, To, outside
    <2>5. \A q \in Thread : thread'[q] = "adopt" =>
              seen'[q] = config.pid \/ (thread[q] = "adopt" /\ seen'[q] = seen[q])
        BY <1>9, HostAssumption DEF TypeOK, Stages, Thread, CronStart, To, outside
    <2>6. config.pid \in Pid \cup {None} BY DEF TypeOK, Config
    <2> QED BY <2>1, <2>2, <2>3, <2>4, <2>5, <2>6, SameKept
<1>10. ASSUME CronStop PROVE Kept'
    <2>1. StopProcess(config.paused) BY <1>10 DEF CronStop
    <2>2. config.paused \in BOOLEAN BY DEF TypeOK, Config
    <2> QED BY <2>1, <2>2, StopKeeps
<1>11. ASSUME Enforce PROVE Kept'
    <2>1. entry' = entry /\ jobs' = jobs BY <1>11 DEF Enforce, To, outside
    <2>2. /\ config'.pid = config.pid
          /\ config'.exists = config.exists
          /\ config'.running = config.running
          /\ config'.waiting => config.waiting \/ config.pid = None
        BY <1>11 DEF TypeOK, Config, Enforce, To, outside
    <2>3. \A q \in Pid : proc'[q] \in {"child", "orphan"} => proc[q] \in {"child", "orphan"}
        BY <1>11 DEF TypeOK, Enforce, To, outside
    <2>4. \A q \in Thread : thread'[q] \in Starting =>
              thread[q] \in Starting \/ jobs \/ ~Alive(config.pid)
        BY <1>11, HostAssumption DEF TypeOK, Starting, Thread, TakenForRunning, Exists, Alive,
           Enforce, To, outside
    <2>5. \A q \in Thread : thread'[q] = "adopt" =>
              seen'[q] = config.pid \/ (thread[q] = "adopt" /\ seen'[q] = seen[q])
        BY <1>11, HostAssumption DEF TypeOK, Stages, Thread, Enforce, To, outside
    <2>6. config.pid \in Pid \cup {None} BY DEF TypeOK, Config
    <2> QED BY <2>1, <2>2, <2>3, <2>4, <2>5, <2>6, SameKept
<1>12. ASSUME Close PROVE Kept'
    <2>1. CASE StopProcess(TRUE) BY <2>1, StopKeeps
    <2>2. CASE config' = [config EXCEPT !.paused = config.exists] /\ UNCHANGED <<entry, proc>>
        <3>1. entry' = entry /\ jobs' = jobs BY <1>12, <2>2 DEF Close, To, outside
        <3>2. /\ config'.pid = config.pid
              /\ config'.exists = config.exists
              /\ config'.running = config.running
              /\ config'.waiting => config.waiting \/ config.pid = None
            BY <1>12, <2>2 DEF TypeOK, Config, Close, To, outside
        <3>3. proc' = proc BY <1>12, <2>2 DEF Close, To, outside
        <3>4. \A q \in Thread : thread'[q] \in Starting =>
                  thread[q] \in Starting
            BY <1>12, <2>2 DEF TypeOK, Starting, Thread, Close, To, outside
        <3>5. \A q \in Thread : thread'[q] = "adopt" =>
                  thread[q] = "adopt" /\ seen' = seen
            BY <1>12, <2>2, HostAssumption DEF TypeOK, Thread, Close, To, outside
        <3>6. config.pid \in Pid \cup {None} BY DEF TypeOK, Config
        <3> QED BY <3>1, <3>2, <3>3, <3>4, <3>5, <3>6, SameKept
    <2> QED BY <1>12, <2>1, <2>2 DEF Close
<1>13. ASSUME Resume PROVE Kept'
    <2>1. CASE Spawn(FALSE)
        <3>0. FALSE \in BOOLEAN BY DEF TypeOK, Config
        <3>1. entry = NoEntry BY <2>1 DEF Spawn, Startable
        <3>2. ~Alive(config.pid)
            <4>1. "enforcer" \in Thread /\ thread["enforcer"] \in Starting
                BY <1>13 DEF Resume, Thread, Starting
            <4>2. jobs \/ ~Alive(config.pid) BY <3>1, <4>1 DEF Kept, StartersMay
            <4>3. jobs => config.pid = None BY <3>1, NoneStored DEF Kept
            <4> QED BY <4>2, <4>3 DEF Alive
        <3> QED BY <2>1, <3>0, <3>2, SpawnKeeps DEF Kept
    <2>2. CASE config' = [config EXCEPT !.paused = FALSE] /\ UNCHANGED <<entry, proc>>
        <3>1. entry' = entry /\ jobs' = jobs BY <1>13, <2>2 DEF Resume, To
        <3>2. /\ config'.pid = config.pid
              /\ config'.exists = config.exists
              /\ config'.running = config.running
              /\ config'.waiting => config.waiting \/ config.pid = None
            BY <1>13, <2>2 DEF TypeOK, Config, Resume, To
        <3>3. proc' = proc BY <1>13, <2>2 DEF Resume, To
        <3>4. \A q \in Thread : thread'[q] \in Starting =>
                  thread[q] \in Starting
            BY <1>13, <2>2 DEF TypeOK, Starting, Thread, Resume, To
        <3>5. \A q \in Thread : thread'[q] = "adopt" =>
                  thread[q] = "adopt" /\ seen' = seen
            BY <1>13, <2>2, HostAssumption DEF TypeOK, Thread, Resume, To
        <3>6. config.pid \in Pid \cup {None} BY DEF TypeOK, Config
        <3> QED BY <3>1, <3>2, <3>3, <3>4, <3>5, <3>6, SameKept
    <2> QED BY <1>13, <2>1, <2>2 DEF Resume, StartProcess
<1>14. ASSUME Reap PROVE Kept'
    <2>1. config'.pid = None BY <1>14 DEF Reap, NotRunning, TypeOK, Config
    <2>2. ASSUME NEW q \in Pid, Alive(q)' PROVE FALSE
        <3>1. CASE EntryDead
            <4>1. proc' = Terminated(entry.pid) BY <1>14, <3>1 DEF Reap
            <4>2. entry # NoEntry /\ entry.pid \in Pid BY <3>1 DEF EntryDead, TypeOK
            <4>3. Alive(q) /\ q # entry.pid
                BY <2>2, <4>1, <4>2 DEF Alive, Terminated, TypeOK, Process
            <4>4. config.pid = q /\ config.pid # None
                BY <4>3, HostAssumption DEF Kept, StoredLives
            <4> QED BY <4>2, <4>3, <4>4 DEF Kept, StoredRuns
        <3>2. CASE ~EntryDead
            <4>1. FlagStale /\ proc' = proc BY <1>14, <3>2 DEF Reap
            <4>2. Alive(q) BY <2>2, <4>1 DEF Alive
            <4>3. config.pid = q BY <4>2 DEF Kept, StoredLives
            <4> QED BY <4>1, <4>2, <4>3 DEF FlagStale, Alive
        <3> QED BY <3>1, <3>2
    <2> QED BY <2>1, <2>2, NothingKept
<1>15. ASSUME Initialize PROVE Kept'
    <2>1. UNCHANGED <<entry, proc>> /\ "main" \in Thread BY <1>15 DEF Initialize, Thread
    <2>2. CASE /\ lost' = (lost \/ config.pid \notin {None, entry.pid})
               /\ Ended("main") /\ UNCHANGED <<config, seen, thread>>
        <3>1. StoredLives' BY <2>1, <2>2 DEF Kept, StoredLives, Alive
        <3>2. entry.pid = config.pid \/ config.pid = None BY <2>2
        <3>3. StoredRuns' BY <2>1, <2>2, <3>2 DEF Kept, StoredRuns
        <3>4. StartersMay' BY <2>2 DEF StartersMay, Ended
        <3>5. SeenStored' BY <2>1, <2>2 DEF Kept, SeenStored
        <3> QED BY <3>1, <3>3, <3>4, <3>5 DEF Kept
    <2>3. CASE Wait("main") BY <2>1, <2>3, WaitKeeps
    <2>4. CASE Restore("main") /\ UNCHANGED <<config, lost>>
        BY <2>1, <2>4, RestoreKeeps
    <2> QED BY <1>15, <2>2, <2>3, <2>4 DEF Initialize
<1>16. ASSUME NEW t \in Login, AfterDownload(t) PROVE Kept'
    <2>1. UNCHANGED <<entry, proc>> /\ t \in Thread BY <1>16 DEF AfterDownload, Thread
    <2>2. CASE Wait(t) BY <2>1, <2>2, WaitKeeps
    <2>3. CASE Restore(t) /\ UNCHANGED <<config, lost>>
        BY <2>1, <2>3, RestoreKeeps
    <2> QED BY <1>16, <2>2, <2>3 DEF AfterDownload
<1>17. ASSUME NEW t \in Login, Pending(t) PROVE Kept'
    <2>1. entry' = entry /\ jobs' = jobs BY <1>17 DEF Pending, To, outside
    <2>2. /\ config'.pid = config.pid
          /\ config'.exists = config.exists
          /\ config'.running = config.running
          /\ config'.waiting => config.waiting \/ config.pid = None
        BY <1>17 DEF TypeOK, Config, Pending, To, outside
    <2>3. \A q \in Pid : proc'[q] \in {"child", "orphan"} => proc[q] \in {"child", "orphan"}
        BY <1>17 DEF TypeOK, Pending, To, outside
    <2>4. \A q \in Thread : thread'[q] \in Starting =>
              thread[q] \in Starting \/ jobs \/ ~Alive(config.pid)
        <3>1. config.pid = None BY <1>17 DEF Kept, StoredRuns, Pending
        <3> QED BY <3>1 DEF Alive
<2>5. \A q \in Thread : thread'[q] = "adopt" =>
              seen'[q] = config.pid \/ (thread[q] = "adopt" /\ seen'[q] = seen[q])
        BY <1>17, HostAssumption DEF TypeOK, Stages, Thread, Pending, To, outside
    <2>6. config.pid \in Pid \cup {None} BY DEF TypeOK, Config
    <2> QED BY <2>1, <2>2, <2>3, <2>4, <2>5, <2>6, SameKept
<1>18. ASSUME ClearError PROVE Kept'
    <2>1. entry' = entry /\ jobs' = jobs BY <1>18 DEF ClearError, app, outside
    <2>2. /\ config'.pid = config.pid
          /\ config'.exists = config.exists
          /\ config'.running = config.running
          /\ config'.waiting => config.waiting \/ config.pid = None
        BY <1>18 DEF TypeOK, Config, ClearError, app, outside
    <2>3. \A q \in Pid : proc'[q] \in {"child", "orphan"} => proc[q] \in {"child", "orphan"}
        BY <1>18 DEF TypeOK, ClearError, app, outside
    <2>4. \A q \in Thread : thread'[q] \in Starting =>
              thread[q] \in Starting \/ jobs \/ ~Alive(config.pid)
        BY <1>18, HostAssumption DEF TypeOK, Starting, Thread, TakenForRunning, Exists, Alive,
           ClearError, app, outside
    <2>5. \A q \in Thread : thread'[q] = "adopt" =>
              seen'[q] = config.pid \/ (thread[q] = "adopt" /\ seen'[q] = seen[q])
        BY <1>18, HostAssumption DEF TypeOK, Stages, Thread, ClearError, app, outside
    <2>6. config.pid \in Pid \cup {None} BY DEF TypeOK, Config
    <2> QED BY <2>1, <2>2, <2>3, <2>4, <2>5, <2>6, SameKept
<1>19. ASSUME Exit PROVE Kept'
    <2>1. CASE UNCHANGED <<entry, proc, seen, up, jobs>> /\ To("main", "exit")
        <3>1. entry' = entry /\ jobs' = jobs BY <1>19, <2>1 DEF Exit, To
        <3>2. /\ config'.pid = config.pid
              /\ config'.exists = config.exists
              /\ config'.running = config.running
              /\ config'.waiting => config.waiting \/ config.pid = None
            BY <1>19, <2>1 DEF TypeOK, Config, Exit, To
        <3>3. proc' = proc BY <1>19, <2>1 DEF Exit, To
        <3>4. \A q \in Thread : thread'[q] \in Starting =>
                  thread[q] \in Starting
            BY <1>19, <2>1 DEF TypeOK, Starting, Thread, Exit, To
        <3>5. \A q \in Thread : thread'[q] = "adopt" =>
                  thread[q] = "adopt" /\ seen' = seen
            BY <1>19, <2>1, HostAssumption DEF TypeOK, Thread, Exit, To
        <3>6. config.pid \in Pid \cup {None} BY DEF TypeOK, Config
        <3> QED BY <3>1, <3>2, <3>3, <3>4, <3>5, <3>6, SameKept
    <2>2. CASE Down(proc)
        <3>1. config' = config BY <1>19 DEF Exit
        <3>2. proc \in [Pid -> Process] BY DEF TypeOK
        <3> QED BY <2>2, <3>1, <3>2, DownKeeps
    <2> QED BY <1>19, <2>1, <2>2 DEF Exit
<1>20. ASSUME Kill PROVE Kept'
    <2>1. Down(proc) /\ config' = config BY <1>20 DEF Kill
    <2>2. proc \in [Pid -> Process] BY DEF TypeOK
    <2> QED BY <2>1, <2>2, DownKeeps
<1>21. ASSUME KillInStart PROVE Kept'
    BY <1>21 DEF KillInStart
<1>22. ASSUME Boot PROVE Kept'
    <2>1. entry' = entry /\ jobs' = jobs BY <1>22 DEF Boot, machine, outside
    <2>2. /\ config'.pid = config.pid
          /\ config'.exists = config.exists
          /\ config'.running = config.running
          /\ config'.waiting => config.waiting \/ config.pid = None
        BY <1>22 DEF TypeOK, Config, Boot, machine, outside
    <2>3. \A q \in Pid : proc'[q] \in {"child", "orphan"} => proc[q] \in {"child", "orphan"}
        BY <1>22 DEF TypeOK, Boot, machine, outside
    <2>4. \A q \in Thread : thread'[q] \in Starting =>
              thread[q] \in Starting \/ jobs \/ ~Alive(config.pid)
        BY <1>22, HostAssumption DEF TypeOK, Starting, Thread, TakenForRunning, Exists, Alive, Boot,
           machine, outside
    <2>5. \A q \in Thread : thread'[q] = "adopt" =>
              seen'[q] = config.pid \/ (thread[q] = "adopt" /\ seen'[q] = seen[q])
        BY <1>22, HostAssumption DEF TypeOK, Stages, Thread, Boot, machine, outside
    <2>6. config.pid \in Pid \cup {None} BY DEF TypeOK, Config
    <2> QED BY <2>1, <2>2, <2>3, <2>4, <2>5, <2>6, SameKept
<1>23. ASSUME NEW p \in Pid, ProcessChanges(p) PROVE Kept'
    <2>1. entry' = entry /\ jobs' = jobs BY <1>23 DEF ProcessChanges, app, outside
    <2>2. /\ config'.pid = config.pid
          /\ config'.exists = config.exists
          /\ config'.running = config.running
          /\ config'.waiting => config.waiting \/ config.pid = None
        BY <1>23 DEF TypeOK, Config, ProcessChanges, app, outside
    <2>3. \A q \in Pid : proc'[q] \in {"child", "orphan"} => proc[q] \in {"child", "orphan"}
        BY <1>23 DEF TypeOK, ProcessChanges, app, outside
    <2>4. \A q \in Thread : thread'[q] \in Starting =>
              thread[q] \in Starting \/ jobs \/ ~Alive(config.pid)
        BY <1>23, HostAssumption DEF TypeOK, Starting, Thread, TakenForRunning, Exists, Alive,
           ProcessChanges, app, outside
    <2>5. \A q \in Thread : thread'[q] = "adopt" =>
              seen'[q] = config.pid \/ (thread[q] = "adopt" /\ seen'[q] = seen[q])
        BY <1>23, HostAssumption DEF TypeOK, Stages, Thread, ProcessChanges, app, outside
    <2>6. config.pid \in Pid \cup {None} BY DEF TypeOK, Config
    <2> QED BY <2>1, <2>2, <2>3, <2>4, <2>5, <2>6, SameKept
<1>24. ASSUME Outside PROVE Kept'
    <2>1. entry' = entry /\ jobs' = jobs BY <1>24 DEF Outside, machine, app
    <2>2. /\ config'.pid = config.pid
          /\ config'.exists = config.exists
          /\ config'.running = config.running
          /\ config'.waiting => config.waiting \/ config.pid = None
        BY <1>24 DEF TypeOK, Config, Outside, machine, app
    <2>3. \A q \in Pid : proc'[q] \in {"child", "orphan"} => proc[q] \in {"child", "orphan"}
        BY <1>24 DEF TypeOK, Outside, machine, app
    <2>4. \A q \in Thread : thread'[q] \in Starting =>
              thread[q] \in Starting \/ jobs \/ ~Alive(config.pid)
        BY <1>24, HostAssumption DEF TypeOK, Starting, Thread, TakenForRunning, Exists, Alive,
           Outside, machine, app
    <2>5. \A q \in Thread : thread'[q] = "adopt" =>
              seen'[q] = config.pid \/ (thread[q] = "adopt" /\ seen'[q] = seen[q])
        BY <1>24, HostAssumption DEF TypeOK, Stages, Thread, Outside, machine, app
    <2>6. config.pid \in Pid \cup {None} BY DEF TypeOK, Config
    <2> QED BY <2>1, <2>2, <2>3, <2>4, <2>5, <2>6, SameKept
<1>26. ASSUME NEW t \in Web, Index(t) PROVE Kept'
    <2>1. /\ entry' = entry /\ jobs' = jobs /\ proc' = proc /\ seen' = seen
          /\ config.pid # None /\ config.exists
          /\ t \in Thread
        BY <1>26 DEF Index, Thread
    <2>2. config.running BY <2>1 DEF Kept, StoredRuns
    <2>3. config' = config
        BY <1>26, <2>2 DEF Index, TypeOK, Config
    <2>4. thread' = thread \/ thread' = [thread EXCEPT ![t] = "clear"]
        BY <1>26 DEF Index, To
    <2>5. \A q \in Thread : /\ thread'[q] \in Starting => thread[q] \in Starting
                            /\ thread'[q] = "adopt" => thread[q] = "adopt"
        BY <2>1, <2>4 DEF TypeOK, Starting
    <2>6. config.pid \in Pid \cup {None} BY DEF TypeOK, Config
    <2>7. /\ config'.pid = config.pid /\ config'.exists = config.exists
          /\ config'.running = config.running /\ config'.waiting = config.waiting
        BY <2>3
    <2>8. \A q \in Pid : proc'[q] \in {"child", "orphan"} => proc[q] \in {"child", "orphan"}
        BY <2>1
    <2>9. \A q \in Thread : thread'[q] \in Starting =>
              thread[q] \in Starting \/ jobs \/ ~Alive(config.pid)
        BY <2>5
    <2>10. \A q \in Thread : thread'[q] = "adopt" =>
               seen'[q] = config.pid \/ (thread[q] = "adopt" /\ seen'[q] = seen[q])
        BY <2>1, <2>5
    <2> QED BY <2>1, <2>6, <2>7, <2>8, <2>9, <2>10, SameKept
<1>27. ASSUME NEW t \in Thread, Clear(t) PROVE Kept'
    <2>1. ~Alive(config.pid) /\ proc' = proc BY <1>27 DEF Clear
    <2>2. config'.pid = None BY <1>27 DEF Clear, NotRunning, TypeOK, Config
    <2>3. \A p \in Pid : ~Alive(p) BY <2>1, NobodyLives DEF Kept
    <2>4. \A p \in Pid : ~Alive(p)' BY <2>1, <2>3 DEF Alive
    <2> QED BY <2>2, <2>4, NothingKept
<1>25. CASE UNCHANGED vars
    BY <1>25 DEF Kept, StoredLives, StoredRuns, StartersMay, SeenStored, Alive, vars,
       machine, app
<1> QED
    BY <1>1, <1>2, <1>3, <1>4, <1>5, <1>6, <1>7, <1>8, <1>9, <1>10, <1>11, <1>12, <1>13,
       <1>14, <1>15, <1>16, <1>17, <1>18, <1>19, <1>20, <1>21, <1>22, <1>23, <1>24, <1>25, <1>26, <1>27
       DEF Next, Request, Goes, Thread

\* The invariant is inductive.
LEMMA InvStep ==
    ASSUME IInv, [Next]_vars
    PROVE  IInv'
<1>1. TypeOK' BY MachineStep, ThreadsStep, RestStep DEF IInv, TypeOK, MachineOK, ThreadsOK, RestOK
<1>2. Stages' BY StagesStep DEF IInv
<1>3. lost => lost'
    BY LostStays DEF IInv
<1>4. ~lost' => Kept' BY <1>3, KeptStep DEF IInv
<1> QED BY <1>1, <1>2, <1>4 DEF IInv

LEMMA InvInit ==
    ASSUME Init
    PROVE  IInv
<1>1. config \in Config BY DEF Init, Config
<1>2. entry \in [pid : Pid \cup {None}, by : {"none", "Popen", "psutil"}] BY DEF Init, NoEntry
<1>3. proc \in [Pid -> Process] BY DEF Init, Process
<1>4. thread \in [Thread -> Stage] BY DEF Init, Stage
<1>5. TypeOK BY <1>1, <1>2, <1>3, <1>4 DEF Init, TypeOK
<1>6. Stages BY DEF Init, Stages, Thread
<1>7. config.pid = None BY DEF Init
<1>8. \A p \in Pid : ~Alive(p) BY DEF Init, Alive
<1>9. Kept BY <1>7, <1>8 DEF Kept, StoredLives, StoredRuns, StartersMay, SeenStored, Alive
<1> QED BY <1>5, <1>6, <1>9 DEF IInv

LEMMA InvAlways == Spec => []IInv
<1>1. Init => IInv BY InvInit
<1>2. IInv /\ [Next]_vars => IInv' BY InvStep
<1> QED BY <1>1, <1>2, PTL DEF Spec

\* Every variable keeps its type, for any processes and request threads.
THEOREM HostTyped == Spec => []TypeOK
<1>1. IInv => TypeOK BY DEF IInv
<1> QED BY <1>1, InvAlways, PTL

\* The strategy has one process at most, whatever starts, stops, jobs and restarts
\* meet (start_strategy_process, restore_strategy_states), as long as no stored
\* process has been left or overwritten.
THEOREM OneProcessAlways == Spec => []OneProcess
<1>1. ASSUME IInv PROVE OneProcess
    <2>1. SUFFICES ASSUME ~lost PROVE Cardinality({p \in Pid : Alive(p)}) <= 1
        BY DEF OneProcess
    <2>2. {p \in Pid : Alive(p)} \subseteq {config.pid}
        BY <1>1, <2>1 DEF IInv, Kept, StoredLives
    <2>3. IsFiniteSet({config.pid}) /\ Cardinality({config.pid}) = 1
        BY FS_Singleton
    <2>4. Cardinality({p \in Pid : Alive(p)}) <= Cardinality({config.pid})
        BY <2>2, <2>3, FS_Subset
    <2> QED BY <2>3, <2>4
<1> QED BY <1>1, InvAlways, PTL

\* The process that runs is the one whose id the strategy's stored state has
\* (start_strategy_process, save_configs).
THEOREM PidStaysTracked == Spec => []PidIsTracked
<1>1. IInv => PidIsTracked BY DEF IInv, Kept, StoredRuns, PidIsTracked
<1> QED BY <1>1, InvAlways, PTL
=============================================================================
