---------------------------- MODULE StrategyHost ----------------------------
(***************************************************************************)
(* The host of Python strategies, for one strategy: its process, the       *)
(* configuration that outlives the application, the entry that does not,   *)
(* and the threads that start and stop it (blueprints/python_strategy.py). *)
(* start_strategy_process and stop_strategy_process run with PROCESS_LOCK  *)
(* and are one step each; what a thread checked before is a step of its    *)
(* own.  Every step saves what it changes of the configuration.            *)
(***************************************************************************)
EXTENDS Naturals, FiniteSets

CONSTANTS
    Pid,       \* bound: the process ids of the machine
    Web,       \* threads that serve requests
    Login,     \* threads of the downloads of contracts that logins start
    None       \* no process, no thread

Thread == Web \cup Login \cup {"cron", "enforcer", "main"}

ASSUME HostAssumption ==
    /\ None \notin Pid \cup Thread
    /\ (Web \cup Login) \cap {"cron", "enforcer", "main"} = {}
    /\ Web \cap Login = {}

VARIABLES
    config,    \* STRATEGY_CONFIGS of the strategy
    entry,     \* RUNNING_STRATEGIES of the strategy: the process it is tracked by
    proc,      \* the processes: "child" and "orphan" are the strategy's, "orphan"
               \* after a restart of the application; "zombie" is a child not waited for
    lock,      \* PROCESS_LOCK: the thread that holds it
    thread,    \* what each thread is at
    seen,      \* by thread: the process that restore_strategy_states has found alive
    up,        \* does the application run?
    jobs,      \* has the restore at startup ended, and scheduled the start and stop jobs?
    site,      \* the broker session and its master contracts
    calendar,  \* is the exchange of the strategy closed today?  Whether the time is
               \* within its schedule is left open
    lost       \* has a stored process been left or overwritten?  Not in the program

machine == <<entry, proc, config>>
app     == <<lock, thread, seen, up, jobs>>
outside == <<site, calendar>>
vars    == <<machine, app, outside, lost>>

Config  == [exists : BOOLEAN, running : BOOLEAN, pid : Pid \cup {None},
            stopped : BOOLEAN, paused : BOOLEAN, waiting : BOOLEAN]
Process == {"free", "child", "orphan", "zombie", "foreign"}
Stage   == {"idle", "start", "mark", "delete", "close", "resume", "adopt", "restart",
            "clear", "exit"}
NoEntry == [pid |-> None, by |-> "none"]
Alive(p) == p # None /\ proc[p] \in {"child", "orphan"}

\* check_process_status, which takes any process that has the id.
Exists(p) == p # None /\ proc[p] \in {"child", "orphan", "foreign"}

Init ==
    /\ config = [exists |-> TRUE, running |-> FALSE, pid |-> None, stopped |-> FALSE,
                 paused |-> FALSE, waiting |-> FALSE]
    /\ entry = NoEntry
    /\ proc = [p \in Pid |-> "free"]
    /\ lock = None
    /\ thread = [t \in Thread |-> "idle"]
    /\ seen = [t \in Thread |-> None]
    /\ up = TRUE
    /\ jobs = TRUE
    /\ site \in {"no broker", "downloading", "ready"}
    /\ calendar \in {"closed", "open"}
    /\ lost = FALSE

To(t, step) == thread' = [thread EXCEPT ![t] = step]

-----------------------------------------------------------------------------
\* Mutant of Startable: the tracked process is not looked at.
StartableAnyway == config.exists /\ site = "ready"

Startable == entry = NoEntry /\ config.exists /\ site = "ready"

\* start_strategy_process, when it starts one.
Spawn(paused) ==
    /\ Startable
    /\ \E p \in Pid :
           /\ proc[p] = "free"
           /\ proc' = [proc EXCEPT ![p] = "child"]
           /\ entry' = [pid |-> p, by |-> "Popen"]
           /\ config' = [config EXCEPT !.running = TRUE, !.pid = p, !.waiting = FALSE,
                                         !.paused = paused]

\* start_strategy_process: a process is running, the contracts are not ready, the
\* file or its log cannot be opened, or the process starts.
StartProcess(paused) ==
    \/ Spawn(paused)
    \/ config' = [config EXCEPT !.paused = paused] /\ UNCHANGED <<entry, proc>>

\* Mutant of NotRunning: the id is kept.
NotRunningWithPid == [config EXCEPT !.running = FALSE]

NotRunning == [config EXCEPT !.running = FALSE, !.pid = None]

\* The tracked process is killed and waited for, but not one that has its id by now.
Terminated(p) == [proc EXCEPT ![p] = IF @ = "foreign" THEN @ ELSE "free"]

\* stop_strategy_process, when it stops one: by its entry, or by the stored id.
StopProcess(paused) ==
    /\ \/ /\ entry # NoEntry
          /\ proc' = Terminated(entry.pid)
       \/ /\ entry = NoEntry
          /\ config.exists /\ Exists(config.pid)
          /\ proc' = [proc EXCEPT ![config.pid] = "free"]
    /\ entry' = NoEntry
    /\ config' = [NotRunning EXCEPT !.paused = paused]

NothingToStop == entry = NoEntry /\ ~(config.exists /\ Exists(config.pid))

-----------------------------------------------------------------------------
\* The start route: outside of the schedule it only clears the manual stop.  It does
\* not wait for a restore that is under way.
StartRoute(t) ==
    /\ up /\ config.exists
    /\ jobs \/ thread["main"] # "idle"
    /\ thread[t] = "idle"
    /\ config' = [config EXCEPT !.stopped = FALSE]
    /\ \/ /\ calendar = "open"
          /\ To(t, "start")
          /\ lost' = (lost \/ (~jobs /\ Alive(config.pid)))
       \/ UNCHANGED <<thread, lost>>
    /\ UNCHANGED <<entry, proc, lock, seen, up, jobs, outside>>

\* The rest of the start route, and of the jobs that start: the call with the lock.
Begin(t) ==
    /\ thread[t] = "start"
    /\ lock = None
    /\ StartProcess(config.paused)
    /\ To(t, "idle")
    /\ UNCHANGED <<lock, seen, up, jobs, outside, lost>>

\* The stop route: the flag of the manual stop is set when the process has ended.
StopRoute(t) ==
    /\ up /\ config.exists
    /\ thread[t] = "idle"
    /\ \/ /\ config.running /\ lock = None
          /\ StopProcess(config.paused)
          /\ To(t, "mark")
       \/ /\ ~config.running
          /\ To(t, "mark")
          /\ UNCHANGED machine
    /\ UNCHANGED <<lock, seen, up, jobs, outside, lost>>

Mark(t) ==
    /\ thread[t] = "mark"
    /\ config' = IF config.exists THEN [config EXCEPT !.stopped = TRUE] ELSE config
    /\ To(t, "idle")
    /\ UNCHANGED <<entry, proc, lock, seen, up, jobs, outside, lost>>

\* The delete route, with the lock held: a strategy that runs is to be stopped, by a
\* call that waits for the same lock.
Delete(t) ==
    /\ up /\ config.exists
    /\ thread[t] = "idle"
    /\ lock = None
    /\ \/ /\ entry # NoEntry \/ config.running
          /\ lock' = t
          /\ To(t, "delete")
          /\ UNCHANGED config
       \/ /\ entry = NoEntry /\ ~config.running
          /\ config' = [config EXCEPT !.exists = FALSE]
          /\ UNCHANGED <<lock, thread>>
    /\ UNCHANGED <<entry, proc, seen, up, jobs, outside, lost>>

\* The index route looks at the process by the stored id, and clears it, without the
\* lock, when that has ended.
Index(t) ==
    /\ up /\ config.exists
    /\ jobs \/ thread["main"] # "idle"
    /\ thread[t] = "idle"
    /\ config.pid # None
    /\ \/ Exists(config.pid) /\ config' = [config EXCEPT !.running = TRUE] /\ UNCHANGED thread
       \/ ~Exists(config.pid) /\ To(t, "clear") /\ UNCHANGED config
    /\ UNCHANGED <<entry, proc, lock, seen, up, jobs, outside, lost>>

Clear(t) ==
    /\ thread[t] = "clear"
    /\ config' = NotRunning
    /\ lost' = (lost \/ Alive(config.pid))
    /\ To(t, "idle")
    /\ UNCHANGED <<entry, proc, lock, seen, up, jobs, outside>>

-----------------------------------------------------------------------------
\* scheduled_start_strategy, up to its call of start_strategy_process.
CronStart ==
    /\ up /\ jobs /\ config.exists /\ ~config.stopped
    /\ thread["cron"] = "idle"
    /\ config' = [config EXCEPT !.paused = (calendar = "closed")]
    /\ To("cron", IF calendar = "closed" THEN "idle" ELSE "start")
    /\ UNCHANGED <<entry, proc, lock, seen, up, jobs, outside, lost>>

CronStop ==
    /\ up /\ jobs
    /\ lock = None
    /\ StopProcess(config.paused)
    /\ UNCHANGED <<app, outside, lost>>

\* Mutant of TakenForRunning: only the entry counts.
TakenForTracked == entry # NoEntry

\* _is_strategy_running
TakenForRunning == entry # NoEntry \/ Exists(config.pid)

\* market_hours_enforcer, every minute: on a day the exchange is closed what runs is
\* stopped, and daily_trading_day_check does the same at 00:01; on a trading day what
\* was paused is resumed.
Enforce ==
    /\ up /\ config.exists
    /\ thread["enforcer"] = "idle"
    /\ \/ /\ calendar = "closed" /\ TakenForRunning
          /\ To("enforcer", "close")
          /\ UNCHANGED config
       \/ /\ calendar = "open" /\ config.paused /\ ~config.stopped /\ ~TakenForRunning
          /\ To("enforcer", "resume")
          /\ UNCHANGED config
       \/ /\ calendar = "open" /\ config.paused
          /\ config' = [config EXCEPT !.paused = FALSE]
          /\ UNCHANGED thread
    /\ UNCHANGED <<entry, proc, lock, seen, up, jobs, outside, lost>>

Close ==
    /\ thread["enforcer"] = "close"
    /\ lock = None
    /\ \/ StopProcess(TRUE)
       \/ /\ NothingToStop
          /\ config' = [config EXCEPT !.paused = config.exists]
          /\ UNCHANGED <<entry, proc>>
    /\ To("enforcer", "idle")
    /\ UNCHANGED <<lock, seen, up, jobs, outside, lost>>

Resume ==
    /\ thread["enforcer"] = "resume"
    /\ lock = None
    /\ StartProcess(FALSE)
    /\ To("enforcer", "idle")
    /\ UNCHANGED <<lock, seen, up, jobs, outside, lost>>

\* Mutant of EntryDead: of a child only its absence is noticed.
EntryDeadGone ==
    /\ entry # NoEntry
    /\ proc[entry.pid] \notin {"child", "orphan", "zombie"}

\* cleanup_dead_processes.  An adopted process that is a zombie still runs for psutil.
EntryDead ==
    /\ entry # NoEntry
    /\ proc[entry.pid] \notin IF entry.by = "Popen" THEN {"child"} ELSE {"child", "orphan", "zombie"}

FlagStale ==
    /\ config.running /\ entry = NoEntry
    /\ config.pid = None \/ proc[config.pid] = "free"

Reap ==
    /\ up /\ config.exists
    /\ lock = None
    /\ EntryDead \/ FlagStale
    /\ proc' = IF EntryDead THEN Terminated(entry.pid) ELSE proc
    /\ entry' = NoEntry
    /\ config' = NotRunning
    /\ UNCHANGED <<app, outside, lost>>

-----------------------------------------------------------------------------
\* The restore at startup is followed by the scheduling of the jobs.
Ended(t) == jobs' = (jobs \/ t = "main")

\* Mutant of Restore: what was running is adopted, whether it lives or not.
RestoreDead(t) ==
    IF config.exists /\ config.running /\ config.pid # None
    THEN /\ seen' = [seen EXCEPT ![t] = IF Alive(config.pid) THEN config.pid ELSE None]
         /\ To(t, "adopt")
         /\ UNCHANGED jobs
    ELSE Ended(t) /\ UNCHANGED <<seen, thread>>

\* restore_strategy_states with the contracts: a living process of the strategy is
\* adopted, any other started again.
Restore(t) ==
    IF config.exists /\ config.running /\ config.pid # None
    THEN /\ seen' = [seen EXCEPT ![t] = IF Alive(config.pid) THEN config.pid ELSE None]
         /\ To(t, IF Alive(config.pid) THEN "adopt" ELSE "restart")
         /\ UNCHANGED jobs
    ELSE Ended(t) /\ UNCHANGED <<seen, thread>>

\* Without contracts what was running is marked to wait for them; its process is left.
Wait(t) ==
    /\ config' = IF config.running THEN [NotRunning EXCEPT !.waiting = TRUE] ELSE config
    /\ lost' = (lost \/ Alive(config.pid))
    /\ Ended(t)
    /\ UNCHANGED <<seen, thread>>

\* initialize_with_app_context, on the thread that starts the application.  Without a
\* broker restore_strategy_states returns at once.
Initialize ==
    /\ up /\ ~jobs
    /\ thread["main"] = "idle"
    /\ \/ /\ site = "no broker"
          /\ Ended("main")
          /\ lost' = (lost \/ config.pid \notin {None, entry.pid})
          /\ UNCHANGED <<config, seen, thread>>
       \/ site = "downloading" /\ Wait("main")
       \/ site = "ready" /\ Restore("main") /\ UNCHANGED <<config, lost>>
    /\ UNCHANGED <<entry, proc, lock, up, outside>>

\* hook_into_master_contract_download: half a second after the download.  By then
\* another login may have begun the next one, and the restore at startup may not be over.
AfterDownload(t) ==
    /\ up /\ thread[t] = "idle"
    /\ \/ site = "downloading" /\ Wait(t)
       \/ site = "ready" /\ Restore(t) /\ UNCHANGED <<config, lost>>
    /\ UNCHANGED <<entry, proc, lock, up, outside>>

\* The entry is written without the lock.
Adopt(t) ==
    /\ thread[t] = "adopt"
    /\ entry' = [pid |-> seen[t], by |-> "psutil"]
    /\ lost' = (lost \/ entry.pid \notin {None, seen[t]})
    /\ seen' = [seen EXCEPT ![t] = None]
    /\ Ended(t)
    /\ To(t, "idle")
    /\ UNCHANGED <<config, proc, lock, up, outside>>

Restart(t) ==
    /\ thread[t] = "restart"
    /\ lock = None
    /\ \/ Spawn(config.paused) /\ UNCHANGED lost
       \/ /\ config' = [NotRunning EXCEPT !.waiting = (site # "ready")]
          /\ lost' = (lost \/ entry # NoEntry)
          /\ UNCHANGED <<entry, proc>>
    /\ Ended(t)
    /\ To(t, "idle")
    /\ UNCHANGED <<lock, seen, up, outside>>

\* check_and_start_pending_strategies, after a download or on request.
Pending(t) ==
    /\ up /\ site = "ready"
    /\ thread[t] = "idle"
    /\ config.exists /\ config.waiting
    /\ config' = [config EXCEPT !.waiting = FALSE]
    /\ To(t, "start")
    /\ UNCHANGED <<entry, proc, lock, seen, up, jobs, outside, lost>>

ClearError ==
    /\ up /\ config.exists /\ ~config.running /\ config.waiting
    /\ config' = [config EXCEPT !.waiting = FALSE]
    /\ UNCHANGED <<entry, proc, app, outside, lost>>

-----------------------------------------------------------------------------
\* The application is gone: its processes go with it or stay, as their own sessions may.
Down(processes) ==
    /\ up' = FALSE
    /\ jobs' = FALSE
    /\ lock' = None
    /\ thread' = [t \in Thread |-> "idle"]
    /\ seen' = [t \in Thread |-> None]
    /\ entry' = NoEntry
    /\ \E stay \in {"free", "orphan"} :
           proc' = [p \in Pid |-> CASE processes[p] \in {"child", "orphan"} -> stay
                                   [] processes[p] = "zombie" -> "free"
                                   [] OTHER -> processes[p]]

\* cleanup_on_exit, with the lock held: a process that is tracked is to be stopped, by
\* a call that waits for the same lock.
Exit ==
    /\ up /\ jobs
    /\ thread["main"] = "idle"
    /\ lock = None
    /\ \/ /\ entry # NoEntry
          /\ lock' = "main"
          /\ To("main", "exit")
          /\ UNCHANGED <<entry, proc, seen, up, jobs>>
       \/ entry = NoEntry /\ Down(proc)
    /\ UNCHANGED <<config, outside, lost>>

Kill ==
    /\ up
    /\ Down(proc)
    /\ UNCHANGED <<config, outside, lost>>

\* Killed between the start of a process and the saving of its id.
KillInStart ==
    /\ up
    /\ \E t \in Thread : thread[t] \in {"start", "resume", "restart"}
    /\ lock = None /\ Startable
    /\ \E p \in Pid : proc[p] = "free" /\ Down([proc EXCEPT ![p] = "child"])
    /\ lost' = TRUE
    /\ UNCHANGED <<config, outside>>

Boot ==
    /\ ~up
    /\ up' = TRUE
    /\ UNCHANGED <<machine, lock, thread, seen, jobs, outside, lost>>

\* A process of the strategy ends; a child becomes a zombie.  Another takes its id,
\* which matters while that is stored.
\* Popen waits for the children whose object is gone, when another strategy starts.
ProcessChanges(p) ==
    /\ \/ proc[p] = "child" /\ proc' = [proc EXCEPT ![p] = "zombie"]
       \/ proc[p] = "orphan" /\ proc' = [proc EXCEPT ![p] = "free"]
       \/ proc[p] = "free" /\ p \in {entry.pid, config.pid} /\ proc' = [proc EXCEPT ![p] = "foreign"]
       \/ proc[p] = "foreign" /\ proc' = [proc EXCEPT ![p] = "free"]
       \/ /\ proc[p] = "zombie" /\ entry # [pid |-> p, by |-> "Popen"]
          /\ proc' = [proc EXCEPT ![p] = "free"]
    /\ UNCHANGED <<config, entry, app, outside, lost>>

Outside ==
    /\ \/ site' \in {"no broker", "downloading", "ready"} /\ UNCHANGED calendar
       \/ calendar' \in {"closed", "open"} /\ UNCHANGED site
    /\ UNCHANGED <<machine, app, lost>>

Request(t) == StartRoute(t) \/ StopRoute(t) \/ Delete(t) \/ Index(t) \/ Pending(t)
Goes(t)    == Begin(t) \/ Mark(t) \/ Clear(t) \/ Adopt(t) \/ Restart(t)

Next ==
    \/ \E t \in Web : Request(t)
    \/ \E t \in Thread : Goes(t)
    \/ CronStart \/ CronStop
    \/ Enforce \/ Close \/ Resume
    \/ Reap
    \/ \E t \in Login : AfterDownload(t) \/ Pending(t)
    \/ Initialize \/ ClearError
    \/ Exit \/ Kill \/ KillInStart \/ Boot
    \/ \E p \in Pid : ProcessChanges(p)
    \/ Outside

\* The threads go on, and the scheduler has a thread for each of its jobs.
Fairness ==
    /\ \A t \in Thread : WF_vars(Goes(t))
    /\ WF_vars(Enforce \/ Close \/ Resume)
    /\ WF_vars(Reap)

Spec == Init /\ [][Next]_vars /\ Fairness
-----------------------------------------------------------------------------
TypeOK ==
    /\ config \in Config
    /\ entry \in [pid : Pid \cup {None}, by : {"none", "Popen", "psutil"}]
    /\ entry = NoEntry \/ entry.pid # None
    /\ proc \in [Pid -> Process]
    /\ lock \in Thread \cup {None}
    /\ thread \in [Thread -> Stage]
    /\ seen \in [Thread -> Pid \cup {None}]
    /\ up \in BOOLEAN /\ jobs \in BOOLEAN /\ lost \in BOOLEAN
    /\ site \in {"no broker", "downloading", "ready"}
    /\ calendar \in {"closed", "open"}

\* "Strategy already running" (python_strategy.py:424): two processes of one strategy
\* never run, unless a living one was lost before: a restart found no broker, a restart
\* or a download no contracts; a start was cut by a restart, or requested while the
\* restart's restore was still to adopt the process; a restore wrote its entry over that
\* of a newer process, or could not restart what another had restarted; the index page
\* cleared the id of a newer process.
OneProcess == ~lost => Cardinality({p \in Pid : Alive(p)}) <= 1

\* Under the same exceptions the id in the configuration is that of the tracked process,
\* so that stopping by id terminates no process of someone else.
PidIsTracked ==
    (jobs /\ ~lost /\ config.exists /\ config.pid # None) => entry.pid = config.pid

\* The crash of a process that the application started is noticed: neither the entry nor
\* the stored id keeps it (cleanup_dead_processes), unless a restore puts an
\* adopted process into the entry, or an exit or a deletion holds the lock.  The crash of
\* an adopted process is not noticed: for psutil a zombie runs.
CrashIsNoticed ==
    (up /\ entry.by = "Popen" /\ ~Alive(entry.pid))
        ~> \/ ~up \/ lock # None \/ entry.by = "psutil"
           \/ entry = NoEntry /\ config.pid = None

\* While the exchange stays closed what runs is stopped (market_hours_enforcer), also
\* the process of a strategy that a restart has left without an entry.
ClosedDayIsQuiet ==
    LET Runs == config.exists /\ (Alive(entry.pid) \/ Alive(config.pid))
    IN  <>[](up /\ calendar = "closed" /\ lock = None) => []<>(~Runs)

\* "Clean up all running processes on application exit" (python_strategy.py:2618): an
\* exit ends.
ExitEnds == (thread["main"] = "exit") ~> (thread["main"] # "exit")
=============================================================================
