---------------------------- MODULE LocalServers ----------------------------
(***************************************************************************)
(* The two local arms of the benchmark: setup-smolquery, setup-clickhouse, *)
(* run-arm, sweep and stop (scripts/bench.exs, sweep.exs, stop.exs) start, *)
(* probe and stop server processes through a pid file and a port.          *)
(*                                                                         *)
(* One script runs at a time; the scripts a person runs, and the order,    *)
(* are free.  The servers are external: one boots and takes its arm's port *)
(* or exits when the port is taken, keeps its tables on the arm's data     *)
(* directory, and after a SIGTERM exits, sooner or later.  Pids are never  *)
(* reused.  A table is "none", "cold" (empty) or "warm" (holding rows).    *)
(***************************************************************************)
EXTENDS Naturals, FiniteSets

CONSTANTS MaxStarts,        \* bound: server processes ever started
          MaxScripts,       \* bound: scripts run in a behaviour
          MaxCrashes,       \* bound: servers that die unasked
          WaitAttempts,     \* checks after a SIGTERM, 30 in the code
          HealthAttempts,   \* polls of a booting server, 60 and 180 in the code
          BootAttempts,     \* boots of smolquery per setup, 3 in the code
          Points,           \* length of VUS_LIST
          SlowExit,         \* a server may outlive the wait for its exit
          MaxInterrupts     \* bound: scripts killed half way, at any point

ASSUME LocalServersAssumption ==
    /\ {MaxStarts, MaxScripts, WaitAttempts, HealthAttempts, BootAttempts, Points}
         \subseteq Nat \ {0}
    /\ {MaxCrashes, MaxInterrupts} \subseteq Nat /\ SlowExit \in BOOLEAN

Arms == {"smolquery", "clickhouse"}
Pids == 1..MaxStarts
NoPid == 0

VARIABLES
    server,                 \* server[p] = [arm, st]
    told,                   \* servers that were sent a SIGTERM
    held,                   \* the table as server p holds it
    disk,                   \* the table as the data directory of an arm holds it
    pidfile,                \* the pid in RUN_DIR/<arm>.pid
    script,                 \* the running script: [cmd, arm, pc, pid, tries, boots, left]
    scripts, crashes, interrupts,   \* how many there were
    lastRun                 \* history: the last measurement, see Measure

servers == <<server, told, held, disk>>
counts == <<scripts, crashes, interrupts>>
vars == <<servers, pidfile, script, counts, lastRun>>

Alive(p) == p # NoPid /\ server[p].st \in {"booting", "serving", "draining"}
Listening(a) == {p \in Pids : server[p].arm = a /\ server[p].st = "serving"}
Live == {p \in Pids : Alive(p)}
At(pc) == script.pc = pc

BugOnePidfile(a) == "smolquery"
PidfileOf(a) == a

Init ==
    /\ server = [p \in Pids |-> [arm |-> "none", st |-> "unborn"]]
    /\ told = {}
    /\ held = [p \in Pids |-> "none"]
    /\ disk = [a \in Arms |-> "none"]
    /\ pidfile = [a \in Arms |-> NoPid]
    /\ script = [cmd |-> "none", arm |-> "none", pc |-> "idle", pid |-> NoPid,
                 tries |-> 0, boots |-> 0, left |-> 0]
    /\ scripts = 0 /\ crashes = 0 /\ interrupts = 0
    /\ lastRun = [cmd |-> "none", arm |-> "none", fresh |-> TRUE, cold |-> TRUE]

-----------------------------------------------------------------------------
(* The scripts *)

Start(cmd, a) ==
    /\ At("idle") /\ scripts < MaxScripts
    /\ scripts' = scripts + 1
    /\ script' = [cmd |-> cmd, arm |-> a, pc |-> IF cmd = "run" THEN "measure" ELSE "stop",
                  pid |-> NoPid, tries |-> 0, boots |-> BootAttempts,
                  left |-> IF cmd = "sweep" THEN Points ELSE 0]
    /\ UNCHANGED <<servers, pidfile, crashes, interrupts, lastRun>>

Step(changes) == script' = changes /\ UNCHANGED counts
Goto(pc) == [script EXCEPT !.pc = pc]
Fatal == Goto("idle")       \* System.halt(1): whatever was started stays

\* stop_arm: kill the process the pid file names, if it is alive.
Signal ==
    LET p == pidfile[PidfileOf(script.arm)] IN
    /\ At("stop")
    /\ \/ /\ Alive(p)
          /\ told' = told \cup {p}
          /\ Step([script EXCEPT !.pc = "waitExit", !.pid = p, !.tries = WaitAttempts])
       \/ /\ ~Alive(p)
          /\ Step(Goto("rmPid"))
          /\ UNCHANGED told
    /\ UNCHANGED <<server, held, disk, pidfile, lastRun>>

\* wait_for_exit: returns :ok whether the process is gone or the checks are used up.
BugNoWait == TRUE
ExitSeen == ~Alive(script.pid) \/ script.tries = 0

WaitForExit ==
    /\ At("waitExit")
    /\ \/ ExitSeen /\ Step(Goto("rmPid"))
       \/ /\ ~ExitSeen
          /\ SlowExit \/ script.tries > 1
          /\ Step([script EXCEPT !.tries = @ - 1])
    /\ UNCHANGED <<servers, pidfile, lastRun>>

\* What follows stop_arm: the other arm, the end, or the rest of a setup.
AfterStop ==
    CASE script.cmd = "stop" /\ script.arm = "smolquery" ->
            [script EXCEPT !.arm = "clickhouse", !.pc = "stop"]
      [] script.cmd = "stop" /\ script.arm = "clickhouse" -> Goto("idle")
      [] script.cmd = "sweep" /\ script.left = 0 -> Goto("idle")
      [] OTHER -> [script EXCEPT !.pc = "erase", !.boots = BootAttempts]

RemovePidfile ==
    /\ At("rmPid")
    /\ pidfile' = [pidfile EXCEPT ![PidfileOf(script.arm)] = NoPid]
    /\ Step(AfterStop)
    /\ UNCHANGED <<servers, lastRun>>

Erased(a) == "none"

Erase ==
    /\ At("erase")
    /\ disk' = [disk EXCEPT ![script.arm] = Erased(script.arm)]
    /\ Step(Goto("spawn"))
    /\ UNCHANGED <<server, told, held, pidfile, lastRun>>

\* start_daemon: the shell's $! first, then the pid file.
Spawn ==
    /\ At("spawn")
    /\ \E p \in Pids :
        /\ server[p].st = "unborn" /\ \A q \in 1..p-1 : server[q].st # "unborn"
        /\ server' = [server EXCEPT ![p] = [arm |-> script.arm, st |-> "booting"]]
        /\ Step([script EXCEPT !.pc = "writePid", !.pid = p])
    /\ UNCHANGED <<told, held, disk, pidfile, lastRun>>

PidWritten == script.pid

WritePid ==
    /\ At("writePid")
    /\ pidfile' = [pidfile EXCEPT ![PidfileOf(script.arm)] = PidWritten]
    /\ Step([script EXCEPT !.pc = "health", !.tries = HealthAttempts])
    /\ UNCHANGED <<servers, lastRun>>

\* The server of this boot is dead: smolquery is booted again, clickhouse is not.
Exited ==
    IF script.arm = "smolquery" /\ script.boots > 1
    THEN [script EXCEPT !.pc = "erase", !.boots = @ - 1]
    ELSE Fatal

BugPollForever == script
PollAgain == [script EXCEPT !.tries = @ - 1]

\* wait_for_health and wait_for_ping poll the port, whoever answers.
Poll ==
    /\ At("health")
    /\ \/ /\ script.tries = 0
          /\ Step(Fatal)
       \/ /\ script.tries > 0 /\ Listening(script.arm) # {}
          /\ Step(Goto(IF script.arm = "smolquery" THEN "confirm" ELSE "create"))
       \/ /\ script.tries > 0 /\ Listening(script.arm) = {} /\ Alive(script.pid)
          /\ Step(PollAgain)
       \/ /\ script.tries > 0 /\ Listening(script.arm) = {} /\ ~Alive(script.pid)
          /\ Step(Exited)
    /\ UNCHANGED <<servers, pidfile, lastRun>>

\* smolquery only: a second later the process started must still be alive.
Confirm ==
    /\ At("confirm")
    /\ Step(IF Alive(script.pid) THEN Goto("create") ELSE Exited)
    /\ UNCHANGED <<servers, pidfile, lastRun>>

\* smolquery answers 409 to a dataset it has, which http_2xx! does not accept;
\* most of the clickhouse schemas say IF NOT EXISTS.
BugConflictIsOk(a, p) == TRUE
MayCreate(a, p) == held[p] = "none" \/ a = "clickhouse"

\* The dataset, its table and its settings are one step; any of the requests may fail.
Create ==
    LET a == script.arm IN
    /\ At("create")
    /\ \/ \E p \in Listening(a) :
            /\ MayCreate(a, p)
            /\ held' = [held EXCEPT ![p] = IF @ = "none" THEN "cold" ELSE @]
            /\ disk' = [disk EXCEPT ![a] = IF @ = "none" THEN "cold" ELSE @]
            /\ Step(Goto(IF script.cmd = "setup" THEN "idle" ELSE "measure"))
       \/ Step(Fatal) /\ UNCHANGED <<held, disk>>
    /\ UNCHANGED <<server, told, pidfile, lastRun>>

\* run-arm: preflight, warm-up and measurement against the port; a failure is fatal,
\* before the first row or after it.  lastRun notes whether the server is the one this
\* script started, and whether the table was empty.
AfterRun == IF script.cmd = "run" THEN "idle" ELSE "stop"

Measure ==
    LET a == script.arm IN
    /\ At("measure")
    /\ \/ \E p \in Listening(a) :
            /\ held[p] # "none"
            /\ held' = [held EXCEPT ![p] = "warm"]
            /\ disk' = [disk EXCEPT ![a] = "warm"]
            /\ \/ /\ lastRun' = [cmd |-> script.cmd, arm |-> a, fresh |-> p = script.pid,
                                 cold |-> held[p] = "cold"]
                  /\ Step([script EXCEPT !.pc = AfterRun, !.left = IF @ > 0 THEN @ - 1 ELSE 0])
               \/ Step(Fatal) /\ UNCHANGED lastRun
       \/ Step(Fatal) /\ UNCHANGED <<held, disk, lastRun>>
    /\ UNCHANGED <<server, told, pidfile>>

Interrupt ==
    /\ ~At("idle") /\ interrupts < MaxInterrupts
    /\ script' = Fatal
    /\ interrupts' = interrupts + 1
    /\ UNCHANGED <<servers, pidfile, scripts, crashes, lastRun>>

-----------------------------------------------------------------------------
(* The servers (external) *)

Become(p, st) == server' = [server EXCEPT ![p].st = st]

Bind(p) ==
    LET a == server[p].arm IN
    /\ server[p].st = "booting"
    /\ Become(p, IF Listening(a) = {} THEN "serving" ELSE "dead")
    /\ held' = [held EXCEPT ![p] = IF Listening(a) = {} THEN disk[a] ELSE @]
    /\ UNCHANGED <<told, disk, pidfile, script, counts, lastRun>>

\* A server told to stop closes its port, or exits, perhaps flushing to disk.
Drain(p) ==
    /\ server[p].st = "serving" /\ p \in told
    /\ Become(p, "draining")
    /\ UNCHANGED <<told, held, disk, pidfile, script, counts, lastRun>>

Exit(p) ==
    /\ Alive(p) /\ p \in told
    /\ Become(p, "dead")
    /\ disk' \in {disk, [disk EXCEPT ![server[p].arm] = held[p]]}
    /\ UNCHANGED <<told, held, pidfile, script, counts, lastRun>>

Crash(p) ==
    /\ Alive(p) /\ crashes < MaxCrashes
    /\ Become(p, "dead")
    /\ crashes' = crashes + 1
    /\ UNCHANGED <<told, held, disk, pidfile, script, scripts, interrupts, lastRun>>

-----------------------------------------------------------------------------

ScriptStep ==
    \/ Signal \/ WaitForExit \/ RemovePidfile \/ Erase \/ Spawn \/ WritePid
    \/ Poll \/ Confirm \/ Create \/ Measure

Commands == ({"setup", "run", "sweep"} \X Arms) \cup {<<"stop", "smolquery">>}
Unborn == {p \in Pids : server[p].st = "unborn"}

\* The bounds: no script left to run, or no process left to start.
Rest ==
    /\ (At("idle") /\ scripts = MaxScripts) \/ (At("spawn") /\ Unborn = {})
    /\ UNCHANGED vars

Next ==
    \/ \E c \in Commands : Start(c[1], c[2])
    \/ ScriptStep \/ Interrupt \/ Rest
    \/ \E p \in Pids : Bind(p) \/ Drain(p) \/ Exit(p) \/ Crash(p)

Spec == Init /\ [][Next]_vars

\* A script keeps running; in the prompt case a server told to stop does exit.
FairSpec == Spec /\ WF_vars(ScriptStep) /\ \A p \in Pids : WF_vars(Exit(p))

-----------------------------------------------------------------------------
(* Properties *)

\* Types, one listener per port, and pid files that name servers of their arm.
TypeOK ==
    /\ server \in [Pids -> [arm : Arms \cup {"none"},
                            st : {"unborn", "booting", "serving", "draining", "dead"}]]
    /\ told \subseteq Pids
    /\ held \in [Pids -> {"none", "cold", "warm"}]
    /\ disk \in [Arms -> {"none", "cold", "warm"}]
    /\ pidfile \in [Arms -> Pids \cup {NoPid}]
    /\ \A a \in Arms : pidfile[a] # NoPid => server[pidfile[a]].arm = a
    /\ script.tries \in 0..HealthAttempts \cup 0..WaitAttempts
    /\ script.boots \in 0..BootAttempts /\ script.left \in 0..Points
    /\ \A a \in Arms : Cardinality(Listening(a)) <= 1

\* Every server that runs and was never told to stop is named by its arm's pid
\* file, or about to be; a killed script can leave at most one that is not.
NoneForgotten ==
    Cardinality({p \in Live \ told :
                    pidfile[server[p].arm] # p /\ ~(At("writePid") /\ script.pid = p)})
      <= interrupts

\* Two servers of one arm never run together, but for one left by a killed script.
OnePerArm ==
    \A a \in Arms : Cardinality({p \in Live : server[p].arm = a}) <= 1 + interrupts

\* What a killed script can leave behind is bounded, and no script adds to it.
ServersAccountedFor == NoneForgotten /\ OnePerArm

\* Each point of a sweep measures the server that point started, on a table
\* nothing has been loaded into, unless a script was killed before.
SweepIsFreshAndCold ==
    lastRun.cmd = "sweep" /\ interrupts = 0 => lastRun.fresh /\ lastRun.cold

\* For smolquery the table is cold even when scripts were killed half way and
\* left servers behind: a setup that meets a table it did not create stops.
SmolquerySweepIsCold ==
    lastRun.cmd = "sweep" /\ lastRun.arm = "smolquery" => lastRun.cold

\* What a sweep measures is cold, and its own where nothing was killed.
SweepIsCold == SweepIsFreshAndCold /\ SmolquerySweepIsCold

\* Every script comes to an end.
ScriptsEnd == ~At("idle") ~> At("idle") \/ Unborn = {}

\* README.md, Fairness rules: "Cold table each run: data dir erased, server
\* restarted."  Stated of the sweep, which is where a script does both.
ColdTableEachRun == lastRun.cmd = "sweep" => lastRun.cold
=============================================================================
