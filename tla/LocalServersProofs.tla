------------------------- MODULE LocalServersProofs -------------------------
(***************************************************************************)
(* The safety properties of LocalServers for any bounds: what a killed     *)
(* script leaves behind whatever the servers do, and that sweeps are cold  *)
(* where a server told to stop exits before the wait for it is over.       *)
(***************************************************************************)
EXTENDS LocalServers, FiniteSetTheorems, TLAPS

\* Where a setup and a sweep are with the server they start: its arm's pid file is free,
\* it runs, its pid is in the file.
Freed == {"rmPid", "erase", "spawn", "writePid"}
Setup == {"erase", "spawn", "writePid", "health", "confirm", "create"}
Started ==
    script.pc \in {"health", "confirm", "create"} \/ (At("measure") /\ script.cmd = "sweep")
Emptied == {"spawn", "writePid", "health", "confirm", "create"}

\* The types of the rest.
ServerTypes ==
    /\ server \in [Pids -> [arm : Arms \cup {"none"},
                            st : {"unborn", "booting", "serving", "draining", "dead"}]]
    /\ told \subseteq Pids
    /\ held \in [Pids -> {"none", "cold", "warm"}]
    /\ disk \in [Arms -> {"none", "cold", "warm"}]
    /\ pidfile \in [Arms -> Pids \cup {NoPid}]
    /\ \A a \in Arms : pidfile[a] # NoPid => server[pidfile[a]].arm = a

\* A server belongs to an arm from its birth, and one at most serves an arm's port.
ServerInv ==
    /\ \A p \in Pids : server[p].st = "unborn" <=> server[p].arm = "none"
    /\ \A p \in Pids : server[p].st = "unborn" => p \notin told /\ held[p] = "none"
    /\ \A p, q \in Pids :
          server[p].st = "serving" /\ server[q].st = "serving" /\ server[p].arm = server[q].arm
            => p = q

\* The script's fields, and the commands that come to its steps.
Tries == 0..HealthAttempts \cup 0..WaitAttempts
Boots == 0..BootAttempts
Left == 0..Points
ScriptShape ==
    /\ script \in [cmd : {"none", "setup", "run", "sweep", "stop"}, arm : Arms \cup {"none"},
                   pc : {"idle", "stop", "waitExit", "measure"} \cup Freed \cup Setup,
                   pid : Pids \cup {NoPid}, tries : Tries, boots : Boots, left : Left]
    /\ ~At("idle") => script.arm \in Arms
    /\ script.pc \in {"stop", "waitExit", "rmPid"} => script.cmd \in {"setup", "sweep", "stop"}
    /\ script.pc \in Setup => script.cmd \in {"setup", "sweep"}
    /\ At("measure") => script.cmd \in {"run", "sweep"}

\* The script knows its server, and puts a pid in a file that names no server it would
\* then forget.
PidInv ==
    /\ At("writePid") \/ Started => script.pid \in Pids /\ server[script.pid].arm = script.arm
    /\ Started => pidfile[script.arm] = script.pid
    /\ At("waitExit") => script.pid = pidfile[script.arm] /\ script.pid \in told
    /\ script.pc \in Freed => pidfile[script.arm] \notin Live \ told

\* Servers that no pid file names, nor is about to.
Lost == {p \in Live : pidfile[server[p].arm] # p /\ ~(At("writePid") /\ script.pid = p)}
\* A step that kills no script loses no server, and one that does one at most.
LostMoves(S, R) ==
    \/ interrupts' = interrupts /\ R \subseteq S
    \/ interrupts' = interrupts + 1 /\ R \subseteq S \cup {script.pid}

LostInv ==
    /\ interrupts \in Nat
    /\ Cardinality(Lost \ told) <= interrupts

\* Where servers told to stop exit in time, none of an arm is left when its pid file is
\* free, so nothing but the script writes to the data directory it has erased.
PromptInv ==
    /\ At("waitExit") => script.tries > 0
    /\ script.pc \in Freed => ~Alive(pidfile[script.arm])
    /\ \A p \in Live \cap told :
          pidfile[server[p].arm] = p /\ (Started => server[p].arm # script.arm)

ColdInv ==
    /\ script.pc \in Emptied => disk[script.arm] = "none"
    /\ script.pc \in {"writePid", "health", "confirm", "create"} => held[script.pid] = "none"
    /\ At("measure") /\ script.cmd = "sweep" /\ (script.arm = "smolquery" \/ interrupts = 0) =>
          /\ disk[script.arm] = "cold"
          /\ \A p \in Listening(script.arm) : held[p] = "cold"

Base == ServerTypes /\ ServerInv /\ ScriptShape /\ PidInv
IInv ==
    /\ Base /\ LostInv
    /\ ~SlowExit => PromptInv /\ Cardinality(Lost) <= interrupts /\ ColdInv /\ SweepIsCold

-----------------------------------------------------------------------------

\* The bounds are numbers.
LEMMA Constants ==
    /\ MaxStarts \in Nat /\ WaitAttempts \in Nat /\ WaitAttempts > 0
    /\ HealthAttempts \in Nat /\ BootAttempts \in Nat /\ Points \in Nat
  BY LocalServersAssumption

\* The script's counters stay in their ranges when they count down.
LEMMA Counters ==
    /\ {0, HealthAttempts, WaitAttempts} \subseteq Tries
    /\ \A n \in Tries : n \in Nat /\ (n # 0 => n - 1 \in Tries)
    /\ {0, BootAttempts} \subseteq Boots
    /\ \A n \in Boots : n \in Nat /\ (n # 0 => n - 1 \in Boots)
    /\ {0, Points} \subseteq Left
    /\ \A n \in Left : n \in Nat /\ (n # 0 => n - 1 \in Left)
  BY Constants DEF Tries, Boots, Left

\* There are finitely many pids, and 0 is none.
LEMMA PidsFinite == IsFiniteSet(Pids) /\ NoPid \notin Pids
  BY FS_Interval, Constants DEF Pids, NoPid

\* A set with one member at most, in two forms.
LEMMA AtMostOne ==
    ASSUME NEW S, \A p, q \in S : p = q
    PROVE  Cardinality(S) <= 1
<1>1. CASE S = {}
  BY <1>1, FS_EmptySet
<1>2. CASE S # {}
  <2>1. PICK p \in S : S = {p}
    BY <1>2
  <2>2. Cardinality({p}) = 1
    BY FS_Singleton
  <2> QED
    BY <2>1, <2>2
<1> QED
  BY <1>1, <1>2

\* A part of a set of servers, and a set that gains one server at most.
LEMMA Fewer ==
    ASSUME NEW S \in SUBSET Pids, NEW R, R \subseteq S, NEW n \in Nat, Cardinality(S) <= n
    PROVE  Cardinality(R) \in Nat /\ Cardinality(R) <= n
<1>1. IsFiniteSet(S)
  BY PidsFinite, FS_Subset
<1> QED
  BY <1>1, FS_Subset, FS_CardinalityType

\* A set that gains one member at most has one more at most.
LEMMA OneMore ==
    ASSUME NEW S \in SUBSET Pids, NEW x, NEW R, R \subseteq S \cup {x},
           NEW n \in Nat, Cardinality(S) <= n
    PROVE  Cardinality(R) <= n + 1
<1>1. IsFiniteSet(S) /\ Cardinality(S) \in Nat
  BY PidsFinite, FS_Subset, FS_CardinalityType
<1>2. IsFiniteSet(S \cup {x}) /\ Cardinality(S \cup {x}) <= Cardinality(S) + 1
  <2>1. CASE x \in S
    <3>1. S \cup {x} = S
      BY <2>1
    <3> QED
      BY <1>1, <3>1
  <2>2. CASE x \notin S
    BY <1>1, <2>2, FS_AddElement
  <2> QED
    BY <2>1, <2>2
<1>3. Cardinality(R) \in Nat /\ Cardinality(R) <= Cardinality(S \cup {x})
  BY <1>2, FS_Subset, FS_CardinalityType
<1>4. Cardinality(S \cup {x}) \in Nat
  BY <1>2, FS_CardinalityType
<1> QED
  BY <1>1, <1>2, <1>3, <1>4

\* One server changes its state.
LEMMA OneServerMoves ==
    ASSUME ServerTypes, NEW p \in Pids, NEW st, Become(p, st)
    PROVE  \A q \in Pids : /\ server'[q].arm = server[q].arm
                           /\ server'[q].st = IF q = p THEN st ELSE server[q].st
  BY DEF ServerTypes, Become

\* A server is born to the script's arm.
LEMMA Spawned ==
    ASSUME ServerTypes, Spawn
    PROVE  \E p \in Pids :
             /\ server[p].st = "unborn" /\ p = script'.pid
             /\ server'[p] = [arm |-> script.arm, st |-> "booting"]
             /\ \A q \in Pids : q # p => server'[q] = server[q]
  BY DEF Spawn, Step, ServerTypes

\* The initial state satisfies the invariant.
LEMMA InitIInv == Init => IInv
<1> SUFFICES ASSUME Init PROVE IInv
  OBVIOUS
<1> USE DEF Init
<1>1. Live = {} /\ \A a \in Arms : Listening(a) = {}
  BY DEF Live, Alive, Listening
<1>2. Lost = {} /\ Lost \ told = {}
  BY <1>1 DEF Lost
<1>3. Cardinality(Lost) = 0 /\ Cardinality(Lost \ told) = 0
  BY <1>2, FS_EmptySet
<1>4. ServerTypes
  BY DEF ServerTypes, NoPid
<1>5. ServerInv
  BY DEF ServerInv
<1>6. ScriptShape /\ PidInv
  BY Counters DEF ScriptShape, PidInv, At, Started, Freed, Setup, NoPid
<1>7. LostInv
  BY <1>3 DEF LostInv
<1>8. PromptInv
  BY <1>1 DEF PromptInv, At, Freed
<1>9. ColdInv
  BY DEF ColdInv, Emptied, At
<1>10. SweepIsCold
  BY DEF SweepIsCold, SweepIsFreshAndCold, SmolquerySweepIsCold
<1> QED
  BY <1>3, <1>4, <1>5, <1>6, <1>7, <1>8, <1>9, <1>10 DEF IInv, Base

\* The steps of Next, one by one.
LEMMA NextCases ==
    ASSUME [Next]_vars
    PROVE  \/ \E c \in Commands : Start(c[1], c[2])
           \/ Signal \/ WaitForExit \/ RemovePidfile \/ Erase \/ Spawn \/ WritePid
           \/ Poll \/ Confirm \/ Create \/ Measure \/ Interrupt \/ UNCHANGED vars
           \/ \E p \in Pids : Bind(p) \/ Drain(p) \/ Exit(p) \/ Crash(p)
  BY DEF Next, ScriptStep, Rest

\* Where a script goes on after stop_arm, and after a server's exit.
LEMMA AfterStopCases ==
    ASSUME ScriptShape, At("rmPid")
    PROVE  \/ /\ script.cmd = "stop"
              /\ AfterStop = [script EXCEPT !.arm = "clickhouse", !.pc = "stop"]
           \/ AfterStop = Goto("idle")
           \/ /\ script.cmd \in {"setup", "sweep"}
              /\ AfterStop = [script EXCEPT !.pc = "erase", !.boots = BootAttempts]
<1>1. script.cmd \in {"setup", "sweep", "stop"} /\ script.arm \in Arms
  BY DEF ScriptShape, At
<1> QED
  BY <1>1 DEF AfterStop, Arms

\* Where the script goes when a run is over.
LEMMA ExitedCases ==
    ASSUME ScriptShape
    PROVE  \/ Exited = Goto("idle")
           \/ /\ script.boots - 1 \in Boots /\ script.arm = "smolquery"
              /\ Exited = [script EXCEPT !.pc = "erase", !.boots = @ - 1]
  BY Counters DEF Exited, Fatal, ScriptShape

\* What a poll comes to.
LEMMA PollCases ==
    ASSUME ScriptShape, Poll
    PROVE  \/ script' = Goto("idle")
           \/ script.arm = "smolquery" /\ script' = Goto("confirm")
           \/ script' = Goto("create")
           \/ script.tries - 1 \in Tries /\ script' = [script EXCEPT !.tries = @ - 1]
           \/ /\ script.boots - 1 \in Boots /\ script.arm = "smolquery" /\ ~Alive(script.pid)
              /\ script' = [script EXCEPT !.pc = "erase", !.boots = @ - 1]
  BY ExitedCases, Counters DEF Poll, ScriptShape, Step, Fatal, PollAgain

\* A server takes its arm's port only while nobody listens on it.
LEMMA ServerStep == ServerTypes /\ ServerInv /\ ScriptShape /\ [Next]_vars => ServerInv'
<1> SUFFICES ASSUME ServerTypes, ServerInv, ScriptShape, [Next]_vars PROVE ServerInv'
  OBVIOUS
<1> USE DEF ServerTypes, ServerInv, Arms, At, Alive, Live, Listening, servers, counts
<1>1. CASE \E c \in Commands : Start(c[1], c[2])
  BY <1>1 DEF Start, Commands
<1>2. CASE Signal
  BY <1>2 DEF Signal, Step, Goto, PidfileOf
<1>3. CASE WaitForExit
  BY <1>3 DEF WaitForExit, Step, Goto, ExitSeen
<1>4. CASE RemovePidfile
  BY <1>4 DEF RemovePidfile, Step, Goto, PidfileOf, AfterStop
<1>5. CASE Erase
  BY <1>5 DEF Erase, Step, Goto, Erased
<1>6. CASE Spawn
  <2>1. script.arm \in Arms
    BY <1>6 DEF Spawn, ScriptShape
  <2>2. \A q \in Pids : q # script'.pid => server'[q] = server[q]
    BY <1>6, Spawned
  <2>3. server'[script'.pid] = [arm |-> script.arm, st |-> "booting"]
    BY <1>6, Spawned
  <2> QED
    BY <1>6, <2>1, <2>2, <2>3 DEF Spawn
<1>7. CASE WritePid
  BY <1>7 DEF WritePid, Step, PidfileOf, PidWritten
<1>8. CASE Poll
  BY <1>8 DEF Poll, Step, Goto, Fatal, PollAgain, Exited
<1>9. CASE Confirm
  BY <1>9 DEF Confirm, Step, Goto, Fatal, Exited
<1>10. CASE Create
  BY <1>10 DEF Create, Step, Goto, Fatal, MayCreate
<1>11. CASE Measure
  BY <1>11 DEF Measure, Step, Goto, Fatal, AfterRun
<1>12. CASE Interrupt
  BY <1>12 DEF Interrupt, Goto, Fatal
<1>13. CASE UNCHANGED vars
  BY <1>13 DEF vars
<1>14. ASSUME NEW p \in Pids,
             Bind(p) \/ Drain(p) \/ Exit(p) \/ Crash(p)
      PROVE  ServerInv'
  <2>1. CASE Bind(p)
    BY <2>1, OneServerMoves DEF Bind
  <2>2. CASE Drain(p)
    BY <2>2, OneServerMoves DEF Drain
  <2>3. CASE Exit(p)
    BY <2>3, OneServerMoves DEF Exit
  <2>4. CASE Crash(p)
    BY <2>4, OneServerMoves DEF Crash
  <2> QED
    BY <1>14, <2>1, <2>2, <2>3, <2>4
<1> QED
  BY <1>1, <1>2, <1>3, <1>4, <1>5, <1>6, <1>7, <1>8, <1>9, <1>10, <1>11, <1>12, <1>13, <1>14,
     NextCases

\* A script goes from step to step of its command.
LEMMA ShapeStep == ServerTypes /\ ScriptShape /\ [Next]_vars => ScriptShape'
<1> SUFFICES ASSUME ServerTypes, ScriptShape, [Next]_vars PROVE ScriptShape'
  OBVIOUS
<1> USE Counters DEF ScriptShape, Arms, At, Freed, Setup, servers, counts
<1>1. CASE \E c \in Commands : Start(c[1], c[2])
  <2>1. PICK c \in Commands : Start(c[1], c[2])
    BY <1>1
  <2>2. c[1] \in {"setup", "run", "sweep", "stop"} /\ c[2] \in Arms
    BY DEF Commands, Arms
  <2> QED
    BY <2>1, <2>2 DEF Start
<1>2. CASE Signal
  <2>1. At("stop") /\ pidfile[script.arm] \in Pids \cup {NoPid}
    BY <1>2 DEF Signal, PidfileOf, ServerTypes
  <2>2. CASE script' = [script EXCEPT !.pc = "waitExit", !.pid = pidfile[script.arm],
                                     !.tries = WaitAttempts]
    BY <2>1, <2>2
  <2>3. CASE script' = Goto("rmPid")
    BY <2>1, <2>3 DEF Goto
  <2> QED
    BY <1>2, <2>2, <2>3 DEF Signal, Step, PidfileOf
<1>3. CASE WaitForExit
  <2>1. \/ script' = Goto("rmPid")
        \/ script.tries # 0 /\ script' = [script EXCEPT !.tries = @ - 1]
    BY <1>3 DEF WaitForExit, Step, ExitSeen
  <2>2. At("waitExit") /\ (script.tries # 0 => script.tries - 1 \in Tries)
    BY <1>3 DEF WaitForExit
  <2> QED
    BY <2>1, <2>2 DEF Goto
<1>4. CASE RemovePidfile
  <2>1. At("rmPid") /\ script' = AfterStop
    BY <1>4 DEF RemovePidfile, Step
  <2>2. CASE /\ script.cmd = "stop"
               /\ script' = [script EXCEPT !.arm = "clickhouse", !.pc = "stop"]
    BY <2>1, <2>2 DEF Goto
  <2>3. CASE script' = Goto("idle")
    BY <2>1, <2>3 DEF Goto
  <2>4. CASE /\ script.cmd \in {"setup", "sweep"}
               /\ script' = [script EXCEPT !.pc = "erase", !.boots = BootAttempts]
    BY <2>1, <2>4 DEF Goto
  <2> QED
    BY <2>1, <2>2, <2>3, <2>4, AfterStopCases
<1>5. CASE Erase
  BY <1>5 DEF Erase, Step, Goto, Erased
<1>6. CASE Spawn
  BY <1>6 DEF Spawn, Step
<1>7. CASE WritePid
  BY <1>7 DEF WritePid, Step, PidfileOf, PidWritten
<1>8. CASE Poll
  <2>1. At("health") /\ Poll
    BY <1>8 DEF Poll
  <2>2. CASE script' = Goto("idle")
    BY <2>1, <2>2 DEF Goto
  <2>3. CASE script.arm = "smolquery" /\ script' = Goto("confirm")
    BY <2>1, <2>3 DEF Goto
  <2>4. CASE script' = Goto("create")
    BY <2>1, <2>4 DEF Goto
  <2>5. CASE script.tries - 1 \in Tries /\ script' = [script EXCEPT !.tries = @ - 1]
    BY <2>1, <2>5 DEF Goto
  <2>6. CASE /\ script.boots - 1 \in Boots /\ script.arm = "smolquery" /\ ~Alive(script.pid)
               /\ script' = [script EXCEPT !.pc = "erase", !.boots = @ - 1]
    BY <2>1, <2>6 DEF Goto
  <2> QED
    BY <2>1, <2>2, <2>3, <2>4, <2>5, <2>6, PollCases
<1>9. CASE Confirm
  <2>1. At("confirm") /\ script' \in {Goto("create"), Exited}
    BY <1>9 DEF Confirm, Step
  <2>2. CASE script' = Goto("create")
    BY <2>1, <2>2 DEF Goto
  <2>3. CASE script' = Goto("idle")
    BY <2>1, <2>3 DEF Goto
  <2>4. CASE /\ script.boots - 1 \in Boots /\ script.arm = "smolquery"
               /\ script' = [script EXCEPT !.pc = "erase", !.boots = @ - 1]
    BY <2>1, <2>4 DEF Goto
  <2> QED
    BY <2>1, <2>2, <2>3, <2>4, ExitedCases
<1>10. CASE Create
  BY <1>10 DEF Create, Step, Goto, Fatal, MayCreate
<1>11. CASE Measure
  <2>1. At("measure") /\ UNCHANGED <<server, told, pidfile>>
    BY <1>11 DEF Measure
  <2>2. /\ AfterRun \in {"idle", "stop"}
        /\ (IF script.left > 0 THEN script.left - 1 ELSE 0) \in Left
    BY Counters DEF AfterRun
  <2>3. \/ script' = Goto("idle")
        \/ script' = [script EXCEPT !.pc = AfterRun, !.left = IF @ > 0 THEN @ - 1 ELSE 0]
    BY <1>11 DEF Measure, Step, Fatal
  <2>4. CASE script' = Goto("idle")
    BY <2>1, <2>4 DEF Goto, AfterRun
  <2>5. CASE script' = [script EXCEPT !.pc = AfterRun, !.left = IF @ > 0 THEN @ - 1 ELSE 0]
    BY <2>1, <2>2, <2>5 DEF Goto, AfterRun
  <2> QED
    BY <2>1, <2>4, <2>5, <2>3
<1>12. CASE Interrupt
  BY <1>12 DEF Interrupt, Goto, Fatal
<1>13. CASE UNCHANGED vars
  BY <1>13 DEF vars
<1>14. ASSUME NEW p \in Pids,
             Bind(p) \/ Drain(p) \/ Exit(p) \/ Crash(p)
      PROVE  ScriptShape'
  <2>1. CASE Bind(p)
    BY <2>1 DEF Bind
  <2>2. CASE Drain(p)
    BY <2>2 DEF Drain
  <2>3. CASE Exit(p)
    BY <2>3 DEF Exit
  <2>4. CASE Crash(p)
    BY <2>4 DEF Crash
  <2> QED
    BY <1>14, <2>1, <2>2, <2>3, <2>4
<1> QED
  BY <1>1, <1>2, <1>3, <1>4, <1>5, <1>6, <1>7, <1>8, <1>9, <1>10, <1>11, <1>12, <1>13, <1>14,
     NextCases

\* A pid file is overwritten when it names no server that would be forgotten.
LEMMA PidStep == Base /\ [Next]_vars => PidInv'
<1> SUFFICES ASSUME Base, [Next]_vars PROVE PidInv'
  OBVIOUS
<1> USE DEF Base, ServerTypes, ServerInv, ScriptShape, PidInv, At, Alive, Live, Started, Freed,
    Setup, NoPid, servers, counts
<1>1. CASE \E c \in Commands : Start(c[1], c[2])
  BY <1>1 DEF Start, Commands
<1>2. CASE Signal
  <2>1. /\ At("stop") /\ UNCHANGED <<server, pidfile>> /\ script.arm \in Arms
        /\ pidfile[script.arm] \in Pids \cup {NoPid}
    BY <1>2 DEF Signal, PidfileOf
  <2>2. CASE /\ Alive(pidfile[script.arm])
             /\ told' = told \cup {pidfile[script.arm]}
             /\ script' = [script EXCEPT !.pc = "waitExit", !.pid = pidfile[script.arm],
                                     !.tries = WaitAttempts]
    BY <2>1, <2>2
  <2>3. CASE ~Alive(pidfile[script.arm]) /\ told' = told /\ script' = Goto("rmPid")
    BY <2>1, <2>3 DEF Goto
  <2> QED
    BY <1>2, <2>2, <2>3 DEF Signal, Step, PidfileOf
<1>3. CASE WaitForExit
  <2>1. At("waitExit") /\ UNCHANGED <<servers, pidfile>>
    BY <1>3 DEF WaitForExit
  <2>2. CASE script' = Goto("rmPid") /\ ExitSeen
    BY <2>1, <2>2 DEF Goto, ExitSeen
  <2>3. CASE script' = [script EXCEPT !.tries = @ - 1]
    BY <2>1, <2>3
  <2> QED
    BY <1>3, <2>2, <2>3 DEF WaitForExit, Step
<1>4. CASE RemovePidfile
  <2>1. /\ At("rmPid") /\ script' = AfterStop /\ UNCHANGED servers
        /\ pidfile' = [pidfile EXCEPT ![script.arm] = NoPid]
    BY <1>4 DEF RemovePidfile, Step, PidfileOf
  <2>2. CASE /\ script.cmd = "stop"
               /\ script' = [script EXCEPT !.arm = "clickhouse", !.pc = "stop"]
    BY <2>1, <2>2 DEF Goto, Arms
  <2>3. CASE script' = Goto("idle")
    BY <2>1, <2>3 DEF Goto, Arms
  <2>4. CASE /\ script.cmd \in {"setup", "sweep"}
               /\ script' = [script EXCEPT !.pc = "erase", !.boots = BootAttempts]
    BY <2>1, <2>4 DEF Goto, Arms
  <2> QED
    BY <2>1, <2>2, <2>3, <2>4, AfterStopCases
<1>5. CASE Erase
  BY <1>5 DEF Erase, Step, Goto, Erased
<1>6. CASE Spawn
  <2>1. PICK p \in Pids : /\ server[p].st = "unborn" /\ p = script'.pid
                           /\ server'[p] = [arm |-> script.arm, st |-> "booting"]
                           /\ \A q \in Pids : q # p => server'[q] = server[q]
    BY <1>6, Spawned
  <2>2. /\ script'.pc = "writePid" /\ script'.arm = script.arm /\ At("spawn")
        /\ UNCHANGED <<told, pidfile>>
    BY <1>6 DEF Spawn, Step
  <2>3. script.arm \in Arms /\ pidfile[script.arm] # p
    BY <2>1, <2>2, PidsFinite DEF Arms
  <2> QED
    BY <2>1, <2>2, <2>3
<1>7. CASE WritePid
  BY <1>7 DEF WritePid, Step, PidfileOf, PidWritten
<1>8. CASE Poll
  <2>1. Poll /\ At("health") /\ UNCHANGED <<servers, pidfile>>
    BY <1>8 DEF Poll
  <2>2. CASE script' = Goto("idle")
    BY <2>1, <2>2 DEF Goto
  <2>3. CASE script.arm = "smolquery" /\ script' = Goto("confirm")
    BY <2>1, <2>3 DEF Goto
  <2>4. CASE script' = Goto("create")
    BY <2>1, <2>4 DEF Goto
  <2>5. CASE script.tries - 1 \in Tries /\ script' = [script EXCEPT !.tries = @ - 1]
    BY <2>1, <2>5 DEF Goto
  <2>6. CASE /\ script.boots - 1 \in Boots /\ script.arm = "smolquery" /\ ~Alive(script.pid)
               /\ script' = [script EXCEPT !.pc = "erase", !.boots = @ - 1]
    BY <2>1, <2>6 DEF Goto
  <2> QED
    BY <2>1, <2>2, <2>3, <2>4, <2>5, <2>6, PollCases
<1>9. CASE Confirm
  BY <1>9 DEF Confirm, Step, Goto, Fatal, Exited
<1>10. CASE Create
  BY <1>10 DEF Create, Step, Goto, Fatal, MayCreate
<1>11. CASE Measure
  <2>1. At("measure") /\ UNCHANGED <<server, told, pidfile>>
    BY <1>11 DEF Measure
  <2>2. /\ AfterRun \in {"idle", "stop"}
        /\ (IF script.left > 0 THEN script.left - 1 ELSE 0) \in Left
    BY Counters DEF AfterRun
  <2>3. \/ script' = Goto("idle")
        \/ script' = [script EXCEPT !.pc = AfterRun, !.left = IF @ > 0 THEN @ - 1 ELSE 0]
    BY <1>11 DEF Measure, Step, Fatal
  <2>4. CASE script' = Goto("idle")
    BY <2>1, <2>4 DEF Goto, AfterRun
  <2>5. CASE script' = [script EXCEPT !.pc = AfterRun, !.left = IF @ > 0 THEN @ - 1 ELSE 0]
    BY <2>1, <2>2, <2>5 DEF Goto, AfterRun
  <2> QED
    BY <2>1, <2>4, <2>5, <2>3
<1>12. CASE Interrupt
  BY <1>12 DEF Interrupt, Goto, Fatal
<1>13. CASE UNCHANGED vars
  BY <1>13 DEF vars
<1>14. ASSUME NEW p \in Pids,
             Bind(p) \/ Drain(p) \/ Exit(p) \/ Crash(p)
      PROVE  PidInv'
  <2>1. CASE Bind(p)
    BY <2>1, OneServerMoves DEF Bind
  <2>2. CASE Drain(p)
    BY <2>2, OneServerMoves DEF Drain
  <2>3. CASE Exit(p)
    BY <2>3, OneServerMoves DEF Exit
  <2>4. CASE Crash(p)
    BY <2>4, OneServerMoves DEF Crash
  <2> QED
    BY <1>14, <2>1, <2>2, <2>3, <2>4
<1> QED
  BY <1>1, <1>2, <1>3, <1>4, <1>5, <1>6, <1>7, <1>8, <1>9, <1>10, <1>11, <1>12, <1>13, <1>14,
     NextCases

\* Every step preserves the types.
LEMMA TypeStep == Base /\ [Next]_vars => ServerTypes'
<1> SUFFICES ASSUME Base, [Next]_vars PROVE ServerTypes'
  OBVIOUS
<1> USE PidsFinite DEF Base, ServerTypes, ScriptShape, PidInv, Arms, At, NoPid, servers,
    counts
<1>1. CASE \E c \in Commands : Start(c[1], c[2])
  BY <1>1 DEF Start, Commands
<1>2. CASE Signal
  BY <1>2 DEF Signal, Step, Goto, PidfileOf, Alive
<1>3. CASE WaitForExit
  BY <1>3 DEF WaitForExit, Step, Goto, ExitSeen
<1>4. CASE RemovePidfile
  BY <1>4 DEF RemovePidfile, Step, Goto, PidfileOf, AfterStop
<1>5. CASE Erase
  BY <1>5 DEF Erase, Step, Goto, Erased
<1>6. CASE Spawn
  <2>1. PICK p \in Pids : /\ server[p].st = "unborn" /\ p = script'.pid
                           /\ server'[p] = [arm |-> script.arm, st |-> "booting"]
                           /\ \A q \in Pids : q # p => server'[q] = server[q]
    BY <1>6, Spawned
  <2>2. script.arm \in Arms /\ UNCHANGED <<told, held, disk, pidfile>>
    BY <1>6 DEF Spawn
  <2>3. \A a \in Arms : pidfile[a] # p
    BY <2>1 DEF ServerInv
  <2>4. \A a \in Arms : pidfile'[a] # NoPid => server'[pidfile'[a]].arm = a
    BY <2>1, <2>2, <2>3
  <2>5. server' = [server EXCEPT ![p] = [arm |-> script.arm, st |-> "booting"]]
    BY <1>6, <2>1 DEF Spawn, Step
  <2>6. server' \in [Pids -> [arm : Arms \cup {"none"},
                            st : {"unborn", "booting", "serving", "draining", "dead"}]]
    BY <2>2, <2>5
  <2> QED
    BY <2>2, <2>4, <2>6
<1>7. CASE WritePid
  BY <1>7 DEF WritePid, Step, PidfileOf, PidWritten
<1>8. CASE Poll
  BY <1>8 DEF Poll, Step, Goto, Fatal, PollAgain, Exited
<1>9. CASE Confirm
  BY <1>9 DEF Confirm, Step, Goto, Fatal, Exited
<1>10. CASE Create
  BY <1>10 DEF Create, Step, Goto, Fatal, MayCreate
<1>11. CASE Measure
  BY <1>11 DEF Measure, Step, Goto, Fatal, AfterRun
<1>12. CASE Interrupt
  BY <1>12 DEF Interrupt, Goto, Fatal
<1>13. CASE UNCHANGED vars
  BY <1>13 DEF vars
<1>14. ASSUME NEW p \in Pids,
             Bind(p) \/ Drain(p) \/ Exit(p) \/ Crash(p)
      PROVE  ServerTypes'
  <2>1. CASE Bind(p)
    <3>1. server[p].arm \in Arms
      BY <2>1 DEF Bind, ServerInv
    <3>2. disk[server[p].arm] \in {"none", "cold", "warm"}
      BY <3>1
    <3>3. \A a \in Arms : pidfile'[a] # NoPid => server'[pidfile'[a]].arm = a
      BY <2>1, OneServerMoves DEF Bind
    <3> QED
      BY <2>1, <3>2, <3>3 DEF Bind, Become
  <2>2. CASE Drain(p)
    BY <2>2, OneServerMoves DEF Drain, Become
  <2>3. CASE Exit(p)
    BY <2>3, OneServerMoves DEF Exit, Become, Alive, ServerInv
  <2>4. CASE Crash(p)
    BY <2>4, OneServerMoves DEF Crash, Become
  <2> QED
    BY <1>14, <2>1, <2>2, <2>3, <2>4
<1> QED
  BY <1>1, <1>2, <1>3, <1>4, <1>5, <1>6, <1>7, <1>8, <1>9, <1>10, <1>11, <1>12, <1>13, <1>14,
     NextCases

\* Only a killed script loses a server that was not told to stop.
LEMMA LostStep == Base /\ [Next]_vars => LostMoves(Lost \ told, (Lost \ told)')
<1> SUFFICES ASSUME Base, [Next]_vars PROVE LostMoves(Lost \ told, (Lost \ told)')
  OBVIOUS
<1> USE DEF Base, ServerInv, LostMoves, ServerTypes, ScriptShape, PidInv, Lost, Live, Alive,
    Started, At, Freed, NoPid, servers, counts
<1>1. CASE \E c \in Commands : Start(c[1], c[2])
  BY <1>1 DEF Start, Commands
<1>2. CASE Signal
  BY <1>2 DEF Signal, Step, Goto, PidfileOf
<1>3. CASE WaitForExit
  BY <1>3 DEF WaitForExit, Step, Goto, ExitSeen
<1>4. CASE RemovePidfile
  BY <1>4 DEF RemovePidfile, Step, Goto, PidfileOf, AfterStop
<1>5. CASE Erase
  BY <1>5 DEF Erase, Step, Goto, Erased
<1>6. CASE Spawn
  <2>1. PICK p \in Pids : /\ server[p].st = "unborn" /\ p = script'.pid
                           /\ server'[p] = [arm |-> script.arm, st |-> "booting"]
                           /\ \A q \in Pids : q # p => server'[q] = server[q]
    BY <1>6, Spawned
  <2>2. script'.pc = "writePid" /\ script'.arm = script.arm /\ At("spawn")
        /\ UNCHANGED <<told, pidfile, interrupts>>
    BY <1>6 DEF Spawn, Step, ScriptShape
  <2> QED
    BY <2>1, <2>2
<1>7. CASE WritePid
  BY <1>7 DEF WritePid, Step, PidfileOf, PidWritten
<1>8. CASE Poll
  BY <1>8 DEF Poll, Step, Goto, Fatal, PollAgain, Exited
<1>9. CASE Confirm
  BY <1>9 DEF Confirm, Step, Goto, Fatal, Exited
<1>10. CASE Create
  BY <1>10 DEF Create, Step, Goto, Fatal, MayCreate
<1>11. CASE Measure
  BY <1>11 DEF Measure, Step, Goto, Fatal, AfterRun
<1>12. CASE Interrupt
  BY <1>12 DEF Interrupt, Goto, Fatal
<1>13. CASE UNCHANGED vars
  BY <1>13 DEF vars
<1>14. ASSUME NEW p \in Pids,
             Bind(p) \/ Drain(p) \/ Exit(p) \/ Crash(p)
      PROVE  LostMoves(Lost \ told, (Lost \ told)')
  <2>1. CASE Bind(p)
    BY <2>1, OneServerMoves DEF Bind
  <2>2. CASE Drain(p)
    BY <2>2, OneServerMoves DEF Drain
  <2>3. CASE Exit(p)
    BY <2>3, OneServerMoves DEF Exit
  <2>4. CASE Crash(p)
    BY <2>4, OneServerMoves DEF Crash
  <2> QED
    BY <1>14, <2>1, <2>2, <2>3, <2>4
<1> QED
  BY <1>1, <1>2, <1>3, <1>4, <1>5, <1>6, <1>7, <1>8, <1>9, <1>10, <1>11, <1>12, <1>13, <1>14,
     NextCases

\* Where servers exit in time, only a killed script loses one at all.
LEMMA LostPromptStep == Base /\ PromptInv /\ [Next]_vars => LostMoves(Lost, Lost')
<1> SUFFICES ASSUME Base, PromptInv, [Next]_vars PROVE LostMoves(Lost, Lost')
  OBVIOUS
<1> USE DEF Base, ServerInv, LostMoves, ServerTypes, ScriptShape, PidInv, PromptInv, Lost,
    Live, Alive, Started, At, Freed, NoPid, servers, counts
<1>1. CASE \E c \in Commands : Start(c[1], c[2])
  BY <1>1 DEF Start, Commands
<1>2. CASE Signal
  BY <1>2 DEF Signal, Step, Goto, PidfileOf
<1>3. CASE WaitForExit
  BY <1>3 DEF WaitForExit, Step, Goto, ExitSeen
<1>4. CASE RemovePidfile
  BY <1>4 DEF RemovePidfile, Step, Goto, PidfileOf, AfterStop
<1>5. CASE Erase
  BY <1>5 DEF Erase, Step, Goto, Erased
<1>6. CASE Spawn
  <2>1. PICK p \in Pids : /\ server[p].st = "unborn" /\ p = script'.pid
                           /\ server'[p] = [arm |-> script.arm, st |-> "booting"]
                           /\ \A q \in Pids : q # p => server'[q] = server[q]
    BY <1>6, Spawned
  <2>2. script'.pc = "writePid" /\ script'.arm = script.arm /\ At("spawn")
        /\ UNCHANGED <<told, pidfile, interrupts>>
    BY <1>6 DEF Spawn, Step, ScriptShape
  <2> QED
    BY <2>1, <2>2
<1>7. CASE WritePid
  BY <1>7 DEF WritePid, Step, PidfileOf, PidWritten
<1>8. CASE Poll
  BY <1>8 DEF Poll, Step, Goto, Fatal, PollAgain, Exited
<1>9. CASE Confirm
  BY <1>9 DEF Confirm, Step, Goto, Fatal, Exited
<1>10. CASE Create
  BY <1>10 DEF Create, Step, Goto, Fatal, MayCreate
<1>11. CASE Measure
  BY <1>11 DEF Measure, Step, Goto, Fatal, AfterRun
<1>12. CASE Interrupt
  BY <1>12 DEF Interrupt, Goto, Fatal
<1>13. CASE UNCHANGED vars
  BY <1>13 DEF vars
<1>14. ASSUME NEW p \in Pids,
             Bind(p) \/ Drain(p) \/ Exit(p) \/ Crash(p)
      PROVE  LostMoves(Lost, Lost')
  <2>1. CASE Bind(p)
    BY <2>1, OneServerMoves DEF Bind
  <2>2. CASE Drain(p)
    BY <2>2, OneServerMoves DEF Drain
  <2>3. CASE Exit(p)
    BY <2>3, OneServerMoves DEF Exit
  <2>4. CASE Crash(p)
    BY <2>4, OneServerMoves DEF Crash
  <2> QED
    BY <1>14, <2>1, <2>2, <2>3, <2>4
<1> QED
  BY <1>1, <1>2, <1>3, <1>4, <1>5, <1>6, <1>7, <1>8, <1>9, <1>10, <1>11, <1>12, <1>13, <1>14,
     NextCases

\* Where servers exit in time, a pid file is not freed before its server is gone.
LEMMA PromptStep == Base /\ PromptInv /\ ~SlowExit /\ [Next]_vars => PromptInv'
<1> SUFFICES ASSUME Base, PromptInv, ~SlowExit, [Next]_vars PROVE PromptInv'
  OBVIOUS
<1> USE DEF Base, ServerTypes, ScriptShape, PidInv, PromptInv, Live, Alive, Started, At, Freed,
    Setup, NoPid, servers, counts
<1>1. CASE \E c \in Commands : Start(c[1], c[2])
  BY <1>1 DEF Start, Commands
<1>2. CASE Signal
  <2>1. /\ At("stop") /\ UNCHANGED <<server, pidfile>> /\ script.arm \in Arms
        /\ pidfile[script.arm] \in Pids \cup {NoPid}
    BY <1>2 DEF Signal, PidfileOf
  <2>2. CASE /\ Alive(pidfile[script.arm])
             /\ told' = told \cup {pidfile[script.arm]}
             /\ script' = [script EXCEPT !.pc = "waitExit", !.pid = pidfile[script.arm],
                                     !.tries = WaitAttempts]
    BY <2>1, <2>2, Constants
  <2>3. CASE ~Alive(pidfile[script.arm]) /\ told' = told /\ script' = Goto("rmPid")
    BY <2>1, <2>3 DEF Goto
  <2> QED
    BY <1>2, <2>2, <2>3 DEF Signal, Step, PidfileOf
<1>3. CASE WaitForExit
  BY <1>3, Counters DEF WaitForExit, Step, Goto, ExitSeen
<1>4. CASE RemovePidfile
  <2>1. /\ At("rmPid") /\ script' = AfterStop /\ UNCHANGED servers
        /\ pidfile' = [pidfile EXCEPT ![script.arm] = NoPid]
    BY <1>4 DEF RemovePidfile, Step, PidfileOf
  <2>2. CASE /\ script.cmd = "stop"
               /\ script' = [script EXCEPT !.arm = "clickhouse", !.pc = "stop"]
    BY <2>1, <2>2 DEF Goto, Arms
  <2>3. CASE script' = Goto("idle")
    BY <2>1, <2>3 DEF Goto, Arms
  <2>4. CASE /\ script.cmd \in {"setup", "sweep"}
               /\ script' = [script EXCEPT !.pc = "erase", !.boots = BootAttempts]
    BY <2>1, <2>4 DEF Goto, Arms
  <2> QED
    BY <2>1, <2>2, <2>3, <2>4, AfterStopCases
<1>5. CASE Erase
  BY <1>5 DEF Erase, Step, Goto, Erased
<1>6. CASE Spawn
  <2>1. PICK p \in Pids : /\ server[p].st = "unborn" /\ p = script'.pid
                           /\ server'[p] = [arm |-> script.arm, st |-> "booting"]
                           /\ \A q \in Pids : q # p => server'[q] = server[q]
    BY <1>6, Spawned
  <2>2. script'.pc = "writePid" /\ script'.arm = script.arm /\ At("spawn")
        /\ UNCHANGED <<told, pidfile, interrupts>>
    BY <1>6 DEF Spawn, Step, ScriptShape
  <2>3. p \notin told /\ pidfile[script.arm] # p
    BY <2>1, <2>2, PidsFinite DEF ServerInv, Arms
  <2> QED
    BY <2>1, <2>2, <2>3
<1>7. CASE WritePid
  BY <1>7 DEF WritePid, Step, PidfileOf, PidWritten
<1>8. CASE Poll
  <2>1. Poll /\ At("health") /\ UNCHANGED <<servers, pidfile>>
    BY <1>8 DEF Poll
  <2>2. CASE script' = Goto("idle")
    BY <2>1, <2>2 DEF Goto
  <2>3. CASE script.arm = "smolquery" /\ script' = Goto("confirm")
    BY <2>1, <2>3 DEF Goto
  <2>4. CASE script' = Goto("create")
    BY <2>1, <2>4 DEF Goto
  <2>5. CASE script.tries - 1 \in Tries /\ script' = [script EXCEPT !.tries = @ - 1]
    BY <2>1, <2>5 DEF Goto
  <2>6. CASE /\ script.boots - 1 \in Boots /\ script.arm = "smolquery" /\ ~Alive(script.pid)
               /\ script' = [script EXCEPT !.pc = "erase", !.boots = @ - 1]
    BY <2>1, <2>6 DEF Goto
  <2> QED
    BY <2>1, <2>2, <2>3, <2>4, <2>5, <2>6, PollCases
<1>9. CASE Confirm
  BY <1>9 DEF Confirm, Step, Goto, Fatal, Exited
<1>10. CASE Create
  BY <1>10 DEF Create, Step, Goto, Fatal, MayCreate
<1>11. CASE Measure
  <2>1. At("measure") /\ UNCHANGED <<server, told, pidfile>>
    BY <1>11 DEF Measure
  <2>2. /\ AfterRun \in {"idle", "stop"}
        /\ (IF script.left > 0 THEN script.left - 1 ELSE 0) \in Left
    BY Counters DEF AfterRun
  <2>3. \/ script' = Goto("idle")
        \/ script' = [script EXCEPT !.pc = AfterRun, !.left = IF @ > 0 THEN @ - 1 ELSE 0]
    BY <1>11 DEF Measure, Step, Fatal
  <2>4. CASE script' = Goto("idle")
    BY <2>1, <2>4 DEF Goto, AfterRun
  <2>5. CASE script' = [script EXCEPT !.pc = AfterRun, !.left = IF @ > 0 THEN @ - 1 ELSE 0]
    BY <2>1, <2>2, <2>5 DEF Goto, AfterRun
  <2> QED
    BY <2>1, <2>4, <2>5, <2>3
<1>12. CASE Interrupt
  BY <1>12 DEF Interrupt, Goto, Fatal
<1>13. CASE UNCHANGED vars
  BY <1>13 DEF vars
<1>14. ASSUME NEW p \in Pids,
             Bind(p) \/ Drain(p) \/ Exit(p) \/ Crash(p)
      PROVE  PromptInv'
  <2>1. CASE Bind(p)
    <3>1. PICK st \in {"serving", "dead"} : Become(p, st)
      BY <2>1 DEF Bind
    <3>2. \A q \in Pids : /\ server'[q].arm = server[q].arm
                           /\ server'[q].st = IF q = p THEN st ELSE server[q].st
      BY <3>1, OneServerMoves
    <3>3. server[p].st = "booting" /\ UNCHANGED <<told, pidfile, script>>
      BY <2>1 DEF Bind
    <3> QED
      BY <3>2, <3>3
  <2>2. CASE Drain(p)
    BY <2>2, OneServerMoves DEF Drain
  <2>3. CASE Exit(p)
    BY <2>3, OneServerMoves DEF Exit
  <2>4. CASE Crash(p)
    BY <2>4, OneServerMoves DEF Crash
  <2> QED
    BY <1>14, <2>1, <2>2, <2>3, <2>4
<1> QED
  BY <1>1, <1>2, <1>3, <1>4, <1>5, <1>6, <1>7, <1>8, <1>9, <1>10, <1>11, <1>12, <1>13, <1>14,
     NextCases

\* After a measurement the script is at its end or stops the server.
LEMMA MeasureEnds ==
    ASSUME ScriptShape, Measure
    PROVE  script'.pc \in {"idle", "stop"}
<1>1. \/ script' = [script EXCEPT !.pc = "idle"]
      \/ script' = [script EXCEPT !.pc = AfterRun, !.left = IF @ > 0 THEN @ - 1 ELSE 0]
  BY DEF Measure, Step, Fatal, Goto
<1>2. AfterRun \in {"idle", "stop"}
  BY DEF AfterRun
<1> QED
  BY <1>1, <1>2 DEF ScriptShape

\* Where no script was killed, no server is lost.
LEMMA NoneLost ==
    ASSUME Cardinality(Lost) <= interrupts, interrupts = 0
    PROVE  Lost = {}
<1>1. IsFiniteSet(Lost) /\ Cardinality(Lost) \in Nat
  BY PidsFinite, FS_Subset, FS_CardinalityType DEF Lost, Live
<1>2. Cardinality(Lost) = 0
  BY <1>1
<1> QED
  BY <1>1, <1>2, FS_EmptySet

\* What a script has erased stays empty until it creates its table.
LEMMA ColdStep ==
    Base /\ PromptInv /\ Cardinality(Lost) <= interrupts /\ ColdInv /\ interrupts \in Nat /\ [Next]_vars
      => ColdInv'
<1> SUFFICES ASSUME Base, PromptInv, Cardinality(Lost) <= interrupts, ColdInv, interrupts \in Nat, [Next]_vars
             PROVE  ColdInv'
  OBVIOUS
<1> USE DEF Base, ServerTypes, ServerInv, ScriptShape, PidInv, PromptInv, ColdInv, Emptied,
    Arms, Listening, Live, Alive, Started, At, Freed, Setup, NoPid, servers, counts
<1>1. CASE \E c \in Commands : Start(c[1], c[2])
  BY <1>1 DEF Start, Commands
<1>2. CASE Signal
  <2>1. /\ At("stop") /\ UNCHANGED <<server, pidfile, held, disk,
                     interrupts>> /\ script.arm \in Arms
        /\ pidfile[script.arm] \in Pids \cup {NoPid}
    BY <1>2 DEF Signal, PidfileOf, Step
  <2>2. CASE /\ Alive(pidfile[script.arm])
             /\ told' = told \cup {pidfile[script.arm]}
             /\ script' = [script EXCEPT !.pc = "waitExit", !.pid = pidfile[script.arm],
                                     !.tries = WaitAttempts]
    BY <2>1, <2>2
  <2>3. CASE ~Alive(pidfile[script.arm]) /\ told' = told /\ script' = Goto("rmPid")
    BY <2>1, <2>3 DEF Goto
  <2> QED
    BY <1>2, <2>2, <2>3 DEF Signal, Step, PidfileOf
<1>3. CASE WaitForExit
  BY <1>3 DEF WaitForExit, Step, Goto, ExitSeen
<1>4. CASE RemovePidfile
  BY <1>4 DEF RemovePidfile, Step, Goto, PidfileOf, AfterStop
<1>5. CASE Erase
  BY <1>5 DEF Erase, Step, Goto, Erased
<1>6. CASE Spawn
  <2>1. PICK p \in Pids : /\ server[p].st = "unborn" /\ p = script'.pid
                           /\ server'[p] = [arm |-> script.arm, st |-> "booting"]
                           /\ \A q \in Pids : q # p => server'[q] = server[q]
    BY <1>6, Spawned
  <2>2. script'.pc = "writePid" /\ script'.arm = script.arm /\ At("spawn")
        /\ UNCHANGED <<held, disk, interrupts>>
    BY <1>6 DEF Spawn, Step, ScriptShape
  <2> QED
    BY <2>1, <2>2
<1>7. CASE WritePid
  BY <1>7 DEF WritePid, Step, PidfileOf, PidWritten
<1>8. CASE Poll
  <2>1. Poll /\ At("health") /\ UNCHANGED <<servers, pidfile>>
    BY <1>8 DEF Poll
  <2>2. CASE script' = Goto("idle")
    BY <2>1, <2>2 DEF Goto
  <2>3. CASE script.arm = "smolquery" /\ script' = Goto("confirm")
    BY <2>1, <2>3 DEF Goto
  <2>4. CASE script' = Goto("create")
    BY <2>1, <2>4 DEF Goto
  <2>5. CASE script.tries - 1 \in Tries /\ script' = [script EXCEPT !.tries = @ - 1]
    BY <2>1, <2>5 DEF Goto
  <2>6. CASE /\ script.boots - 1 \in Boots /\ script.arm = "smolquery" /\ ~Alive(script.pid)
               /\ script' = [script EXCEPT !.pc = "erase", !.boots = @ - 1]
    BY <2>1, <2>6 DEF Goto
  <2> QED
    BY <2>1, <2>2, <2>3, <2>4, <2>5, <2>6, PollCases
<1>9. CASE Confirm
  BY <1>9 DEF Confirm, Step, Goto, Fatal, Exited
<1>10. CASE Create
  <2>1. At("create") /\ script.cmd \in {"setup", "sweep"} /\ UNCHANGED <<server, interrupts>>
    BY <1>10 DEF Create, Step
  <2>2. CASE script' = Goto("idle")
    BY <2>2 DEF Goto
  <2>3. ASSUME NEW p \in Listening(script.arm), MayCreate(script.arm, p),
               held' = [held EXCEPT ![p] = IF @ = "none" THEN "cold" ELSE @],
               disk' = [disk EXCEPT ![script.arm] = IF @ = "none" THEN "cold" ELSE @],
               script' = Goto("measure")
        PROVE  ColdInv'
    <3>1. script'.pc = "measure" /\ script'.arm = script.arm /\ script'.cmd = script.cmd
      BY <2>3 DEF Goto
    <3>2. disk'[script.arm] = "cold"
      BY <2>1, <2>3
    <3>3. \A q \in Listening(script.arm)' : q = p
      BY <2>1, <3>1
    <3>4. script.arm = "smolquery" \/ interrupts = 0 => held[p] = "none"
      <4>1. CASE script.arm = "smolquery"
        BY <2>3, <4>1 DEF MayCreate
      <4>2. CASE interrupts = 0
        <5>1. p \in Live /\ p \notin Lost
          BY <4>2, NoneLost, PidsFinite
        <5>2. p = script.pid
          BY <2>1, <5>1 DEF Lost
        <5> QED
          BY <2>1, <5>2
      <4> QED
        BY <4>1, <4>2
    <3> QED
      BY <2>1, <2>3, <3>1, <3>2, <3>3, <3>4
  <2>4. \/ script' = Goto("idle")
        \/ \E p \in Listening(script.arm) :
              /\ MayCreate(script.arm, p)
              /\ held' = [held EXCEPT ![p] = IF @ = "none" THEN "cold" ELSE @]
              /\ disk' = [disk EXCEPT ![script.arm] = IF @ = "none" THEN "cold" ELSE @]
              /\ script' = Goto("measure")
    BY <1>10 DEF Create, Step, Fatal
  <2> QED
    BY <2>2, <2>3, <2>4
<1>11. CASE Measure
  BY <1>11, MeasureEnds DEF Measure, Step, Goto, Fatal, AfterRun
<1>12. CASE Interrupt
  BY <1>12 DEF Interrupt, Goto, Fatal
<1>13. CASE UNCHANGED vars
  BY <1>13 DEF vars
<1>14. ASSUME NEW p \in Pids,
             Bind(p) \/ Drain(p) \/ Exit(p) \/ Crash(p)
      PROVE  ColdInv'
  <2>1. CASE Bind(p)
    BY <2>1, OneServerMoves DEF Bind
  <2>2. CASE Drain(p)
    BY <2>2, OneServerMoves DEF Drain
  <2>3. CASE Exit(p)
    BY <2>3, OneServerMoves DEF Exit
  <2>4. CASE Crash(p)
    BY <2>4, OneServerMoves DEF Crash
  <2> QED
    BY <1>14, <2>1, <2>2, <2>3, <2>4
<1> QED
  BY <1>1, <1>2, <1>3, <1>4, <1>5, <1>6, <1>7, <1>8, <1>9, <1>10, <1>11, <1>12, <1>13, <1>14,
     NextCases

\* What is measured is what the sweep's script has started and created.
LEMMA MeasuredStep ==
    ASSUME Base, PromptInv, Cardinality(Lost) <= interrupts, interrupts \in Nat, ColdInv,
           SweepIsCold, [Next]_vars
    PROVE  SweepIsCold'
<1> USE DEF Base, SweepIsCold, SweepIsFreshAndCold, SmolquerySweepIsCold
<1>1. CASE Measure
  <2>1. CASE UNCHANGED lastRun
    <3>1. interrupts' = interrupts
      BY <1>1 DEF Measure, Step, counts
    <3> QED
      BY <2>1, <3>1
  <2>2. ASSUME NEW p \in Listening(script.arm),
               lastRun' = [cmd |-> script.cmd, arm |-> script.arm, fresh |-> p = script.pid,
                           cold |-> held[p] = "cold"]
        PROVE  SweepIsCold'
    <3>1. At("measure") /\ interrupts' = interrupts
      BY <1>1 DEF Measure, Step, counts
    <3>2. script.cmd = "sweep" /\ (script.arm = "smolquery" \/ interrupts = 0) =>
            held[p] = "cold"
      BY <3>1 DEF ColdInv
    <3>3. script.cmd = "sweep" /\ interrupts = 0 => p = script.pid
      <4> SUFFICES ASSUME script.cmd = "sweep", interrupts = 0 PROVE p = script.pid
        OBVIOUS
      <4>1. p \in Live /\ p \notin Lost
        BY NoneLost, PidsFinite DEF Listening, Live, Alive
      <4>2. pidfile[server[p].arm] = p /\ server[p].arm = script.arm
        BY <3>1, <4>1 DEF Lost, At, Listening
      <4> QED
        BY <3>1, <4>2 DEF PidInv, Started, At
    <3> QED
      BY <2>2, <3>1, <3>2, <3>3
  <2> QED
    BY <1>1, <2>1, <2>2 DEF Measure
<1>2. CASE UNCHANGED lastRun /\ (interrupts' = 0 => interrupts = 0)
  BY <1>2
<1>3. Measure \/ (UNCHANGED lastRun /\ (interrupts' = 0 => interrupts = 0))
  <2> USE DEF counts
  <2>1. CASE \E c \in Commands : Start(c[1], c[2])
    BY <2>1 DEF Start
  <2>2. CASE Signal
    BY <2>2 DEF Signal, Step
  <2>3. CASE WaitForExit
    BY <2>3 DEF WaitForExit, Step
  <2>4. CASE RemovePidfile
    BY <2>4 DEF RemovePidfile, Step
  <2>5. CASE Erase
    BY <2>5 DEF Erase, Step
  <2>6. CASE Spawn
    BY <2>6 DEF Spawn, Step
  <2>7. CASE WritePid
    BY <2>7 DEF WritePid, Step
  <2>8. CASE Poll
    BY <2>8 DEF Poll, Step
  <2>9. CASE Confirm
    BY <2>9 DEF Confirm, Step
  <2>10. CASE Create
    BY <2>10 DEF Create, Step
  <2>11. CASE Measure
    BY <2>11
  <2>12. CASE Interrupt
    BY <2>12 DEF Interrupt
  <2>13. CASE UNCHANGED vars
    BY <2>13 DEF vars
  <2>14. CASE \E p \in Pids : Bind(p) \/ Drain(p) \/ Exit(p) \/ Crash(p)
    BY <2>14 DEF Bind, Drain, Exit, Crash
  <2> QED
    BY NextCases, <2>1, <2>2, <2>3, <2>4, <2>5, <2>6, <2>7, <2>8, <2>9, <2>10, <2>11, <2>12,
       <2>13, <2>14
<1> QED
  BY <1>1, <1>2, <1>3

-----------------------------------------------------------------------------

\* The strengthened invariant holds of every reachable state.
THEOREM Invariance == Spec => []IInv
<1>1. IInv /\ [Next]_vars => IInv'
  <2> SUFFICES ASSUME IInv, [Next]_vars PROVE IInv'
    OBVIOUS
  <2> USE DEF IInv, Base
  <2>1. ServerTypes' /\ ServerInv' /\ ScriptShape' /\ PidInv'
    BY TypeStep, ServerStep, ShapeStep, PidStep
  <2>2. LostInv'
    <3>1. LostMoves(Lost \ told, (Lost \ told)')
      BY LostStep
    <3>2. interrupts \in Nat /\ Lost \ told \in SUBSET Pids
      BY DEF LostInv, Lost, Live
    <3>3. CASE interrupts' = interrupts /\ (Lost \ told)' \subseteq Lost \ told
      BY <3>2, <3>3, Fewer DEF LostInv
    <3>4. CASE /\ interrupts' = interrupts + 1
               /\ (Lost \ told)' \subseteq (Lost \ told) \cup {script.pid}
      <4>1. Cardinality(Lost \ told) <= interrupts
        BY DEF LostInv
      <4>2. Cardinality((Lost \ told)') <= interrupts + 1
        BY <3>2, <3>4, <4>1, OneMore
      <4> QED
        BY <3>2, <3>4, <4>2 DEF LostInv
    <3> QED
      BY <3>1, <3>3, <3>4 DEF LostMoves
  <2>3. CASE ~SlowExit
    <3>1. PromptInv' /\ ColdInv' /\ SweepIsCold'
      BY <2>3, PromptStep, ColdStep, MeasuredStep DEF LostInv
    <3>2. (Cardinality(Lost) <= interrupts)'
      <4>1. LostMoves(Lost, Lost')
        BY <2>3, LostPromptStep
      <4>2. interrupts \in Nat /\ Lost \in SUBSET Pids
        BY DEF LostInv, Lost, Live
      <4>3. CASE interrupts' = interrupts /\ Lost' \subseteq Lost
        BY <2>3, <4>2, <4>3, Fewer
      <4>4. CASE interrupts' = interrupts + 1 /\ Lost' \subseteq Lost \cup {script.pid}
        BY <2>3, <4>2, <4>4, OneMore
      <4> QED
        BY <4>1, <4>3, <4>4 DEF LostMoves
    <3> QED
      BY <2>1, <2>2, <3>1, <3>2
  <2> QED
    BY <2>1, <2>2, <2>3
<1> QED
  BY <1>1, InitIInv, PTL DEF Spec

\* Every variable has its type, and an arm's port has one listener at most.
THEOREM TypeCorrect == Spec => []TypeOK
<1>1. IInv => TypeOK
  <2> SUFFICES ASSUME IInv PROVE TypeOK
    OBVIOUS
  <2>1. \A a \in Arms : Cardinality(Listening(a)) <= 1
    <3>1. \A a \in Arms : \A p, q \in Listening(a) : p = q
      BY DEF IInv, Base, ServerInv, Listening
    <3> QED
      BY <3>1, AtMostOne
  <2>2. /\ script.tries \in 0..HealthAttempts \cup 0..WaitAttempts
        /\ script.boots \in 0..BootAttempts /\ script.left \in 0..Points
    BY DEF IInv, Base, ScriptShape, Tries, Boots, Left
  <2> QED
    BY <2>1, <2>2 DEF IInv, Base, ServerTypes, TypeOK
<1> QED
  BY <1>1, Invariance, PTL

\* The invariant says of every server what NoneForgotten counts.
LEMMA LostCounted == IInv => NoneForgotten
<1> SUFFICES ASSUME IInv PROVE NoneForgotten
  OBVIOUS
<1>1. {p \in Live \ told : pidfile[server[p].arm] # p /\ ~(At("writePid") /\ script.pid = p)}
        = Lost \ told
  BY DEF Lost
<1> QED
  BY <1>1 DEF IInv, LostInv, NoneForgotten

\* stop_arm, start_daemon and the setups forget a server only when a script is killed
\* between the two, whether servers told to stop exit in time or not.
THEOREM NothingForgotten == Spec => []NoneForgotten
  BY LostCounted, Invariance, PTL

\* Where servers told to stop exit in time, two of an arm never run together, but for those
\* that killed scripts have left.
THEOREM AccountedFor == Spec => [](~SlowExit => ServersAccountedFor)
<1>1. IInv => (~SlowExit => OnePerArm)
  <2> SUFFICES ASSUME IInv, ~SlowExit, NEW a \in Arms
               PROVE  Cardinality({p \in Live : server[p].arm = a}) <= 1 + interrupts
    BY DEF OnePerArm
  <2> DEFINE x == IF At("writePid") /\ script.arm = a THEN script.pid ELSE pidfile[a]
  <2>1. {p \in Live : server[p].arm = a} \subseteq Lost \cup {x}
    <3> SUFFICES ASSUME NEW p \in Live, server[p].arm = a, p \notin Lost PROVE p = x
      OBVIOUS
    <3>1. pidfile[a] = p \/ (At("writePid") /\ script.pid = p)
      BY DEF Lost
    <3>2. CASE At("writePid") /\ script.pid = p
      BY <3>2 DEF IInv, Base, PidInv
    <3>3. CASE pidfile[a] = p
      <4>1. At("writePid") => script.arm # a
        BY <3>3 DEF IInv, PromptInv, Freed, At, Live
      <4> QED
        BY <3>3, <4>1
    <3> QED
      BY <3>1, <3>2, <3>3
  <2>2. interrupts \in Nat /\ Lost \in SUBSET Pids /\ Cardinality(Lost) <= interrupts
    BY DEF IInv, LostInv, Lost, Live
  <2>3. Cardinality({p \in Live : server[p].arm = a}) <= interrupts + 1
    <3> HIDE DEF x
    <3> QED
      BY <2>1, <2>2, OneMore
  <2> QED
    BY <2>2, <2>3
<1>2. IInv => (~SlowExit => ServersAccountedFor)
  BY <1>1, LostCounted DEF ServersAccountedFor
<1> QED
  BY <1>2, Invariance, PTL

\* Where servers told to stop exit in time, each point of a sweep measures the server it
\* started on an empty table, unless a script was killed before, and smolquery's is empty
\* even then.
THEOREM ColdSweeps == Spec => [](~SlowExit => SweepIsCold)
<1>1. IInv => (~SlowExit => SweepIsCold)
  BY DEF IInv
<1> QED
  BY <1>1, Invariance, PTL
=============================================================================
