--------------------------- MODULE ProcessControl ---------------------------
(***************************************************************************)
(* Starting and stopping the two services (server/cli.py), and what each   *)
(* does until it serves: bring the schema of the shared database up to     *)
(* date (server/storage.py, initialize) and bind its port.                 *)
(*                                                                         *)
(* Commands and services are processes of the machine, in any order.  A    *)
(* pid file is all that a command knows of a service.  A statement that    *)
(* changes the schema is a transaction of its own, for Python's sqlite3    *)
(* opens none for it; the columns to add were looked up before.  What a    *)
(* foreground start runs in its own process is a service like the others,  *)
(* but has no pid file.                                                    *)
(*                                                                         *)
(* Pids are not reused, and all commands mean the same ports.              *)
(***************************************************************************)
EXTENDS Integers, Sequences, FiniteSets

CONSTANTS
    Pid,       \* pids of services (bound)
    NoPid,
    Start,     \* the start commands given
    Foreground,\* those of them that keep the SDK service in their process
    Stop,      \* the stop commands given
    Restart,   \* the restart commands given
    Columns,   \* the columns that initialize adds, table by table, in order
    Legacy,    \* sets of columns that a database may have when all begins
    MaxCrash,  \* services that die of themselves (bound)
    MaxOverlap,\* commands that begin in the middle of another (bound)
    MaxAgain   \* starts where something lives that was started (bound)

Command == Start \cup Stop \cup Restart
NoCommand == "none"
Service == {"http", "tcp"}
Column == UNION {{Columns[k][i] : i \in DOMAIN Columns[k]} : k \in DOMAIN Columns}

ASSUME CommandAssumption ==
    /\ Pid \subseteq Nat /\ NoPid \notin Pid
    /\ Foreground \subseteq Start
    /\ Start \cap Stop = {} /\ Start \cap Restart = {} /\ Stop \cap Restart = {}
    /\ Columns \in Seq(Seq(Column)) /\ Columns # << >> /\ Legacy \subseteq SUBSET Column
    /\ MaxCrash \in Nat /\ MaxOverlap \in Nat /\ MaxAgain \in Nat

VARIABLES
    columns,   \* the columns that the database has
    proc,      \* the services' processes
    file,      \* the pid files
    cmd,       \* how far each command is, and the pids it was given
    crashes,   \* services that died of themselves (bound)
    overlaps,  \* commands that began in the middle of another (bound, history)
    again,     \* starts where something lived (bound, history)
    latest     \* the last command that began (history)

vars == <<columns, proc, file, cmd, crashes, overlaps, again, latest>>

\* A process from its spawning on; it is "ending" once it was told to end.  The
\* columns that it found missing are kept by their place in Columns[table].
Fresh(s) == [of |-> s, at |-> "look", table |-> 1, missing |-> {}]
None == [of |-> "none", at |-> "none", table |-> 0, missing |-> {}]

At(p, where) == [proc EXCEPT ![p].at = where]

Live(p) == proc[p].at \notin {"none", "gone", "ending"}
Holds(p) == proc[p].at \in {"serving", "ending"}

\* A command that is being carried out, but for one that is a service now.
Busy(c) ==
    /\ cmd[c].at \notin {"new", "done"}
    /\ cmd[c].at = "attached" => proc[cmd[c].pid["http"]].at = "gone"

-----------------------------------------------------------------------------
\* A service.

\* Mutant of Missing: only the first column that a table lacks is added.
MissingOne(table) ==
    LET lacking == {i \in DOMAIN Columns[table] : Columns[table][i] \notin columns}
    IN {i \in lacking : \A j \in lacking : i <= j}

\* Mutant of Missing: the columns are added without a look.
MissingAll(table) == DOMAIN Columns[table]

\* PRAGMA table_info: the columns that a table lacks.
Missing(table) == {i \in DOMAIN Columns[table] : Columns[table][i] \notin columns}

\* A service that has these columns of its table to add yet goes on with the
\* first, with the next table, or with its port.
Onward(p, left) ==
    LET table == proc[p].table
    IN [proc EXCEPT ![p] =
         IF left # {} THEN [@ EXCEPT !.at = "add", !.missing = left]
         ELSE IF table < Len(Columns)
              THEN [@ EXCEPT !.at = "look", !.table = table + 1, !.missing = {}]
              ELSE [@ EXCEPT !.at = "bind", !.missing = {}]]

ReadColumns(p) ==
    /\ proc[p].at = "look"
    /\ proc' = Onward(p, Missing(proc[p].table))
    /\ UNCHANGED <<columns, file, cmd, crashes, overlaps, again, latest>>

\* ALTER TABLE fails when the other service has added the column by now, and
\* the service with it.
AddColumn(p) ==
    /\ proc[p].at = "add"
    /\ \E i \in proc[p].missing :
         LET column == Columns[proc[p].table][i]
         IN /\ \A j \in proc[p].missing : i <= j
            /\ \/ /\ column \in columns
                  /\ proc' = At(p, "gone")
                  /\ UNCHANGED columns
               \/ /\ column \notin columns
                  /\ columns' = columns \cup {column}
                  /\ proc' = Onward(p, proc[p].missing \ {i})
    /\ UNCHANGED <<file, cmd, crashes, overlaps, again, latest>>

\* A service whose port is taken ends.
Bind(p) ==
    /\ proc[p].at = "bind"
    /\ proc' = At(p, IF \E q \in Pid : proc[q].of = proc[p].of /\ Holds(q)
                     THEN "gone" ELSE "serving")
    /\ UNCHANGED <<columns, file, cmd, crashes, overlaps, again, latest>>

\* The SDK service closes its connections after the signal, then its port is
\* free.
Exit(p) ==
    /\ proc[p].at = "ending"
    /\ proc' = At(p, "gone")
    /\ UNCHANGED <<columns, file, cmd, crashes, overlaps, again, latest>>

\* A service dies of itself, or a foreground one of a Ctrl+C.
Crash(p) ==
    /\ Live(p)
    /\ crashes < MaxCrash
    /\ crashes' = crashes + 1
    /\ proc' = At(p, "gone")
    /\ UNCHANGED <<columns, file, cmd, overlaps, again, latest>>

-----------------------------------------------------------------------------
\* The commands.

\* Mutant of Terminated: the process is left to end by itself.
TerminatedNever(p) == proc

\* _terminate; the SDK service takes its time to end when it serves.
Terminated(p) ==
    IF p = NoPid \/ ~Live(p) THEN proc
    ELSE At(p, IF proc[p].of = "http" /\ proc[p].at = "serving" THEN "ending" ELSE "gone")

Goto(c, at) == [cmd EXCEPT ![c].at = at]

\* The commands that start services, and were given.
Starting(c) == {d \in Start \cup Restart : d = c \/ cmd[d].at # "new"}

Overlaps(c) == \E d \in Command : Busy(d)

\* A start finds a service that lives, or a restart one of the foreground, which
\* it does not stop.
StartsAgain(c) ==
    \/ c \in Start /\ \E p \in Pid : Live(p)
    \/ c \in Restart /\ \E d \in Command : cmd[d].at = "attached"

Count(n, more) == IF more THEN n + 1 ELSE n

Begin(c) ==
    /\ cmd[c].at = "new"
    /\ 2 * Cardinality(Starting(c)) <= Cardinality(Pid)
    /\ cmd' = Goto(c, IF c \in Start THEN "spawn_tcp" ELSE "stop_http")
    /\ overlaps' = Count(overlaps, Overlaps(c)) /\ overlaps' <= MaxOverlap
    /\ again' = Count(again, StartsAgain(c)) /\ again' <= MaxAgain
    /\ latest' = c
    /\ UNCHANGED <<columns, proc, file, crashes>>

Unused == {p \in Pid : proc[p] = None}

\* _spawn, up to its Popen; which new pid it is makes no difference.
Spawn(c, s, here, next) ==
    /\ cmd[c].at = here
    /\ \E p \in Unused :
         /\ \A q \in Unused : p <= q
         /\ proc' = [proc EXCEPT ![p] = Fresh(s)]
         /\ cmd' = [cmd EXCEPT ![c].at = next, ![c].pid[s] = p]
    /\ UNCHANGED <<columns, file, crashes, overlaps, again, latest>>

\* _write_pid.
WritePid(c, s, here, next) ==
    /\ cmd[c].at = here
    /\ file' = [file EXCEPT ![s] = cmd[c].pid[s]]
    /\ cmd' = Goto(c, next)
    /\ UNCHANGED <<columns, proc, crashes, overlaps, again, latest>>

\* cmd_start: the game service, then the SDK service, then up to 15 s of
\* waiting until both answer.
CmdStart(c) ==
    \/ Spawn(c, "tcp", "spawn_tcp", "write_tcp")
    \/ WritePid(c, "tcp", "write_tcp",
                IF c \in Foreground THEN "run_http" ELSE "spawn_http")
    \/ Spawn(c, "http", "spawn_http", "write_http")
    \/ WritePid(c, "http", "write_http", "wait")
    \/ /\ cmd[c].at = "wait"
       /\ cmd' = Goto(c, "done")
       /\ UNCHANGED <<columns, proc, file, crashes, overlaps, again, latest>>

\* cmd_start --foreground: when the SDK service ends, so does the game service.
CmdForeground(c) ==
    \/ Spawn(c, "http", "run_http", "attached")
    \/ /\ cmd[c].at = "attached"
       /\ proc[cmd[c].pid["http"]].at = "gone"
       /\ proc' = Terminated(cmd[c].pid["tcp"])
       /\ cmd' = Goto(c, "detach")
       /\ UNCHANGED <<columns, file, crashes, overlaps, again, latest>>
    \/ /\ cmd[c].at = "detach"
       /\ file' = [file EXCEPT !["tcp"] = NoPid]
       /\ cmd' = Goto(c, "done")
       /\ UNCHANGED <<columns, proc, crashes, overlaps, again, latest>>

\* One round of the loop of cmd_stop: the pid that the file names is sent the
\* signal, then the file is removed.
StopService(c, s, here, unlink, next) ==
    \/ /\ cmd[c].at = here
       /\ proc' = Terminated(file[s])
       /\ cmd' = Goto(c, unlink)
       /\ UNCHANGED <<columns, file, crashes, overlaps, again, latest>>
    \/ /\ cmd[c].at = unlink
       /\ file' = [file EXCEPT ![s] = NoPid]
       /\ cmd' = Goto(c, next)
       /\ UNCHANGED <<columns, proc, crashes, overlaps, again, latest>>

\* cmd_stop; cmd_restart goes on with cmd_start at once.
CmdStop(c) ==
    \/ StopService(c, "http", "stop_http", "unlink_http", "stop_tcp")
    \/ StopService(c, "tcp", "stop_tcp", "unlink_tcp",
                   IF c \in Restart THEN "spawn_tcp" ELSE "done")

-----------------------------------------------------------------------------

Init ==
    /\ columns \in Legacy
    /\ proc = [p \in Pid |-> None]
    /\ file = [s \in Service |-> NoPid]
    /\ cmd = [c \in Command |-> [at |-> "new", pid |-> [s \in Service |-> NoPid]]]
    /\ crashes = 0
    /\ overlaps = 0 /\ again = 0
    /\ latest = NoCommand

Progress(p) == ReadColumns(p) \/ AddColumn(p) \/ Bind(p) \/ Exit(p)
Carry(c) == CmdStart(c) \/ CmdForeground(c) \/ CmdStop(c)

Next ==
    \/ \E p \in Pid : Progress(p) \/ Crash(p)
    \/ \E c \in Command : Begin(c) \/ Carry(c)

Spec == Init /\ [][Next]_vars

\* The machine runs every process that can go on.
FairSpec == Spec /\ (\A p \in Pid : WF_vars(Progress(p))) /\ (\A c \in Command : WF_vars(Carry(c)))

-----------------------------------------------------------------------------
(* Properties *)

\* A service takes requests only on a complete schema: however two services
\* and their crashes interleave on an older database, none gets past
\* initialize while a column is missing that its queries name.
ServesOnWholeSchema ==
    \A p \in Pid : proc[p].at \in {"bind", "serving"} => columns = Column

\* Whoever spawned p has not written its pid yet, or runs it in the foreground.
Spawning(p) ==
    \E c \in Command : \/ cmd[c].pid["tcp"] = p /\ cmd[c].at = "write_tcp"
                       \/ cmd[c].pid["http"] = p /\ cmd[c].at = "write_http"
                       \/ cmd[c].pid["http"] = p /\ c \in Foreground

\* No service is out of reach: as long as the commands were given one after the
\* other, and a start only when nothing ran, every service that lives is the
\* one that its pid file names, through crashes, restarts and late exits; a
\* restart is no way to start the services of a foreground start again.
EveryServiceIsNamed ==
    overlaps + again = 0 => \A p \in Pid : Live(p) => file[proc[p].of] = p \/ Spawning(p)

\* A stop stops all services that run in the background, when commands are
\* given one after the other.
StopStopsAll ==
    (overlaps = 0 /\ latest \in Stop /\ \A c \in Command : ~Busy(c)) =>
        \A p \in Pid : Live(p) => Spawning(p)

\* A start on a machine where nothing runs, or is about to end, and on a
\* database that is up to date, is followed by both services serving, unless
\* one of them crashes or another command begins.
StartedServe ==
    \A c \in Start, n \in 0..MaxCrash :
      (/\ overlaps + again = 0 /\ cmd[c].at = "spawn_tcp" /\ columns = Column /\ crashes = n
       /\ \A p \in Pid : proc[p].at \in {"none", "gone"})
      ~> \/ crashes # n \/ latest # c
         \/ \A s \in Service : \E p \in Pid : proc[p].of = s /\ proc[p].at = "serving"

=============================================================================
