------------------------ MODULE ProcessControlProofs ------------------------
(***************************************************************************)
(* Two invariants of the commands and the services, for any number of both *)
(* and of services that die.                                               *)
(*                                                                         *)
(* The first is that a service serves on a whole schema, however commands  *)
(* overlap and however many services migrate the same database at once.    *)
(* ServesOnWholeSchema is not inductive: that the last table is whole when *)
(* a service goes on to its port is known only from what it did to the     *)
(* tables before.  Migrated says it of every process by itself, and it     *)
(* survives the steps of the others because no column is ever taken away.  *)
(*                                                                         *)
(* The second is that a service can be found by its pid file while the     *)
(* commands are given in turn.  Phase says, for every place a command can  *)
(* be at, what may live then and what the files hold; Alone, which two     *)
(* commands may be under way at once for all that, which is what keeps the *)
(* phase of one from being spoilt by the other.                            *)
(***************************************************************************)
EXTENDS ProcessControl, TLAPS

Process == [of: Service \cup {"none"},
            at: {"none", "look", "add", "bind", "serving", "ending", "gone"},
            table: Nat, missing: SUBSET Nat]

Shape ==
    /\ columns \subseteq Column
    /\ proc \in [Pid -> Process]

Whole(k) == \A i \in DOMAIN Columns[k] : Columns[k][i] \in columns

\* What process p has done to the schema, by where it is.
Stage(p) ==
    /\ proc[p].at \in {"look", "add"} =>
         /\ proc[p].table \in 1..Len(Columns)
         /\ \A k \in 1..Len(Columns) : k < proc[p].table => Whole(k)
    /\ proc[p].at = "add" =>
         /\ proc[p].missing \subseteq DOMAIN Columns[proc[p].table]
         /\ \A i \in DOMAIN Columns[proc[p].table] :
              i \notin proc[p].missing => Columns[proc[p].table][i] \in columns
    /\ proc[p].at \in {"bind", "serving"} => \A k \in 1..Len(Columns) : Whole(k)

Migrated == \A p \in Pid : Stage(p)

IInv == Shape /\ Migrated

-----------------------------------------------------------------------------

LEMMA ColumnsOfATable ==
  ASSUME NEW k \in 1..Len(Columns)
  PROVE  /\ DOMAIN Columns[k] \subseteq Nat
         /\ \A i \in DOMAIN Columns[k] : Columns[k][i] \in Column
<1>1. Columns[k] \in Seq(Column) /\ k \in DOMAIN Columns
  BY CommandAssumption
<1>2. DOMAIN Columns[k] \subseteq Nat
  BY <1>1
<1> QED
  BY <1>1, <1>2 DEF Column

\* A process that does not move keeps its stage while columns are added.
LEMMA StageKept ==
  ASSUME NEW p \in Pid, Stage(p), columns \subseteq columns', proc'[p] = proc[p]
  PROVE  Stage(p)'
BY DEF Stage, Whole

\* A process that ends, or is gone, owes nothing.
LEMMA StageOver ==
  ASSUME NEW p \in Pid, proc'[p].at \in {"none", "ending", "gone"}
  PROVE  Stage(p)'
BY DEF Stage

\* Onward from a table of which the columns in left are yet to add.
LEMMA StageOnward ==
  ASSUME Shape, NEW p \in Pid, NEW left,
         columns \subseteq columns',
         proc[p].table \in 1..Len(Columns),
         left \subseteq DOMAIN Columns[proc[p].table],
         \A k \in 1..Len(Columns) : k < proc[p].table => Whole(k),
         \A i \in DOMAIN Columns[proc[p].table] :
           i \notin left => Columns[proc[p].table][i] \in columns',
         proc' = Onward(p, left)
  PROVE  /\ proc' \in [Pid -> Process]
         /\ Stage(p)'
         /\ \A q \in Pid : q # p => proc'[q] = proc[q]
<1>a. PICK table \in 1..Len(Columns) : table = proc[p].table
  OBVIOUS
<1>0. /\ Len(Columns) \in Nat /\ table \in Nat
      /\ proc[p] \in Process
      /\ left \in SUBSET Nat
  BY <1>a, CommandAssumption, ColumnsOfATable DEF Shape
<1>1. \A q \in Pid : q # p => proc'[q] = proc[q]
  BY DEF Onward, Shape
<1>2. \A k \in 1..Len(Columns) : k < table => Whole(k)'
  BY <1>a DEF Whole
<1>3. CASE left # {}
  <2>1. proc' = [proc EXCEPT ![p] = [@ EXCEPT !.at = "add", !.missing = left]]
    BY <1>3 DEF Onward
  <2>2. proc'[p] = [proc[p] EXCEPT !.at = "add", !.missing = left]
    BY <2>1 DEF Shape
  <2>3. /\ proc'[p].at = "add" /\ proc'[p].missing = left /\ proc'[p].table = table
        /\ proc'[p] \in Process
    BY <2>2, <1>0, <1>a DEF Process
  <2>4. Stage(p)'
    BY <2>3, <1>2, <1>a DEF Stage
  <2> QED
    BY <1>1, <2>1, <2>3, <2>4 DEF Shape
<1>4. CASE left = {} /\ table < Len(Columns)
  <2>1. proc' = [proc EXCEPT ![p] = [@ EXCEPT !.at = "look", !.table = table + 1,
                                              !.missing = {}]]
    BY <1>4, <1>a DEF Onward
  <2>2. proc'[p] = [proc[p] EXCEPT !.at = "look", !.table = table + 1, !.missing = {}]
    BY <2>1 DEF Shape
  <2>3. /\ proc'[p].at = "look" /\ proc'[p].table = table + 1
        /\ proc'[p] \in Process
    <3>1. table + 1 \in Nat
      BY <1>0
    <3> QED
      BY <2>2, <3>1, <1>0 DEF Process
  <2>4. Whole(table)'
    BY <1>4, <1>a DEF Whole
  <2>5. \A k \in 1..Len(Columns) : k < table + 1 => Whole(k)'
    <3>1. \A k \in 1..Len(Columns) : k < table + 1 => k < table \/ k = table
      BY <1>0
    <3> QED
      BY <3>1, <1>2, <2>4
  <2>6. Stage(p)'
    BY <1>0, <1>4, <2>3, <2>5 DEF Stage
  <2> QED
    BY <1>1, <2>1, <2>3, <2>6 DEF Shape
<1>5. CASE left = {} /\ ~(table < Len(Columns))
  <2>1. proc' = [proc EXCEPT ![p] = [@ EXCEPT !.at = "bind", !.missing = {}]]
    BY <1>5, <1>a DEF Onward
  <2>2. proc'[p] = [proc[p] EXCEPT !.at = "bind", !.missing = {}]
    BY <2>1 DEF Shape
  <2>3. proc'[p].at = "bind" /\ proc'[p] \in Process
    BY <2>2, <1>0 DEF Process
  <2>4. Whole(table)'
    BY <1>5, <1>a DEF Whole
  <2>5. \A k \in 1..Len(Columns) : Whole(k)'
    <3>1. \A k \in 1..Len(Columns) : k < table \/ k = table
      BY <1>0, <1>5
    <3> QED
      BY <3>1, <1>2, <2>4
  <2>6. Stage(p)'
    BY <2>3, <2>5 DEF Stage
  <2> QED
    BY <1>1, <2>1, <2>3, <2>6 DEF Shape
<1> QED
  BY <1>3, <1>4, <1>5, <1>a

\* One process is somewhere else, where it owes no more than before.
LEMMA MovedOne ==
  ASSUME IInv, UNCHANGED columns, NEW p, NEW there \in {"serving", "ending", "gone"},
         proc' = At(p, there), there = "serving" => p \in Pid /\ proc[p].at = "bind"
  PROVE  IInv'
<1>1. proc' \in [Pid -> Process]
  BY DEF IInv, Shape, At, Process
<1>2. ASSUME NEW q \in Pid
      PROVE  Stage(q)'
  <2>1. CASE q # p
    <3>1. proc'[q] = proc[q]
      BY <2>1 DEF IInv, Shape, At
    <3> QED
      BY <3>1, StageKept DEF IInv, Migrated
  <2>2. CASE q = p
    <3>1. proc'[p].at = there
      BY <2>2 DEF IInv, Shape, At, Process
    <3>2. CASE there = "serving"
      BY <2>2, <3>1, <3>2 DEF IInv, Migrated, Stage, Whole
    <3> QED
      BY <2>2, <3>1, <3>2, StageOver
  <2> QED
    BY <2>1, <2>2
<1> QED
  BY <1>1, <1>2 DEF IInv, Shape, Migrated

\* Nothing that a stage speaks of changes.
LEMMA NoneMoved ==
  ASSUME IInv, UNCHANGED <<columns, proc>>
  PROVE  IInv'
BY DEF IInv, Shape, Migrated, Stage, Whole

LEMMA TerminatedOne ==
  ASSUME IInv, UNCHANGED columns, NEW p, proc' = Terminated(p)
  PROVE  IInv'
<1>1. CASE p = NoPid \/ ~Live(p)
  BY <1>1, NoneMoved DEF Terminated
<1>2. CASE ~(p = NoPid \/ ~Live(p))
  <2>1. PICK there \in {"ending", "gone"} : proc' = At(p, there)
    BY <1>2 DEF Terminated
  <2> QED
    BY <2>1, MovedOne
<1> QED
  BY <1>1, <1>2

-----------------------------------------------------------------------------

LEMMA ReadColumnsKeeps ==
  ASSUME IInv, NEW p \in Pid, ReadColumns(p)
  PROVE  IInv'
<1> DEFINE table == proc[p].table
<1>1. /\ proc[p].at = "look" /\ columns' = columns
      /\ proc' = Onward(p, Missing(table))
      /\ Stage(p)
  BY DEF ReadColumns, IInv, Migrated
<1>2. table \in 1..Len(Columns) /\ \A k \in 1..Len(Columns) : k < table => Whole(k)
  BY <1>1 DEF Stage
<1>3. /\ Missing(table) \subseteq DOMAIN Columns[table]
      /\ \A i \in DOMAIN Columns[table] :
           i \notin Missing(table) => Columns[table][i] \in columns'
  BY <1>1, <1>2, ColumnsOfATable DEF Missing
<1>4. /\ proc' \in [Pid -> Process] /\ Stage(p)'
      /\ \A q \in Pid : q # p => proc'[q] = proc[q]
  <2> HIDE DEF table
  <2> QED
    BY <1>1, <1>2, <1>3, StageOnward DEF IInv, table
<1> QED
  BY <1>1, <1>4, StageKept DEF IInv, Shape, Migrated

LEMMA AddColumnKeeps ==
  ASSUME IInv, NEW p \in Pid, AddColumn(p)
  PROVE  IInv'
<1> DEFINE table == proc[p].table
<1>1. proc[p].at = "add" /\ Stage(p)
  BY DEF AddColumn, IInv, Migrated
<1>2. /\ table \in 1..Len(Columns)
      /\ \A k \in 1..Len(Columns) : k < table => Whole(k)
      /\ proc[p].missing \subseteq DOMAIN Columns[table]
      /\ \A j \in DOMAIN Columns[table] :
           j \notin proc[p].missing => Columns[table][j] \in columns
  BY <1>1 DEF Stage
<1>3. PICK i \in proc[p].missing :
        \/ columns' = columns /\ proc' = At(p, "gone")
        \/ /\ columns' = columns \cup {Columns[table][i]}
           /\ proc' = Onward(p, proc[p].missing \ {i})
  BY DEF AddColumn
<1>4. CASE columns' = columns /\ proc' = At(p, "gone")
  BY <1>4, MovedOne
<1>5. CASE /\ columns' = columns \cup {Columns[table][i]}
           /\ proc' = Onward(p, proc[p].missing \ {i})
  <2>1. columns \subseteq columns' /\ columns' \subseteq Column
    BY <1>2, <1>5, ColumnsOfATable DEF IInv, Shape
  <2>2. /\ proc' \in [Pid -> Process] /\ Stage(p)'
        /\ \A q \in Pid : q # p => proc'[q] = proc[q]
    <3>1. \A j \in DOMAIN Columns[table] :
            j \notin proc[p].missing \ {i} => Columns[table][j] \in columns'
      BY <1>2, <1>5
    <3>2. proc[p].missing \ {i} \subseteq DOMAIN Columns[table]
      BY <1>2
    <3> HIDE DEF table
    <3> QED
      BY <1>2, <1>5, <2>1, <3>1, <3>2, StageOnward DEF IInv, table
  <2> QED
    BY <2>1, <2>2, StageKept DEF IInv, Shape, Migrated
<1> QED
  BY <1>3, <1>4, <1>5

LEMMA BindKeeps ==
  ASSUME IInv, NEW p \in Pid, Bind(p)
  PROVE  IInv'
<1>1. PICK there \in {"serving", "gone"} : proc' = At(p, there)
  BY DEF Bind
<1> QED
  BY <1>1, MovedOne DEF Bind

\* A new service starts at the first table.
LEMMA SpawnKeeps ==
  ASSUME IInv, NEW c, NEW s \in Service, NEW here, NEW next, Spawn(c, s, here, next)
  PROVE  IInv'
<1>1. PICK p \in Pid : proc' = [proc EXCEPT ![p] = Fresh(s)]
  BY DEF Spawn, Unused
<1>2. Fresh(s) \in Process
  BY DEF Fresh, Process, Service
<1>3. proc' \in [Pid -> Process]
  BY <1>1, <1>2 DEF IInv, Shape
<1>4. columns' = columns
  BY DEF Spawn
<1>5. Stage(p)'
  <2>1. proc'[p].at = "look" /\ proc'[p].table = 1
    BY <1>1 DEF IInv, Shape, Fresh
  <2>2. Len(Columns) \in Nat /\ 1 <= Len(Columns)
    BY CommandAssumption
  <2> QED
    BY <2>1, <2>2 DEF Stage
<1>6. \A q \in Pid : q # p => proc'[q] = proc[q]
  BY <1>1 DEF IInv, Shape
<1> QED
  BY <1>3, <1>4, <1>5, <1>6, StageKept DEF IInv, Shape, Migrated

LEMMA CarryKeeps ==
  ASSUME IInv, NEW c \in Command, Carry(c)
  PROVE  IInv'
<1>1. CASE CmdStart(c)
  <2>1. ASSUME NEW s \in Service, NEW here, NEW next, Spawn(c, s, here, next)
        PROVE  IInv'
    BY <2>1, SpawnKeeps
  <2>2. ASSUME NEW s \in Service, NEW here, NEW next, WritePid(c, s, here, next)
        PROVE  IInv'
    BY <2>2, NoneMoved DEF WritePid
  <2>3. CASE UNCHANGED <<columns, proc>>
    BY <2>3, NoneMoved
  <2> QED
    BY <1>1, <2>1, <2>2, <2>3 DEF CmdStart, Service
<1>2. CASE CmdForeground(c)
  <2>1. CASE Spawn(c, "http", "run_http", "attached")
    BY <2>1, SpawnKeeps DEF Service
  <2>2. CASE proc' = Terminated(cmd[c].pid["tcp"]) /\ UNCHANGED columns
    BY <2>2, TerminatedOne
  <2>3. CASE UNCHANGED <<columns, proc>>
    BY <2>3, NoneMoved
  <2> QED
    BY <1>2, <2>1, <2>2, <2>3 DEF CmdForeground
<1>3. CASE CmdStop(c)
  <2>1. ASSUME NEW s, NEW here, NEW unlink, NEW next, StopService(c, s, here, unlink, next)
        PROVE  IInv'
    <3>1. CASE proc' = Terminated(file[s]) /\ UNCHANGED columns
      BY <3>1, TerminatedOne
    <3>2. CASE UNCHANGED <<columns, proc>>
      BY <3>2, NoneMoved
    <3> QED
      BY <2>1, <3>1, <3>2 DEF StopService
  <2> QED
    BY <1>3, <2>1 DEF CmdStop
<1> QED
  BY <1>1, <1>2, <1>3 DEF Carry

-----------------------------------------------------------------------------

LEMMA InitMigrated ==
  ASSUME Init
  PROVE  IInv
<1>1. Shape
  BY CommandAssumption DEF Init, Shape, None, Process
<1>2. \A p \in Pid : proc[p].at = "none"
  BY DEF Init, None
<1> QED
  BY <1>1, <1>2 DEF IInv, Migrated, Stage

LEMMA NextMigrates ==
  ASSUME IInv, [Next]_vars
  PROVE  IInv'
<1>1. ASSUME NEW p \in Pid, ReadColumns(p)
      PROVE  IInv'
  BY <1>1, ReadColumnsKeeps
<1>2. ASSUME NEW p \in Pid, AddColumn(p)
      PROVE  IInv'
  BY <1>2, AddColumnKeeps
<1>3. ASSUME NEW p \in Pid, Bind(p)
      PROVE  IInv'
  BY <1>3, BindKeeps
<1>4. ASSUME NEW p \in Pid, Exit(p) \/ Crash(p)
      PROVE  IInv'
  BY <1>4, MovedOne DEF Exit, Crash
<1>5. ASSUME NEW c \in Command, Begin(c)
      PROVE  IInv'
  BY <1>5, NoneMoved DEF Begin
<1>6. ASSUME NEW c \in Command, Carry(c)
      PROVE  IInv'
  BY <1>6, CarryKeeps
<1>7. CASE UNCHANGED vars
  BY <1>7, NoneMoved DEF vars
<1> QED
  BY <1>1, <1>2, <1>3, <1>4, <1>5, <1>6, <1>7 DEF Next, Progress

LEMMA MigratedIsWhole ==
  ASSUME IInv
  PROVE  ServesOnWholeSchema
<1> SUFFICES ASSUME NEW p \in Pid, proc[p].at \in {"bind", "serving"}
             PROVE  columns = Column
  BY DEF ServesOnWholeSchema
<1>1. \A k \in 1..Len(Columns) : Whole(k)
  BY DEF IInv, Migrated, Stage
<1>2. DOMAIN Columns = 1..Len(Columns)
  BY CommandAssumption
<1>3. Column \subseteq columns
  BY <1>1, <1>2 DEF Column, Whole
<1> QED
  BY <1>3 DEF IInv, Shape

\* However many commands start and stop services on one database of an older
\* server, in whatever order, and wherever a service dies: none reaches its
\* port before every column that its statements name is there (storage.py,
\* initialize; cli.py).
THEOREM ServedSchemaIsWhole == Spec => []ServesOnWholeSchema
<1>1. Init => IInv
  BY InitMigrated
<1>2. IInv /\ [Next]_vars => IInv'
  BY NextMigrates
<1>3. IInv => ServesOnWholeSchema
  BY MigratedIsWhole
<1> QED
  BY <1>1, <1>2, <1>3, PTL DEF Spec


-----------------------------------------------------------------------------
\* The order of commands.

Where == {"new", "spawn_tcp", "write_tcp", "spawn_http", "write_http", "wait", "run_http",
          "attached", "detach", "stop_http", "unlink_http", "stop_tcp", "unlink_tcp", "done"}
Stopping == {"stop_http", "unlink_http", "stop_tcp", "unlink_tcp"}

CommandShape ==
    /\ cmd \in [Command -> [at: Where, pid: [Service -> Pid \cup {NoPid}]]]
    /\ file \in [Service -> Pid \cup {NoPid}]
    /\ overlaps \in Nat /\ again \in Nat

\* What a command may be at.
Programs ==
    \A c \in Command :
      /\ cmd[c].at \in {"run_http", "attached", "detach"} => c \in Foreground
      /\ c \in Stop => cmd[c].at \in Stopping \cup {"new", "done"}
      /\ c \in Start => cmd[c].at \notin Stopping

\* A pid that is known as that of a service is one, and what lives is a service.
Kinds ==
    /\ \A s \in Service :
         /\ file[s] \in Pid => proc[file[s]].of = s
         /\ \A c \in Command : cmd[c].pid[s] \in Pid => proc[cmd[c].pid[s]].of = s
    /\ \A p \in Pid : Live(p) => proc[p].of \in Service

Calm == overlaps + again = 0

Active(c) == cmd[c].at \notin {"new", "done"}
Attending(c) == cmd[c].at \in {"attached", "detach"}

\* While the commands are given in turn, two of them are under way only when
\* one attends its foreground service and the other is a stop.
Alone ==
    \A c, d \in Command :
      Active(c) /\ Active(d) /\ c # d =>
        (c \in Stop /\ Attending(d)) \/ (d \in Stop /\ Attending(c))

LiveIn(S) == \A p \in Pid : Live(p) => p \in S

\* The foreground service of a command that attends it.
Guarded(p) == \E c \in Foreground : cmd[c].at = "attached" /\ cmd[c].pid["http"] = p

Pending(p) ==
    \E c \in Command : \/ cmd[c].at = "write_tcp" /\ cmd[c].pid["tcp"] = p
                       \/ cmd[c].at = "write_http" /\ cmd[c].pid["http"] = p

\* What lives, and what the pid files say, by what a command is at.
Phase(c) ==
    /\ cmd[c].at \in {"spawn_tcp", "detach"} => LiveIn({})
    /\ cmd[c].at \in {"write_tcp", "spawn_http", "run_http"} => LiveIn({cmd[c].pid["tcp"]})
    /\ cmd[c].at \in {"write_http", "attached"} =>
         LiveIn({cmd[c].pid["tcp"], cmd[c].pid["http"]})
    /\ cmd[c].at \in {"spawn_http", "run_http", "write_http"} =>
         file["tcp"] = cmd[c].pid["tcp"]
    /\ cmd[c].at = "attached" =>
         /\ cmd[c].pid["http"] \in Pid
         /\ proc[cmd[c].pid["http"]].at \notin {"none", "ending"}
         /\ file["http"] # cmd[c].pid["http"]
    /\ cmd[c].at \in {"unlink_http", "stop_tcp"} =>
         \A p \in Pid : Live(p) /\ proc[p].of = "http" => Guarded(p)
    /\ cmd[c].at = "unlink_tcp" => \A p \in Pid : Live(p) => Guarded(p)

Named == \A p \in Pid : Live(p) => file[proc[p].of] = p \/ Guarded(p) \/ Pending(p)

Ordered == Alone /\ (\A c \in Command : Phase(c)) /\ Named

Static == CommandShape /\ Programs /\ Kinds

OInv == Static /\ (Calm => Ordered)

-----------------------------------------------------------------------------

\* A command goes on, and keeps the pids it was given.
LEMMA Went ==
  ASSUME CommandShape, NEW c \in Command, NEW at \in Where, cmd' = Goto(c, at)
  PROVE  /\ cmd' \in [Command -> [at: Where, pid: [Service -> Pid \cup {NoPid}]]]
         /\ cmd'[c].at = at /\ cmd'[c].pid = cmd[c].pid
         /\ \A d \in Command : d # c => cmd'[d] = cmd[d]
<1>1. cmd' = [cmd EXCEPT ![c].at = at]
  BY DEF Goto
<1>2. cmd[c] \in [at: Where, pid: [Service -> Pid \cup {NoPid}]]
  BY DEF CommandShape
<1> QED
  BY <1>1, <1>2 DEF CommandShape

\* Where services move by themselves, none comes to life, and none begins to end.
LEMMA ProcessMoves ==
  ASSUME Shape, NEW p \in Pid, Progress(p) \/ Crash(p)
  PROVE  /\ \A q \in Pid : /\ proc'[q].of = proc[q].of
                           /\ Live(q)' => Live(q)
                           /\ proc'[q].at \in {"none", "ending"} => proc'[q].at = proc[q].at
         /\ UNCHANGED <<file, cmd, overlaps, again>>
<1>1. proc[p] \in Process
  BY DEF Shape
<1>2. ASSUME NEW there \in {"gone", "serving"}, proc' = At(p, there),
             Live(p) \/ there = "gone"
      PROVE  \A q \in Pid : /\ proc'[q].of = proc[q].of
                            /\ Live(q)' => Live(q)
                            /\ proc'[q].at \in {"none", "ending"} => proc'[q].at = proc[q].at
  <2>1. /\ \A q \in Pid : q # p => proc'[q] = proc[q]
        /\ proc'[p] = [proc[p] EXCEPT !.at = there]
    BY <1>2 DEF Shape, At
  <2>2. proc'[p].of = proc[p].of /\ proc'[p].at = there
    BY <2>1, <1>1 DEF Process
  <2> QED
    BY <1>2, <2>1, <2>2 DEF Live
<1>3. ASSUME NEW left, proc' = Onward(p, left), Live(p)
      PROVE  \A q \in Pid : /\ proc'[q].of = proc[q].of
                            /\ Live(q)' => Live(q)
                            /\ proc'[q].at \in {"none", "ending"} => proc'[q].at = proc[q].at
  <2>1. \A q \in Pid : q # p => proc'[q] = proc[q]
    BY <1>3 DEF Onward, Shape
  <2>2. \/ proc'[p] = [proc[p] EXCEPT !.at = "add", !.missing = left]
        \/ proc'[p] = [proc[p] EXCEPT !.at = "look", !.table = proc[p].table + 1, !.missing = {}]
        \/ proc'[p] = [proc[p] EXCEPT !.at = "bind", !.missing = {}]
    BY <1>3 DEF Onward, Shape
  <2>3. proc'[p].of = proc[p].of /\ proc'[p].at \in {"add", "look", "bind"}
    BY <2>2, <1>1 DEF Process
  <2> QED
    BY <1>3, <2>1, <2>3 DEF Live
<1>4. UNCHANGED <<file, cmd, overlaps, again>>
  BY DEF Progress, ReadColumns, AddColumn, Bind, Exit, Crash
<1>5. CASE ReadColumns(p)
  BY <1>5, <1>3, <1>4 DEF ReadColumns, Live
<1>6. CASE AddColumn(p)
  BY <1>6, <1>2, <1>3, <1>4 DEF AddColumn, Live
<1>7. CASE Bind(p)
  BY <1>7, <1>2, <1>4 DEF Bind, Live
<1>8. CASE Exit(p) \/ Crash(p)
  BY <1>8, <1>2, <1>4 DEF Exit, Crash
<1> QED
  BY <1>5, <1>6, <1>7, <1>8 DEF Progress

LEMMA TerminatedMoves ==
  ASSUME Shape, NEW p, proc' = Terminated(p)
  PROVE  \A q \in Pid : /\ proc'[q].of = proc[q].of
                        /\ Live(q)' => Live(q) /\ q # p
                        /\ q # p => proc'[q] = proc[q]
<1>1. CASE p = NoPid \/ ~Live(p)
  <2>1. proc' = proc
    BY <1>1 DEF Terminated
  <2> QED
    BY <1>1, <2>1, CommandAssumption DEF Live
<1>2. CASE ~(p = NoPid \/ ~Live(p))
  <2>1. PICK there \in {"ending", "gone"} : proc' = At(p, there)
    BY <1>2 DEF Terminated
  <2>2. \A q \in Pid : q # p => proc'[q] = proc[q]
    BY <2>1 DEF At, Shape
  <2>3. p \in Pid => proc'[p].of = proc[p].of /\ ~Live(p)'
    <3> SUFFICES ASSUME p \in Pid
                 PROVE  proc'[p].of = proc[p].of /\ ~Live(p)'
      OBVIOUS
    <3>1. proc[p] \in Process /\ proc'[p] = [proc[p] EXCEPT !.at = there]
      BY <2>1 DEF At, Shape
    <3>2. proc'[p].of = proc[p].of /\ proc'[p].at = there
      BY <3>1 DEF Process
    <3> QED
      BY <3>2 DEF Live
  <2> QED
    BY <2>2, <2>3 DEF Live
<1> QED
  BY <1>1, <1>2

\* No pid is learned, and nothing comes to life.
LEMMA KindsKept ==
  ASSUME Kinds,
         \A q \in Pid : (Live(q)' => Live(q)) /\ proc'[q].of = proc[q].of,
         \A s \in Service : file'[s] = file[s] \/ file'[s] = NoPid,
         \A c \in Command : cmd'[c].pid = cmd[c].pid
  PROVE  Kinds'
<1>1. ASSUME NEW s \in Service, file'[s] \in Pid
      PROVE  proc'[file'[s]].of = s
  <2>1. file'[s] = file[s]
    BY <1>1, CommandAssumption
  <2> QED
    BY <1>1, <2>1 DEF Kinds
<1>2. ASSUME NEW s \in Service, NEW c \in Command, cmd'[c].pid[s] \in Pid
      PROVE  proc'[cmd'[c].pid[s]].of = s
  <2>1. cmd'[c].pid[s] = cmd[c].pid[s]
    OBVIOUS
  <2> QED
    BY <1>2, <2>1 DEF Kinds
<1>3. ASSUME NEW p \in Pid, Live(p)'
      PROVE  proc'[p].of \in Service
  BY <1>3 DEF Kinds
<1> QED
  BY <1>1, <1>2, <1>3 DEF Kinds

\* A phase stays while its command does, nothing comes to life, and the files
\* and the services that it speaks of are left alone.
LEMMA PhaseKept ==
  ASSUME NEW d \in Command, Phase(d), cmd'[d] = cmd[d],
         \A q \in Pid : (Live(q)' => Live(q)) /\ proc'[q].of = proc[q].of,
         \A q \in Pid : Guarded(q) => Guarded(q)',
         cmd[d].at \in {"spawn_http", "run_http", "write_http"} => file'["tcp"] = file["tcp"],
         cmd[d].at = "attached" =>
           /\ proc'[cmd[d].pid["http"]].at \notin {"none", "ending"}
           /\ file'["http"] # cmd[d].pid["http"]
  PROVE  Phase(d)'
<1>1. LiveIn({}) => LiveIn({})'
  BY DEF LiveIn
<1>2. LiveIn({cmd[d].pid["tcp"]}) => LiveIn({cmd[d].pid["tcp"]})'
  BY DEF LiveIn
<1>3. LiveIn({cmd[d].pid["tcp"], cmd[d].pid["http"]})
        => LiveIn({cmd[d].pid["tcp"], cmd[d].pid["http"]})'
  BY DEF LiveIn
<1> QED
  BY <1>1, <1>2, <1>3 DEF Phase

\* A command that is not under way has no phase.
LEMMA PhaseOfNone ==
  ASSUME NEW d \in Command, ~Active(d)'
  PROVE  Phase(d)'
BY DEF Phase, Active

\* To a stop, a machine where nothing lives is as good as any.
LEMMA PhaseOfStop ==
  ASSUME NEW d \in Command, Programs', d \in Stop, LiveIn({})'
  PROVE  Phase(d)'
<1>1. cmd'[d].at \in Stopping \cup {"new", "done"}
  BY DEF Programs
<1> QED
  BY <1>1 DEF Phase, Stopping, LiveIn

\* What starts services, or waits for none of its own, is under way alone.
LEMMA OnlyOne ==
  ASSUME Ordered, NEW c \in Command, Active(c), ~Attending(c), c \notin Stop
  PROVE  \A d \in Command : d # c => ~Active(d)
BY DEF Ordered, Alone

-----------------------------------------------------------------------------

LEMMA MovesKeepOrder ==
  ASSUME Shape, OInv, NEW p \in Pid, Progress(p) \/ Crash(p)
  PROVE  OInv'
<1>1. /\ \A q \in Pid : /\ proc'[q].of = proc[q].of
                        /\ Live(q)' => Live(q)
                        /\ proc'[q].at \in {"none", "ending"} => proc'[q].at = proc[q].at
      /\ UNCHANGED <<file, cmd, overlaps, again>>
  BY ProcessMoves
<1>2. Static'
  BY <1>1 DEF OInv, Static, CommandShape, Programs, Kinds
<1>3. ASSUME Calm'
      PROVE  Ordered'
  <2>1. Ordered
    BY <1>1, <1>3 DEF OInv, Calm
  <2>2. Alone'
    BY <1>1, <2>1 DEF Ordered, Alone, Active, Attending
  <2>3. \A q \in Pid : Guarded(q)' = Guarded(q) /\ Pending(q)' = Pending(q)
    BY <1>1 DEF Guarded, Pending
  <2>4. ASSUME NEW d \in Command
        PROVE  Phase(d)'
    <3>1. Phase(d)
      BY <2>1 DEF Ordered
    <3>2. cmd[d].at = "attached" =>
            /\ proc'[cmd[d].pid["http"]].at \notin {"none", "ending"}
            /\ file'["http"] # cmd[d].pid["http"]
      BY <1>1, <3>1 DEF Phase
    <3> QED
      BY <1>1, <2>3, <3>1, <3>2, PhaseKept
  <2>5. Named'
    BY <1>1, <2>1, <2>3 DEF Ordered, Named
  <2> QED
    BY <2>2, <2>4, <2>5 DEF Ordered
<1> QED
  BY <1>2, <1>3 DEF OInv

LEMMA NoneAtAll ==
  ASSUME NEW a \in Nat, NEW b \in Nat, a + b = 0
  PROVE  a = 0 /\ b = 0
OBVIOUS

\* A command that begins while no other is under way finds at most one, which
\* attends a service that lives; so it is a stop.
LEMMA BeginKeepsOrder ==
  ASSUME Shape, OInv, NEW c \in Command, Begin(c)
  PROVE  OInv'
<1> DEFINE at == IF c \in Start THEN "spawn_tcp" ELSE "stop_http"
<1>1. /\ cmd[c].at = "new" /\ cmd' = Goto(c, at) /\ at \in Where
      /\ UNCHANGED <<proc, file>>
      /\ overlaps' = Count(overlaps, Overlaps(c))
      /\ again' = Count(again, StartsAgain(c))
  BY DEF Begin, Where
<1>2. /\ cmd' \in [Command -> [at: Where, pid: [Service -> Pid \cup {NoPid}]]]
      /\ cmd'[c].at = at /\ cmd'[c].pid = cmd[c].pid
      /\ \A d \in Command : d # c => cmd'[d] = cmd[d]
  <2> HIDE DEF at
  <2> QED
    BY <1>1, Went DEF OInv, Static
<1>3. /\ overlaps \in Nat /\ again \in Nat /\ overlaps' \in Nat /\ again' \in Nat
  BY <1>1 DEF OInv, Static, CommandShape, Count
<1>4. Static'
  <2>1. CommandShape'
    BY <1>1, <1>2, <1>3 DEF OInv, Static, CommandShape
  <2>2. Programs'
    BY <1>2, CommandAssumption DEF OInv, Static, Programs, Stopping, Command
  <2>3. Kinds'
    BY <1>1, <1>2, KindsKept DEF OInv, Static, Live
  <2> QED
    BY <2>1, <2>2, <2>3 DEF Static
<1>5. ASSUME Calm'
      PROVE  Ordered'
  <2>1. overlaps' = 0 /\ again' = 0
    <3>1. overlaps' + again' = 0
      BY <1>5 DEF Calm
    <3> QED
      BY <1>3, <3>1, NoneAtAll
  <2>2. Ordered /\ ~Overlaps(c) /\ ~StartsAgain(c)
    BY <1>1, <1>3, <2>1 DEF Count, OInv, Calm
  <2>3. \A d \in Command : Active(d) =>
          /\ cmd[d].at = "attached" /\ proc[cmd[d].pid["http"]].at # "gone"
    BY <2>2 DEF Overlaps, Busy, Active
  <2>4. \A d \in Command : Active(d) => c \in Stop
    <3> SUFFICES ASSUME NEW d \in Command, Active(d)
                 PROVE  c \in Stop
      OBVIOUS
    <3>1. cmd[d].pid["http"] \in Pid /\ Live(cmd[d].pid["http"])
      BY <2>2, <2>3 DEF Ordered, Phase, Live
    <3> QED
      BY <2>2, <2>3, <3>1 DEF StartsAgain, Command
  <2>5. Alone'
    BY <1>2, <2>2, <2>3, <2>4 DEF Ordered, Alone, Active, Attending
  <2>6. \A q \in Pid : Guarded(q)' = Guarded(q) /\ Pending(q)' = Pending(q)
    <3>1. at \notin {"attached", "write_tcp", "write_http"}
      OBVIOUS
    <3>2. Foreground \subseteq Command
      BY CommandAssumption DEF Command
    <3> QED
      BY <1>1, <1>2, <3>1, <3>2 DEF Guarded, Pending
  <2>7. ASSUME NEW d \in Command
        PROVE  Phase(d)'
    <3>1. CASE d = c /\ c \in Start
      <4>1. LiveIn({})'
        BY <1>1, <2>2, <3>1 DEF StartsAgain, LiveIn, Live
      <4> QED
        BY <1>2, <3>1, <4>1 DEF Phase
    <3>2. CASE d = c /\ c \notin Start
      BY <1>2, <3>2 DEF Phase
    <3>3. CASE d # c
      <4>1. Phase(d)
        BY <2>2 DEF Ordered
      <4> QED
        BY <1>1, <1>2, <2>6, <3>3, <4>1, PhaseKept DEF Phase, Live
    <3> QED
      BY <3>1, <3>2, <3>3
  <2>8. Named'
    BY <1>1, <2>2, <2>6 DEF Ordered, Named, Live
  <2> QED
    BY <2>5, <2>7, <2>8 DEF Ordered
<1> QED
  BY <1>4, <1>5 DEF OInv

\* What a spawning changes, and what nobody knew of before.
LEMMA Spawned ==
  ASSUME Shape, Static, NEW c \in Command, NEW s \in Service, NEW here, NEW at \in Where,
         Spawn(c, s, here, at)
  PROVE  \E p \in Pid :
           /\ proc'[p].of = s /\ proc'[p].at = "look" /\ proc[p].of = "none"
           /\ \A q \in Pid : q # p => proc'[q] = proc[q]
           /\ cmd'[c].at = at /\ cmd'[c].pid[s] = p
           /\ \A t \in Service : t # s => cmd'[c].pid[t] = cmd[c].pid[t]
           /\ \A d \in Command : d # c => cmd'[d] = cmd[d]
           /\ CommandShape' /\ Kinds'
<1>1. PICK p \in Pid : /\ proc[p] = None
                       /\ proc' = [proc EXCEPT ![p] = Fresh(s)]
                       /\ cmd' = [cmd EXCEPT ![c].at = at, ![c].pid[s] = p]
  BY DEF Spawn, Unused
<1>2. UNCHANGED <<file, overlaps, again>>
  BY DEF Spawn
<1>3. /\ proc'[p].of = s /\ proc'[p].at = "look" /\ proc[p].of = "none"
      /\ \A q \in Pid : q # p => proc'[q] = proc[q]
  BY <1>1 DEF Shape, Fresh, None
<1>4. cmd[c] \in [at: Where, pid: [Service -> Pid \cup {NoPid}]]
  BY DEF Static, CommandShape
<1>5. DEFINE pid == [cmd[c].pid EXCEPT ![s] = p]
<1>6. pid \in [Service -> Pid \cup {NoPid}]
  BY <1>4
<1>7. cmd'[c] = [at |-> at, pid |-> pid] /\ \A d \in Command : d # c => cmd'[d] = cmd[d]
  BY <1>1, <1>4 DEF Static, CommandShape
<1>8. cmd' \in [Command -> [at: Where, pid: [Service -> Pid \cup {NoPid}]]]
  <2> HIDE DEF pid
  <2>1. cmd'[c] \in [at: Where, pid: [Service -> Pid \cup {NoPid}]]
    BY <1>6, <1>7
  <2> QED
    BY <1>1, <1>7, <2>1 DEF Static, CommandShape
<1>9. /\ cmd'[c].at = at /\ cmd'[c].pid[s] = p
      /\ \A t \in Service : t # s => cmd'[c].pid[t] = cmd[c].pid[t]
  BY <1>4, <1>7
<1>10. CommandShape'
  BY <1>2, <1>8 DEF Static, CommandShape
<1>11. Kinds'
  <2>1. \A t \in Service, q \in Pid : proc[q].of = t => proc'[q].of = t
    BY <1>3 DEF Service
  <2>2. /\ \A t \in Service : file'[t] \in Pid => proc'[file'[t]].of = t
        /\ \A q \in Pid : Live(q)' => proc'[q].of \in Service
    BY <1>2, <1>3, <2>1 DEF Static, Kinds, Live
  <2>3. ASSUME NEW t \in Service, NEW d \in Command, cmd'[d].pid[t] \in Pid
        PROVE  proc'[cmd'[d].pid[t]].of = t
    <3>1. CASE d = c /\ t = s
      BY <1>3, <1>9, <3>1
    <3>2. CASE ~(d = c /\ t = s)
      <4>1. cmd'[d].pid[t] = cmd[d].pid[t]
        BY <1>7, <1>9, <3>2
      <4> QED
        BY <2>1, <2>3, <4>1 DEF Static, Kinds
    <3> QED
      BY <3>1, <3>2
  <2> QED
    BY <2>2, <2>3 DEF Kinds
<1> QED
  BY <1>3, <1>7, <1>9, <1>10, <1>11

\* A command that is about to start a service is under way alone, and knows all
\* that lives.
LEMMA SpawnKeepsOrder ==
  ASSUME Shape, OInv, NEW c \in Command, NEW s \in Service, NEW here, NEW at,
         Spawn(c, s, here, at),
         \/ s = "tcp" /\ here = "spawn_tcp" /\ at = "write_tcp"
         \/ s = "http" /\ here = "spawn_http" /\ at = "write_http"
         \/ s = "http" /\ here = "run_http" /\ at = "attached"
  PROVE  OInv'
<1>1. /\ cmd[c].at = here /\ UNCHANGED <<file, overlaps, again>>
      /\ Static /\ at \in Where
  BY DEF Spawn, OInv, Where
<1>2. PICK p \in Pid :
        /\ proc'[p].of = s /\ proc'[p].at = "look" /\ proc[p].of = "none"
        /\ \A q \in Pid : q # p => proc'[q] = proc[q]
        /\ cmd'[c].at = at /\ cmd'[c].pid[s] = p
        /\ \A t \in Service : t # s => cmd'[c].pid[t] = cmd[c].pid[t]
        /\ \A d \in Command : d # c => cmd'[d] = cmd[d]
        /\ CommandShape' /\ Kinds'
  BY <1>1, Spawned
<1>3. c \notin Stop /\ (at = "attached" => c \in Foreground)
  BY <1>1 DEF Static, Programs, Stopping
<1>4. Static'
  <2>1. Programs'
    BY <1>1, <1>2, <1>3 DEF Static, Programs, Stopping
  <2> QED
    BY <1>2, <2>1 DEF Static
<1>5. ASSUME Calm'
      PROVE  Ordered'
  <2>1. Ordered
    BY <1>1, <1>5 DEF OInv, Calm
  <2>2. Active(c) /\ ~Attending(c) /\ Phase(c)
    BY <1>1, <2>1 DEF Active, Attending, Ordered
  <2>3. \A d \in Command : d # c => ~Active(d)
    BY <1>3, <2>1, <2>2, OnlyOne
  <2>4. \A d \in Command : d # c => ~Active(d)'
    BY <1>2, <2>3 DEF Active
  <2>5. Alone'
    BY <2>4 DEF Alone
  <2>6. \A q \in Pid : q # p => Live(q)' = Live(q)
    BY <1>2 DEF Live
  <2>7. file["tcp"] # p /\ file["http"] # p
    BY <1>1, <1>2 DEF Static, Kinds, Service
  <2>8. CASE at = "write_tcp"
    <3>1. LiveIn({p})'
      BY <1>1, <2>2, <2>6, <2>8 DEF Phase, LiveIn
    <3>2. Phase(c)'
      BY <1>2, <2>8, <3>1 DEF Phase
    <3>3. Named'
      BY <1>2, <2>8, <3>1 DEF Named, Pending, LiveIn
    <3> QED
      BY <2>4, <2>5, <3>2, <3>3, PhaseOfNone DEF Ordered
  <2>9. CASE at # "write_tcp"
    <3> DEFINE tcp == cmd[c].pid["tcp"]
    <3>1. /\ LiveIn({tcp})
          /\ file'["tcp"] = tcp /\ cmd'[c].pid["tcp"] = tcp /\ cmd'[c].pid["http"] = p
      BY <1>1, <1>2, <2>2, <2>9 DEF Phase, Service
    <3>2. \A q \in Pid : Live(q)' => q = p \/ q = tcp
      BY <2>6, <3>1 DEF LiveIn
    <3>3. LiveIn({cmd[c].pid["tcp"], cmd[c].pid["http"]})'
      BY <3>1, <3>2 DEF LiveIn
    <3>4. Phase(c)'
      BY <1>1, <1>2, <2>7, <2>9, <3>1, <3>3 DEF Phase
    <3>5. Guarded(p)' \/ Pending(p)'
      BY <1>2, <1>3, <2>9, <3>1 DEF Guarded, Pending
    <3>6. \A q \in Pid : q = tcp => file'[proc'[q].of] = q
      BY <1>4, <3>1 DEF Static, Kinds, Service
    <3>7. Named'
      BY <3>2, <3>5, <3>6 DEF Named
    <3> QED
      BY <2>4, <2>5, <3>4, <3>7, PhaseOfNone DEF Ordered
  <2> QED
    BY <2>8, <2>9
<1> QED
  BY <1>4, <1>5 DEF OInv

LEMMA WritePidKeepsOrder ==
  ASSUME Shape, OInv, NEW c \in Command, NEW s \in Service, NEW here, NEW at,
         WritePid(c, s, here, at),
         \/ /\ s = "tcp" /\ here = "write_tcp"
            /\ at = IF c \in Foreground THEN "run_http" ELSE "spawn_http"
         \/ s = "http" /\ here = "write_http" /\ at = "wait"
  PROVE  OInv'
<1>1. /\ cmd[c].at = here /\ UNCHANGED <<proc, overlaps, again>>
      /\ file' = [file EXCEPT ![s] = cmd[c].pid[s]]
      /\ cmd' = Goto(c, at)
      /\ Static /\ at \in Where /\ at \notin Stopping
  BY DEF WritePid, OInv, Where, Stopping
<1>2. /\ cmd' \in [Command -> [at: Where, pid: [Service -> Pid \cup {NoPid}]]]
      /\ cmd'[c].at = at /\ cmd'[c].pid = cmd[c].pid
      /\ \A d \in Command : d # c => cmd'[d] = cmd[d]
  BY <1>1, Went DEF Static
<1>3. /\ file' \in [Service -> Pid \cup {NoPid}]
      /\ file'[s] = cmd[c].pid[s]
      /\ \A t \in Service : t # s => file'[t] = file[t]
  BY <1>1 DEF Static, CommandShape
<1>4. c \notin Stop
  BY <1>1 DEF Static, Programs, Stopping
<1>5. Static'
  <2>1. CommandShape'
    BY <1>1, <1>2, <1>3 DEF Static, CommandShape
  <2>2. Programs'
    BY <1>1, <1>2, <1>4 DEF Static, Programs
  <2>3. Kinds'
    <3>1. \A q \in Pid : Live(q)' => proc'[q].of \in Service
      BY <1>1 DEF Static, Kinds, Live
    <3>2. \A t \in Service : file'[t] \in Pid => proc'[file'[t]].of = t
      BY <1>1, <1>3 DEF Static, Kinds
    <3>3. \A t \in Service, d \in Command :
            cmd'[d].pid[t] \in Pid => proc'[cmd'[d].pid[t]].of = t
      <4>1. \A d \in Command : cmd'[d].pid = cmd[d].pid
        BY <1>2
      <4> QED
        BY <1>1, <4>1 DEF Static, Kinds
    <3> QED
      BY <3>1, <3>2, <3>3 DEF Kinds
  <2> QED
    BY <2>1, <2>2, <2>3 DEF Static
<1>6. ASSUME Calm'
      PROVE  Ordered'
  <2>1. Ordered
    BY <1>1, <1>6 DEF OInv, Calm
  <2>2. Active(c) /\ ~Attending(c) /\ Phase(c)
    BY <1>1, <2>1 DEF Active, Attending, Ordered
  <2>3. \A d \in Command : d # c => ~Active(d)'
    BY <1>2, <1>4, <2>1, <2>2, OnlyOne DEF Active
  <2>4. Alone'
    BY <2>3 DEF Alone
  <2>5. CASE s = "tcp"
    <3> DEFINE tcp == cmd[c].pid["tcp"]
    <3>1. file'["tcp"] = tcp /\ cmd'[c].pid["tcp"] = tcp
      BY <1>2, <1>3, <2>5
    <3>2. \A q \in Pid : Live(q)' => q = tcp
      BY <1>1, <2>2, <2>5 DEF Phase, LiveIn, Live
    <3>3. Phase(c)'
      BY <1>1, <1>2, <2>5, <3>1, <3>2 DEF Phase, LiveIn
    <3>4. \A q \in Pid : q = tcp => file'[proc'[q].of] = q
      BY <1>5, <3>1 DEF Static, Kinds, Service
    <3>5. Named'
      BY <3>2, <3>4 DEF Named
    <3> QED
      BY <2>3, <2>4, <3>3, <3>5, PhaseOfNone DEF Ordered
  <2>6. CASE s = "http"
    <3> DEFINE tcp == cmd[c].pid["tcp"]
               http == cmd[c].pid["http"]
    <3>1. /\ file'["tcp"] = tcp /\ file'["http"] = http
          /\ cmd'[c].pid["tcp"] = tcp /\ cmd'[c].pid["http"] = http
      BY <1>1, <1>2, <1>3, <2>2, <2>6 DEF Phase, Service
    <3>2. \A q \in Pid : Live(q)' => q = tcp \/ q = http
      BY <1>1, <2>2, <2>6 DEF Phase, LiveIn, Live
    <3>3. Phase(c)'
      BY <1>1, <1>2, <2>6 DEF Phase
    <3>4. \A q \in Pid : q = tcp \/ q = http => file'[proc'[q].of] = q
      BY <1>5, <3>1 DEF Static, Kinds, Service
    <3>5. Named'
      BY <3>2, <3>4 DEF Named
    <3> QED
      BY <2>3, <2>4, <3>3, <3>5, PhaseOfNone DEF Ordered
  <2> QED
    BY <2>5, <2>6 DEF Service
<1> QED
  BY <1>5, <1>6 DEF OInv

\* cmd_start is through with its waiting.
LEMMA WaitKeepsOrder ==
  ASSUME Shape, OInv, NEW c \in Command, cmd[c].at = "wait", cmd' = Goto(c, "done"),
         UNCHANGED <<proc, file, overlaps, again>>
  PROVE  OInv'
<1>1. /\ cmd' \in [Command -> [at: Where, pid: [Service -> Pid \cup {NoPid}]]]
      /\ cmd'[c].at = "done" /\ cmd'[c].pid = cmd[c].pid
      /\ \A d \in Command : d # c => cmd'[d] = cmd[d]
  BY Went DEF OInv, Static, Where
<1>2. Static'
  <2>1. CommandShape'
    BY <1>1 DEF OInv, Static, CommandShape
  <2>2. Programs'
    BY <1>1 DEF OInv, Static, Programs, Stopping
  <2>3. Kinds'
    BY <1>1, KindsKept DEF OInv, Static, Live
  <2> QED
    BY <2>1, <2>2, <2>3 DEF Static
<1>3. ASSUME Calm'
      PROVE  Ordered'
  <2>1. Ordered
    BY <1>3 DEF OInv, Calm
  <2>2. Alone'
    BY <1>1, <2>1 DEF Ordered, Alone, Active, Attending
  <2>3. \A q \in Pid : (Guarded(q) => Guarded(q)') /\ (Pending(q) => Pending(q)')
    <3>1. Foreground \subseteq Command
      BY CommandAssumption DEF Command
    <3> QED
      BY <1>1, <3>1 DEF Guarded, Pending
  <2>4. ASSUME NEW d \in Command
        PROVE  Phase(d)'
    <3>1. CASE d = c
      BY <1>1, <3>1 DEF Phase
    <3>2. CASE d # c
      <4>1. Phase(d)
        BY <2>1 DEF Ordered
      <4> QED
        BY <1>1, <2>3, <3>2, <4>1, PhaseKept DEF Phase, Live
    <3> QED
      BY <3>1, <3>2
  <2>5. Named'
    BY <2>1, <2>3 DEF Ordered, Named, Live
  <2> QED
    BY <2>2, <2>4, <2>5 DEF Ordered
<1> QED
  BY <1>2, <1>3 DEF OInv

\* The steps that end a foreground start leave nothing alive.
LEMMA AttendingKeepsOrder ==
  ASSUME Shape, OInv, NEW c \in Command, NEW at,
         UNCHANGED <<overlaps, again>>, cmd' = Goto(c, at),
         \/ /\ cmd[c].at = "attached" /\ at = "detach"
            /\ proc[cmd[c].pid["http"]].at = "gone"
            /\ proc' = Terminated(cmd[c].pid["tcp"])
            /\ UNCHANGED file
         \/ /\ cmd[c].at = "detach" /\ at = "done"
            /\ file' = [file EXCEPT !["tcp"] = NoPid]
            /\ UNCHANGED proc
  PROVE  OInv'
<1>0. Static /\ at \in Where /\ at \notin Stopping
  BY DEF OInv, Where, Stopping
<1>1. /\ cmd' \in [Command -> [at: Where, pid: [Service -> Pid \cup {NoPid}]]]
      /\ cmd'[c].at = at /\ cmd'[c].pid = cmd[c].pid
      /\ \A d \in Command : d # c => cmd'[d] = cmd[d]
  BY <1>0, Went DEF Static
<1>2. \A q \in Pid : proc'[q].of = proc[q].of /\ (Live(q)' => Live(q))
  BY TerminatedMoves DEF Live
<1>3. /\ file' \in [Service -> Pid \cup {NoPid}]
      /\ \A t \in Service : file'[t] = file[t] \/ file'[t] = NoPid
  BY <1>0 DEF Static, CommandShape
<1>4. c \in Foreground /\ c \notin Stop
  BY <1>0, CommandAssumption DEF Static, Programs
<1>5. Static'
  <2>1. CommandShape'
    BY <1>0, <1>1, <1>3 DEF Static, CommandShape
  <2>2. Programs'
    BY <1>0, <1>1, <1>4 DEF Static, Programs
  <2>3. Kinds'
    BY <1>0, <1>1, <1>2, <1>3, KindsKept DEF Static
  <2> QED
    BY <2>1, <2>2, <2>3 DEF Static
<1>6. ASSUME Calm'
      PROVE  Ordered'
  <2>1. Ordered /\ Phase(c)
    BY <1>6 DEF OInv, Calm, Ordered
  <2>2. Alone'
    BY <1>1, <2>1 DEF Ordered, Alone, Active, Attending
  <2>3. LiveIn({})'
    <3>1. CASE cmd[c].at = "attached"
      <4>1. \A q \in Pid : Live(q)' => q # cmd[c].pid["tcp"]
        BY <3>1, TerminatedMoves
      <4>2. \A q \in Pid : Live(q) => q # cmd[c].pid["http"]
        BY <3>1 DEF Live
      <4> QED
        BY <1>2, <2>1, <3>1, <4>1, <4>2 DEF Phase, LiveIn
    <3>2. CASE cmd[c].at = "detach"
      BY <1>2, <2>1, <3>2 DEF Phase, LiveIn
    <3> QED
      BY <3>1, <3>2
  <2>4. ASSUME NEW d \in Command
        PROVE  Phase(d)'
    <3>1. CASE d = c
      BY <1>1, <2>3, <3>1 DEF Phase
    <3>2. CASE d # c /\ ~Active(d)
      BY <1>1, <3>2, PhaseOfNone DEF Active
    <3>3. CASE d # c /\ Active(d)
      <4>1. d \in Stop
        BY <1>4, <2>1, <3>3 DEF Ordered, Alone, Active
      <4> QED
        BY <1>5, <2>3, <4>1, PhaseOfStop DEF Static
    <3> QED
      BY <3>1, <3>2, <3>3
  <2>5. Named'
    BY <2>3 DEF Named, LiveIn
  <2> QED
    BY <2>2, <2>4, <2>5 DEF Ordered
<1> QED
  BY <1>5, <1>6 DEF OInv

\* While a stop or a restart works on the services, nothing is being started.
LEMMA OthersAttend ==
  ASSUME Static, Ordered, NEW c \in Command, cmd[c].at \in Stopping
  PROVE  /\ \A d \in Command : d # c /\ Active(d) => Attending(d)
         /\ \A q \in Pid : ~Pending(q)
         /\ c \notin Stop => \A q \in Pid : ~Guarded(q)
<1>1. Active(c) /\ ~Attending(c)
  BY DEF Active, Attending, Stopping
<1>2. \A d \in Command : d # c /\ Active(d) => Attending(d) /\ c \in Stop
  BY <1>1 DEF Ordered, Alone
<1>3. \A q \in Pid : ~Pending(q)
  BY <1>1, <1>2 DEF Pending, Active, Attending, Stopping
<1>4. c \notin Stop => \A q \in Pid : ~Guarded(q)
  <2>1. Foreground \subseteq Command
    BY CommandAssumption DEF Command
  <2> QED
    BY <1>1, <1>2, <2>1 DEF Guarded, Active, Attending
<1> QED
  BY <1>2, <1>3, <1>4

\* A service gets its signal: only those that a foreground start attends, and
\* the other service, are left.
LEMMA SignalKeepsOrder ==
  ASSUME Shape, OInv, NEW c \in Command, NEW s, NEW at,
         UNCHANGED <<file, overlaps, again>>, cmd' = Goto(c, at),
         proc' = Terminated(file[s]),
         \/ s = "http" /\ cmd[c].at = "stop_http" /\ at = "unlink_http"
         \/ s = "tcp" /\ cmd[c].at = "stop_tcp" /\ at = "unlink_tcp"
  PROVE  OInv'
<1>0. Static /\ at \in Where /\ at \in Stopping /\ cmd[c].at \in Stopping /\ s \in Service
  BY DEF OInv, Where, Stopping, Service
<1>1. /\ cmd' \in [Command -> [at: Where, pid: [Service -> Pid \cup {NoPid}]]]
      /\ cmd'[c].at = at /\ cmd'[c].pid = cmd[c].pid
      /\ \A d \in Command : d # c => cmd'[d] = cmd[d]
  BY <1>0, Went DEF Static
<1>2. \A q \in Pid : /\ proc'[q].of = proc[q].of
                     /\ Live(q)' => Live(q) /\ q # file[s]
                     /\ q # file[s] => proc'[q] = proc[q]
  BY TerminatedMoves
<1>3. Static'
  <2>1. CommandShape'
    BY <1>0, <1>1 DEF Static, CommandShape
  <2>2. Programs'
    BY <1>0, <1>1 DEF Static, Programs, Stopping
  <2>3. Kinds'
    BY <1>0, <1>1, <1>2, KindsKept DEF Static
  <2> QED
    BY <2>1, <2>2, <2>3 DEF Static
<1>4. ASSUME Calm'
      PROVE  Ordered'
  <2>1. Ordered /\ Phase(c)
    BY <1>4 DEF OInv, Calm, Ordered
  <2>2. /\ \A d \in Command : d # c /\ Active(d) => Attending(d)
        /\ \A q \in Pid : ~Pending(q)
    BY <1>0, <2>1, OthersAttend
  <2>3. Alone'
    BY <1>0, <1>1, <2>1 DEF Ordered, Alone, Active, Attending, Stopping
  <2>4. \A q \in Pid : Guarded(q)' = Guarded(q)
    <3>1. Foreground \subseteq Command
      BY CommandAssumption DEF Command
    <3> QED
      BY <1>0, <1>1, <3>1 DEF Guarded, Stopping
  <2>5. \A q \in Pid : Live(q)' /\ proc[q].of = s => Guarded(q)
    BY <1>2, <2>1, <2>2 DEF Ordered, Named
  <2>6. ASSUME NEW d \in Command
        PROVE  Phase(d)'
    <3>1. CASE d = c /\ s = "http"
      BY <1>1, <1>2, <2>4, <2>5, <3>1 DEF Phase
    <3>2. CASE d = c /\ s = "tcp"
      <4>1. \A q \in Pid : Live(q)' => proc[q].of \in Service
        BY <1>0, <1>2 DEF Static, Kinds
      <4> QED
        BY <1>1, <1>2, <2>1, <2>4, <2>5, <3>2, <4>1 DEF Phase, Service
    <3>3. CASE d # c
      <4>1. Phase(d)
        BY <2>1 DEF Ordered
      <4>2. cmd[d].at = "attached" => file[s] # cmd[d].pid["http"]
        BY <1>0, <4>1 DEF Phase, Static, Kinds, Service
      <4>3. cmd[d].at = "attached" =>
              /\ proc'[cmd[d].pid["http"]].at \notin {"none", "ending"}
              /\ file'["http"] # cmd[d].pid["http"]
        BY <1>2, <4>1, <4>2 DEF Phase
      <4> QED
        BY <1>1, <1>2, <2>4, <3>3, <4>1, <4>3, PhaseKept
    <3> QED
      BY <1>0, <3>1, <3>2, <3>3 DEF Service
  <2>7. Named'
    BY <1>2, <2>1, <2>2, <2>4 DEF Ordered, Named
  <2> QED
    BY <2>3, <2>6, <2>7 DEF Ordered
<1> QED
  BY <1>3, <1>4 DEF OInv

\* The pid file is removed; a restart goes on to start when nothing is left.
LEMMA UnlinkKeepsOrder ==
  ASSUME Shape, OInv, NEW c \in Command, NEW s, NEW at,
         UNCHANGED <<proc, overlaps, again>>, cmd' = Goto(c, at),
         file' = [file EXCEPT ![s] = NoPid],
         \/ s = "http" /\ cmd[c].at = "unlink_http" /\ at = "stop_tcp"
         \/ /\ s = "tcp" /\ cmd[c].at = "unlink_tcp"
            /\ at = IF c \in Restart THEN "spawn_tcp" ELSE "done"
  PROVE  OInv'
<1>0. /\ Static /\ at \in Where /\ cmd[c].at \in Stopping /\ s \in Service
      /\ at \in {"stop_tcp", "spawn_tcp", "done"}
      /\ at = "spawn_tcp" => c \notin Stop
  BY CommandAssumption DEF OInv, Where, Stopping, Service
<1>1. /\ cmd' \in [Command -> [at: Where, pid: [Service -> Pid \cup {NoPid}]]]
      /\ cmd'[c].at = at /\ cmd'[c].pid = cmd[c].pid
      /\ \A d \in Command : d # c => cmd'[d] = cmd[d]
  BY <1>0, Went DEF Static
<1>2. /\ file' \in [Service -> Pid \cup {NoPid}] /\ file'[s] = NoPid
      /\ \A t \in Service : t # s => file'[t] = file[t]
  BY <1>0 DEF Static, CommandShape
<1>3. \A q \in Pid : proc'[q].of = proc[q].of /\ Live(q)' = Live(q)
  BY DEF Live
<1>4. Static'
  <2>1. CommandShape'
    BY <1>0, <1>1, <1>2 DEF Static, CommandShape
  <2>2. Programs'
    BY <1>0, <1>1 DEF Static, Programs, Stopping
  <2>3. Kinds'
    BY <1>0, <1>1, <1>2, <1>3, KindsKept DEF Static
  <2> QED
    BY <2>1, <2>2, <2>3 DEF Static
<1>5. ASSUME Calm'
      PROVE  Ordered'
  <2>1. Ordered /\ Phase(c)
    BY <1>5 DEF OInv, Calm, Ordered
  <2>2. /\ \A d \in Command : d # c /\ Active(d) => Attending(d)
        /\ \A q \in Pid : ~Pending(q)
        /\ c \notin Stop => \A q \in Pid : ~Guarded(q)
    BY <1>0, <2>1, OthersAttend
  <2>3. Alone'
    BY <1>0, <1>1, <2>1, <2>2 DEF Ordered, Alone, Active, Attending, Stopping
  <2>4. \A q \in Pid : Guarded(q)' = Guarded(q)
    <3>1. Foreground \subseteq Command
      BY CommandAssumption DEF Command
    <3> QED
      BY <1>0, <1>1, <3>1 DEF Guarded, Stopping
  <2>5. \A q \in Pid : Live(q) /\ proc[q].of = s => Guarded(q)
    BY <2>1 DEF Phase
  <2>6. Named'
    <3> SUFFICES ASSUME NEW q \in Pid, Live(q), ~Guarded(q)
                 PROVE  file'[proc[q].of] = q
      BY <1>3, <2>4 DEF Named
    <3>1. file[proc[q].of] = q /\ proc[q].of # s
      BY <2>1, <2>2, <2>5 DEF Ordered, Named
    <3>2. proc[q].of \in Service
      BY <1>0 DEF Static, Kinds
    <3> QED
      BY <1>2, <3>1, <3>2
  <2>7. ASSUME NEW d \in Command
        PROVE  Phase(d)'
    <3>1. CASE d = c /\ at = "stop_tcp"
      BY <1>1, <1>3, <2>1, <2>4, <3>1 DEF Phase
    <3>2. CASE d = c /\ at = "spawn_tcp"
      <4>1. LiveIn({})'
        BY <1>0, <1>3, <2>1, <2>2, <3>2 DEF Phase, LiveIn
      <4> QED
        BY <1>1, <3>2, <4>1 DEF Phase
    <3>3. CASE d = c /\ at = "done"
      BY <1>1, <3>3 DEF Phase
    <3>4. CASE d # c
      <4>1. Phase(d) /\ cmd[d].at \notin {"spawn_http", "run_http", "write_http"}
        BY <2>1, <2>2, <3>4 DEF Ordered, Active, Attending
      <4>2. cmd[d].at = "attached" =>
              /\ proc'[cmd[d].pid["http"]].at \notin {"none", "ending"}
              /\ file'["http"] # cmd[d].pid["http"]
        BY <1>2, <4>1, CommandAssumption DEF Phase, Service
      <4> QED
        BY <1>1, <1>3, <2>4, <3>4, <4>1, <4>2, PhaseKept
    <3> QED
      BY <1>0, <3>1, <3>2, <3>3, <3>4
  <2> QED
    BY <2>3, <2>6, <2>7 DEF Ordered
<1> QED
  BY <1>4, <1>5 DEF OInv

-----------------------------------------------------------------------------

LEMMA InitOrdered ==
  ASSUME Init
  PROVE  OInv
<1>1. /\ cmd = [c \in Command |-> [at |-> "new", pid |-> [s \in Service |-> NoPid]]]
      /\ file = [s \in Service |-> NoPid]
      /\ overlaps = 0 /\ again = 0
      /\ \A p \in Pid : proc[p].at = "none"
  BY DEF Init, None
<1>2. \A c \in Command : cmd[c].at = "new" /\ \A s \in Service : cmd[c].pid[s] = NoPid
  BY <1>1
<1>3. CommandShape
  BY <1>1 DEF CommandShape, Where
<1>4. Static
  BY <1>1, <1>2, <1>3, CommandAssumption DEF Static, Programs, Kinds, Stopping, Live
<1>5. Ordered
  BY <1>1, <1>2 DEF Ordered, Alone, Active, Phase, Named, Live
<1> QED
  BY <1>4, <1>5 DEF OInv

LEMMA CarryKeepsOrder ==
  ASSUME Shape, OInv, NEW c \in Command, Carry(c)
  PROVE  OInv'
<1>1. CASE CmdStart(c)
  <2>1. CASE Spawn(c, "tcp", "spawn_tcp", "write_tcp")
    BY <2>1, SpawnKeepsOrder DEF Service
  <2>2. CASE Spawn(c, "http", "spawn_http", "write_http")
    BY <2>2, SpawnKeepsOrder DEF Service
  <2>3. CASE WritePid(c, "tcp", "write_tcp",
                      IF c \in Foreground THEN "run_http" ELSE "spawn_http")
    BY <2>3, WritePidKeepsOrder DEF Service
  <2>4. CASE WritePid(c, "http", "write_http", "wait")
    BY <2>4, WritePidKeepsOrder DEF Service
  <2>5. CASE cmd[c].at = "wait" /\ cmd' = Goto(c, "done")
             /\ UNCHANGED <<proc, file, overlaps, again>>
    BY <2>5, WaitKeepsOrder
  <2> QED
    BY <1>1, <2>1, <2>2, <2>3, <2>4, <2>5 DEF CmdStart
<1>2. CASE CmdForeground(c)
  <2>1. CASE Spawn(c, "http", "run_http", "attached")
    BY <2>1, SpawnKeepsOrder DEF Service
  <2>2. CASE /\ cmd[c].at = "attached" /\ cmd' = Goto(c, "detach")
             /\ proc[cmd[c].pid["http"]].at = "gone"
             /\ proc' = Terminated(cmd[c].pid["tcp"])
             /\ UNCHANGED <<file, overlaps, again>>
    BY <2>2, AttendingKeepsOrder
  <2>3. CASE /\ cmd[c].at = "detach" /\ cmd' = Goto(c, "done")
             /\ file' = [file EXCEPT !["tcp"] = NoPid]
             /\ UNCHANGED <<proc, overlaps, again>>
    BY <2>3, AttendingKeepsOrder
  <2> QED
    BY <1>2, <2>1, <2>2, <2>3 DEF CmdForeground
<1>3. CASE StopService(c, "http", "stop_http", "unlink_http", "stop_tcp")
  BY <1>3, SignalKeepsOrder, UnlinkKeepsOrder DEF StopService
<1>4. CASE StopService(c, "tcp", "stop_tcp", "unlink_tcp",
                       IF c \in Restart THEN "spawn_tcp" ELSE "done")
  BY <1>4, SignalKeepsOrder, UnlinkKeepsOrder DEF StopService
<1> QED
  BY <1>1, <1>2, <1>3, <1>4 DEF Carry, CmdStop

LEMMA NextOrders ==
  ASSUME Shape, OInv, [Next]_vars
  PROVE  OInv'
<1>1. ASSUME NEW p \in Pid, Progress(p) \/ Crash(p)
      PROVE  OInv'
  BY <1>1, MovesKeepOrder
<1>2. ASSUME NEW c \in Command, Begin(c)
      PROVE  OInv'
  BY <1>2, BeginKeepsOrder
<1>3. ASSUME NEW c \in Command, Carry(c)
      PROVE  OInv'
  BY <1>3, CarryKeepsOrder
<1>4. CASE UNCHANGED vars
  BY <1>4 DEF vars, OInv, Static, CommandShape, Programs, Kinds, Calm, Ordered, Alone,
              Active, Attending, Phase, LiveIn, Live, Guarded, Pending, Named
<1> QED
  BY <1>1, <1>2, <1>3, <1>4 DEF Next

LEMMA OrderedIsNamed ==
  ASSUME OInv
  PROVE  EveryServiceIsNamed
<1> SUFFICES ASSUME Calm, NEW p \in Pid, Live(p)
             PROVE  file[proc[p].of] = p \/ Spawning(p)
  BY DEF EveryServiceIsNamed, Calm
<1>1. file[proc[p].of] = p \/ Guarded(p) \/ Pending(p)
  BY DEF OInv, Ordered, Named
<1>2. Foreground \subseteq Command
  BY CommandAssumption DEF Command
<1> QED
  BY <1>1, <1>2 DEF Guarded, Pending, Spawning

\* As long as commands are given in turn, and a start only when nothing runs,
\* a service that lives can be found: its pid file names it, or its starter is
\* about to write it or attends it.  For any number of commands and of services
\* that die, at any time (cli.py).
THEOREM ServicesAreNamed == Spec => []EveryServiceIsNamed
<1>1. Init => IInv /\ OInv
  BY InitMigrated, InitOrdered
<1>2. IInv /\ OInv /\ [Next]_vars => (IInv /\ OInv)'
  BY NextMigrates, NextOrders DEF IInv
<1>3. OInv => EveryServiceIsNamed
  BY OrderedIsNamed
<1> QED
  BY <1>1, <1>2, <1>3, PTL DEF Spec

=============================================================================
