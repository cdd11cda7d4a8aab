------------------------------- MODULE Relay -------------------------------
(***************************************************************************)
(* The relay inside the patched client                                     *)
(* (tools/apk-relay/.../RelayController.java): two loopback listeners, for *)
(* HTTP and for the game, that are started and stopped together as one     *)
(* attempt.                                                                *)
(*                                                                         *)
(* The public operations and the start timeout run on the Android main     *)
(* thread, each listener on a thread of its own.  What happens under LOCK  *)
(* is one step; a thread that gives LOCK up and takes it again, or reads   *)
(* the preferences before it takes it, has a step for each.  The process   *)
(* may be killed at any time; the saved configuration survives.            *)
(*                                                                         *)
(* A configuration is whether the relay is enabled and the target it       *)
(* forwards to.  The bytes a listener forwards, the latency probes and the *)
(* status texts of the dialog change none of this state; nor does a thread *)
(* that closes down once its socket is closed, which therefore ends at     *)
(* once.                                                                   *)
(***************************************************************************)
EXTENDS Integers, FiniteSets

CONSTANTS
    Side,       \* the two listeners, HTTP and GAME
    Target,     \* what the relay may forward to
    Loops,      \* targets that are the relay's own ports, like the default
    Initial,    \* the targets that may be in the preferences at first
    MaxCalls,   \* calls of the public operations (bound)
    MaxFaults   \* failing binds and accepts, kills of the process (bound)

ASSUME TargetAssumption == Loops \subseteq Target /\ Initial \subseteq Target
ASSUME BoundAssumption == MaxCalls \in Nat /\ MaxFaults \in Nat

Values == [enabled: BOOLEAN, target: Target]

VARIABLES
    state,    \* what getState answers
    active,   \* activeAttempt; its listeners are httpListener and gameListener
    lastId,   \* nextAttemptId
    thread,   \* the threads of listeners, by attempt id and side
    closed,   \* those of them whose listener was closed while it had no socket
    timer,    \* the attempt whose timeout is posted, 0 for none
    main,     \* what the main thread is doing
    saved,    \* the preferences
    ran,      \* the targets an attempt was running with (history)
    wish,     \* what the main thread asked for last, and whether a recovery
              \* came after it (history)
    calls,    \* calls so far (bound)
    faults    \* faults so far (bound)

relay == <<state, active, lastId, timer>>
history == <<ran, wish>>
vars == <<relay, thread, closed, main, saved, history, calls, faults>>

Idle == [pc |-> "idle"]
On(t) == [enabled |-> TRUE, target |-> t]
NoAttempt == [id |-> 0]

\* A thread's program counter, and the configuration it is about to restore.
At(pc) == [pc |-> pc]
Restoring(v) == [pc |-> "recover", values |-> v]
Fault == faults < MaxFaults /\ faults' = faults + 1

-----------------------------------------------------------------------------

\* Mutant of Open: a listener that has no socket yet is not closed.
OpenAccepting == {l \in DOMAIN thread : l[1] = active.id /\ thread[l].pc = "accept"}

\* The listeners stopLocked closes.
Open == {l \in DOMAIN thread : l[1] = active.id}

\* The threads there are after stopLocked, one of which may itself end: a
\* listener that accepts ends, one with no socket yet goes on, closed.
Left(ended) == DOMAIN thread \ (ended \cup {l \in Open : thread[l].pc = "accept"})
CloseOpen(ended) ==
    /\ closed' = (closed \cup Open) \cap Left(ended)
    /\ thread' = [l \in Left(ended) |-> thread[l]]

\* Mutant of PostTimeout: a recovery is not timed.
PostTimeoutOnce(id, recovery) == timer' = IF recovery THEN 0 ELSE id

\* The attempt's timeout replaces the one that was posted.
PostTimeout(id, recovery) == timer' = id

\* beginAttempt: what ran before is stopped, and two threads are started.
Begin(v, previous, restore, recovery, ended) ==
    LET id == lastId + 1 IN
    /\ closed' = (closed \cup Open) \cap Left(ended)
    /\ lastId' = id /\ PostTimeout(id, recovery)
    /\ state' = "starting"
    /\ active' = [id |-> id, target |-> v.target, previous |-> previous,
                  restore |-> restore, recovery |-> recovery, bound |-> {}]
    /\ thread' = [l \in Left(ended) \cup ({id} \X Side) |->
         IF l \in DOMAIN thread THEN thread[l]
         ELSE At(IF v.target \in Loops THEN "error" ELSE "new")]

\* failAttempt goes on to start the previous configuration again.
Restores(a) == a.restore /\ ~a.recovery /\ a.previous.enabled

\* Mutant of Detach: the timeout stays posted.
DetachTimed ==
    /\ active' = NoAttempt
    /\ state' = IF Restores(active) THEN state ELSE "failed"
    /\ UNCHANGED <<lastId, timer>>

\* The part of failAttempt under LOCK, for the active attempt (the listeners
\* apart).
Detach ==
    /\ active' = NoAttempt /\ timer' = 0
    /\ state' = IF Restores(active) THEN state ELSE "failed"
    /\ UNCHANGED lastId

\* Mutant of StopLocked: the attempt stays the active one.
StopAttached ==
    /\ CloseOpen({})
    /\ timer' = 0
    /\ state' = "stopped" /\ wish' = "off"
    /\ UNCHANGED active

\* stop, under LOCK.
StopLocked ==
    /\ CloseOpen({})
    /\ active' = NoAttempt /\ timer' = 0
    /\ state' = "stopped" /\ wish' = "off"

\* A recovery starts, whatever was asked for since the failure.
RecoverySeen == wish' = IF wish = "off" THEN "recovered" ELSE wish

-----------------------------------------------------------------------------
\* The main thread.

\* A call comes in; it reads the preferences before it takes LOCK.
Call(op, next) ==
    /\ main = Idle
    /\ calls < MaxCalls /\ calls' = calls + 1
    /\ main' = [pc |-> op, next |-> next, snap |-> saved]
    /\ UNCHANGED <<relay, thread, closed, saved, history, faults>>

\* start, with a disabled configuration a stop.
Start ==
    /\ main.pc = "start"
    /\ IF main.snap.enabled
       THEN /\ Begin(main.snap, main.snap, FALSE, FALSE, {})
            /\ main' = Idle /\ wish' = "on"
       ELSE /\ main' = [main EXCEPT !.pc = "stop"]
            /\ UNCHANGED <<relay, thread, closed, wish>>
    /\ UNCHANGED <<saved, ran, calls, faults>>

\* ensureStarted, of onStart and onResume, looks at the state, ...
EnsureStarted ==
    /\ main.pc = "ensure"
    /\ \/ /\ ~main.snap.enabled
          /\ main' = Idle
          /\ IF state = "stopped" THEN UNCHANGED <<relay, thread, closed, wish>>
             ELSE StopLocked /\ UNCHANGED lastId
       \/ /\ main.snap.enabled
          /\ main' = IF state \in {"starting", "running"} THEN Idle
                     ELSE [main EXCEPT !.pc = "begin"]
          /\ UNCHANGED <<relay, thread, closed, wish>>
    /\ UNCHANGED <<saved, ran, calls, faults>>

\* ... gives LOCK up, and begins, whatever the state is by then.
EnsureBegins ==
    /\ main.pc = "begin"
    /\ Begin(main.snap, main.snap, FALSE, FALSE, {})
    /\ main' = Idle /\ wish' = "on"
    /\ UNCHANGED <<saved, ran, calls, faults>>

\* uninstall, or the end of start or restart with a disabled configuration.
Stop ==
    /\ main.pc = "stop"
    /\ StopLocked
    /\ lastId' = lastId + 1
    /\ main' = Idle
    /\ UNCHANGED <<saved, ran, calls, faults>>

\* restart with a disabled configuration saves it before it stops.
RestartDisabled ==
    /\ main.pc = "restart" /\ ~main.next.enabled
    /\ saved' = main.next
    /\ main' = [main EXCEPT !.pc = "stop"]
    /\ UNCHANGED <<relay, thread, closed, history, calls, faults>>

\* Mutant of Restart: the configuration is saved before it is known to work.
RestartSaving ==
    /\ main.pc = "restart" /\ main.next.enabled
    /\ Begin(main.next, main.snap, main.snap.enabled, FALSE, {})
    /\ main' = Idle /\ wish' = "on"
    /\ saved' = main.next
    /\ UNCHANGED <<ran, calls, faults>>

\* restart with an enabled configuration, which is saved once it runs.
Restart ==
    /\ main.pc = "restart" /\ main.next.enabled
    /\ Begin(main.next, main.snap, main.snap.enabled, FALSE, {})
    /\ main' = Idle /\ wish' = "on"
    /\ UNCHANGED <<saved, ran, calls, faults>>

\* onAttemptTimeout looks at the active attempt, ...
TimeoutFires ==
    /\ main = Idle
    /\ timer # 0
    /\ main' = IF active.id = timer THEN [pc |-> "fail", id |-> timer] ELSE Idle
    /\ timer' = 0
    /\ UNCHANGED <<state, active, lastId, thread, closed, saved,
                   history, calls, faults>>

\* ... gives LOCK up, and fails it, whatever its state by then, ...
TimeoutFails ==
    /\ main.pc = "fail"
    /\ IF active.id = main.id
       THEN /\ Detach /\ CloseOpen({})
            /\ main' = IF Restores(active) THEN Restoring(active.previous) ELSE Idle
       ELSE main' = Idle /\ UNCHANGED <<relay, thread, closed>>
    /\ UNCHANGED <<saved, history, calls, faults>>

\* ... and starts the previous configuration again.
TimeoutRecovers ==
    /\ main.pc = "recover"
    /\ Begin(main.values, main.values, FALSE, TRUE, {})
    /\ main' = Idle
    /\ RecoverySeen
    /\ UNCHANGED <<saved, ran, calls, faults>>

-----------------------------------------------------------------------------
\* A listener's thread.

\* A thread has its local port until close() sees its socket.
HasPort(l) == thread[l].pc \in {"bound", "accept"}
PortTaken(side) == \E m \in DOMAIN thread : m[2] = side /\ HasPort(m)

Go(l, to) == thread' = [thread EXCEPT ![l] = to] /\ UNCHANGED closed
End(l) ==
    /\ thread' = [m \in DOMAIN thread \ {l} |-> thread[m]]
    /\ closed' = closed \ {l}

Bind(l) ==
    /\ thread[l].pc = "new"
    /\ ~PortTaken(l[2])
    /\ Go(l, At("bound"))
    /\ UNCHANGED <<relay, main, saved, history, calls, faults>>

\* The port is taken, by a listener or by somebody else; nothing is reported
\* of a closed listener.
BindFails(l) ==
    /\ thread[l].pc = "new"
    /\ (PortTaken(l[2]) /\ UNCHANGED faults) \/ Fault
    /\ IF l \in closed THEN End(l) ELSE Go(l, At("error"))
    /\ UNCHANGED <<relay, main, saved, history, calls>>

\* Mutant of IsCurrent: any attempt's listener counts while one is starting.
IsAnyones(l) == active # NoAttempt /\ state = "starting"

\* listenerBound does not return early.
IsCurrent(l) == active.id = l[1] /\ state = "starting"

\* The thread has set its socket; listenerBound: with the second listener the
\* relay runs, and unless it is a recovery its configuration is saved.  A
\* closed listener does not accept.
ListenerBound(l) ==
    /\ thread[l].pc = "bound"
    /\ IF l \in closed THEN End(l) ELSE Go(l, At("accept"))
    /\ IF IsCurrent(l)
       THEN LET bound == active.bound \cup {l[2]} IN
            /\ active' = [active EXCEPT !.bound = bound]
            /\ IF bound = Side
               THEN /\ state' = "running" /\ timer' = 0
                    /\ ran' = ran \cup {active.target}
                    /\ saved' = IF active.recovery THEN saved ELSE On(active.target)
               ELSE UNCHANGED <<state, timer, ran, saved>>
       ELSE UNCHANGED <<active, state, timer, ran, saved>>
    /\ UNCHANGED <<lastId, main, wish, calls, faults>>

\* accept() throws though nobody closed the socket.
AcceptFails(l) ==
    /\ thread[l].pc = "accept"
    /\ Fault
    /\ Go(l, At("error"))
    /\ UNCHANGED <<relay, main, saved, history, calls>>

\* listenerFailed, and failAttempt up to the end of its LOCK; a thread that
\* is not of the active attempt just ends.
ListenerFailed(l) ==
    /\ thread[l].pc = "error"
    /\ \/ active.id # l[1] /\ End(l) /\ UNCHANGED relay
       \/ active.id = l[1] /\ ~Restores(active) /\ Detach /\ CloseOpen({l})
       \/ /\ active.id = l[1] /\ Restores(active) /\ Detach
          /\ closed' = (closed \cup Open) \cap Left({})
          /\ thread' = [m \in Left({}) |->
                IF m = l THEN Restoring(active.previous) ELSE thread[m]]
    /\ UNCHANGED <<main, saved, history, calls, faults>>

\* failAttempt goes on: the previous configuration is started again, and the
\* thread ends.
Recover(l) ==
    /\ thread[l].pc = "recover"
    /\ LET v == thread[l].values IN Begin(v, v, FALSE, TRUE, {l})
    /\ RecoverySeen
    /\ UNCHANGED <<main, saved, ran, calls, faults>>

\* The process is killed and started again.
Killed ==
    /\ lastId # 0
    /\ Fault
    /\ state' = "stopped" /\ active' = NoAttempt /\ lastId' = 0 /\ timer' = 0
    /\ thread' = << >> /\ closed' = {}
    /\ main' = Idle /\ wish' = "off"
    /\ UNCHANGED <<saved, ran, calls>>

-----------------------------------------------------------------------------

Init ==
    /\ state = "stopped"
    /\ active = NoAttempt /\ lastId = 0 /\ timer = 0
    /\ thread = << >> /\ closed = {}
    /\ main = Idle
    /\ saved \in [enabled: BOOLEAN, target: Initial]
    /\ ran = {saved.target} /\ wish = "off"
    /\ calls = 0 /\ faults = 0

MainThread ==
    \/ Start \/ EnsureStarted \/ EnsureBegins \/ Stop \/ RestartDisabled \/ Restart
    \/ TimeoutFires \/ TimeoutFails \/ TimeoutRecovers

Worker(l) ==
    \/ Bind(l) \/ BindFails(l) \/ ListenerBound(l) \/ AcceptFails(l)
    \/ ListenerFailed(l) \/ Recover(l)

\* The dialog rejects targets that loop back.
Calls ==
    \/ \E op \in {"start", "ensure", "stop"} : Call(op, saved)
    \/ \E next \in [enabled: BOOLEAN, target: Target \ Loops] : Call("restart", next)

Next == Calls \/ MainThread \/ (\E l \in DOMAIN thread : Worker(l)) \/ Killed

Spec == Init /\ [][Next]_vars

\* The main thread runs, and a thread that failed goes on to recover.  A bind
\* may hang, and a thread that was started may never be scheduled.
FairSpec ==
    /\ Spec
    /\ WF_vars(MainThread)
    /\ WF_vars(\E l \in DOMAIN thread : Recover(l))

-----------------------------------------------------------------------------
(* Properties *)

Attempt == [id: Nat \ {0}, target: Target, previous: Values, restore: BOOLEAN,
            recovery: BOOLEAN, bound: SUBSET Side]
ThreadState == {At(pc) : pc \in {"new", "bound", "accept", "error"}}
               \cup {Restoring(v) : v \in Values}
MainState == {Idle} \cup {Restoring(v) : v \in Values}
             \cup [pc: {"start", "ensure", "begin", "stop", "restart"}, next: Values, snap: Values]
             \cup [pc: {"fail"}, id: 1..lastId]

\* Type correctness; a posted timeout is the active attempt's.
TypeOK ==
    /\ state \in {"stopped", "starting", "running", "failed"}
    /\ active = NoAttempt \/ active \in Attempt
    /\ lastId \in Nat /\ active.id <= lastId
    /\ DOMAIN thread \subseteq (1..lastId) \X Side
    /\ \A l \in DOMAIN thread : thread[l] \in ThreadState
    /\ closed \subseteq DOMAIN thread
    /\ timer \in {0, active.id}
    /\ main \in MainState
    /\ saved \in Values
    /\ ran \subseteq Target /\ wish \in {"on", "off", "recovered"}
    /\ calls \in 0..MaxCalls /\ faults \in 0..MaxFaults

\* failAttempt has detached an attempt, on the main thread or a listener's,
\* and has the previous configuration still to start.
Recovering ==
    main.pc = "recover" \/ \E l \in DOMAIN thread : thread[l].pc = "recover"

\* What getState and getStatus say is true: a relay that says it is running
\* has both its own listeners bound and open, never one of an earlier attempt.
\* It may also say so while it has none: failAttempt closes both and leaves
\* the state alone until it starts the previous configuration, which it is
\* then bound to do.  (isRunning looks at the listeners too, and denies it.)
RunningIsWhole ==
    state = "running" =>
        IF active = NoAttempt THEN Recovering
        ELSE \A s \in Side : LET l == <<active.id, s>> IN
                /\ l \in DOMAIN thread \ closed
                /\ thread[l].pc \in {"accept", "error"}

\* No listener is left behind: one that is not of the active attempt was
\* closed, so its thread ends and its port is free for the attempts to come,
\* whatever order stops, failures and recoveries came in.
NoListenerLeaks == \A l \in DOMAIN thread : l[1] # active.id => l \in closed

\* A configuration is in the preferences as enabled only if the relay was
\* running with it once: one that fails is not what the next launch starts.
SavedWasRunning == saved.enabled => saved.target \in ran

\* After a stop the relay stays stopped until it is asked to start, with one
\* exception: failAttempt starts the previous configuration again without
\* looking whether it was stopped since it gave LOCK up.
OnlyRecoveryUndoesStop == wish = "off" => state = "stopped"

\* An attempt comes to an end whatever its listeners do: running, failed or
\* stopped, also when a bind hangs, when both listeners fail, when the timeout
\* races them, or when the recovery fails or hangs in turn.
StatusSettles ==
    (state = "starting" \/ (state = "running" /\ active = NoAttempt))
    ~> (state \in {"stopped", "failed"} \/ (state = "running" /\ active # NoAttempt))

=============================================================================
