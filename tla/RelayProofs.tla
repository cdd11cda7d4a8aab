---------------------------- MODULE RelayProofs ----------------------------
(***************************************************************************)
(* Proofs about Relay, for any targets, listeners, calls, faults and kills *)
(* of the process.                                                         *)
(***************************************************************************)
EXTENDS Relay, TLAPS

\* Why a relay that runs is whole: the threads of the active attempt are open
\* and have nothing to restore, and a side is in bound once its thread accepts.
ActiveIsWhole ==
    active # NoAttempt =>
        /\ \A l \in DOMAIN thread :
             l[1] = active.id => l \notin closed /\ thread[l].pc # "recover"
        /\ \A s \in active.bound :
             /\ <<active.id, s>> \in DOMAIN thread
             /\ thread[<<active.id, s>>].pc \in {"accept", "error"}
        /\ state = "running" => active.bound = Side

\* Why a stop lasts: there is no attempt left that could change the state.
StopIsWhole == wish = "off" => state = "stopped" /\ active = NoAttempt

\* Why a relay says that it runs when no attempt is active.
GapIsRecovery == state = "running" /\ active = NoAttempt => Recovering

RelayInv ==
    /\ TypeOK /\ ActiveIsWhole /\ GapIsRecovery
    /\ NoListenerLeaks /\ SavedWasRunning /\ StopIsWhole

-----------------------------------------------------------------------------

LEMMA Pcs ==
    /\ \A t \in ThreadState : t.pc \in {"new", "bound", "accept", "error", "recover"}
    /\ \A t \in ThreadState : t.pc = "recover" => t.values \in Values
    /\ \A pc \in {"new", "bound", "accept", "error"} :
         At(pc) \in ThreadState /\ At(pc).pc = pc
    /\ \A v \in Values : Restoring(v) \in ThreadState /\ Restoring(v).pc = "recover"
<1>1. \A pc \in {"new", "bound", "accept", "error"} : At(pc) \in ThreadState
  BY DEF ThreadState
<1>2. \A v \in Values : Restoring(v) \in ThreadState
  BY DEF ThreadState
<1>3. \A pc : At(pc).pc = pc
  BY DEF At
<1>4. \A v : Restoring(v).pc = "recover" /\ Restoring(v).values = v
  BY DEF Restoring
<1>5. \A t \in ThreadState : \/ \E pc \in {"new", "bound", "accept", "error"} : t = At(pc)
                              \/ \E v \in Values : t = Restoring(v)
  BY DEF ThreadState
<1>6. ASSUME NEW t \in ThreadState
      PROVE  /\ t.pc \in {"new", "bound", "accept", "error", "recover"}
             /\ t.pc = "recover" => t.values \in Values
  BY <1>3, <1>4, <1>5
<1> QED
  BY <1>1, <1>2, <1>3, <1>4, <1>6

\* What is there after beginAttempt.
LEMMA BeginFacts ==
    ASSUME TypeOK, NEW v \in Values, NEW previous \in Values,
           NEW restore \in BOOLEAN, NEW recovery \in BOOLEAN,
           NEW ended \in SUBSET DOMAIN thread,
           Begin(v, previous, restore, recovery, ended)
    PROVE  /\ state' = "starting"
           /\ lastId' = lastId + 1 /\ timer' = lastId + 1
           /\ active' \in Attempt /\ active'.id = lastId + 1 /\ active'.bound = {}
           /\ active' # NoAttempt
           /\ DOMAIN thread' \subseteq (1..(lastId + 1)) \X Side
           /\ \A l \in DOMAIN thread' : thread'[l] \in ThreadState
           /\ closed' \subseteq DOMAIN thread'
           /\ \A l \in DOMAIN thread' :
                l[1] = lastId + 1 => l \notin closed' /\ thread'[l].pc # "recover"
           /\ NoListenerLeaks => NoListenerLeaks'
<1> DEFINE id == lastId + 1
           new == At(IF v.target \in Loops THEN "error" ELSE "new")
           left == Left(ended)
<1>1. id \in Nat \ {0} /\ v.target \in Target
  BY DEF TypeOK, Values
<1>2. active' = [id |-> id, target |-> v.target, previous |-> previous,
                 restore |-> restore, recovery |-> recovery, bound |-> {}]
  BY DEF Begin
<1>3. active' \in Attempt /\ active'.id = id /\ active'.bound = {} /\ active' # NoAttempt
  BY <1>1, <1>2 DEF Attempt, NoAttempt
<1>4. new \in ThreadState /\ new.pc # "recover"
  BY Pcs
<1>5. /\ thread' = [l \in left \cup ({id} \X Side) |->
                      IF l \in DOMAIN thread THEN thread[l] ELSE new]
      /\ closed' = (closed \cup Open) \cap left
      /\ state' = "starting" /\ lastId' = id /\ timer' = id
  BY DEF Begin, PostTimeout
<1>6. left \subseteq DOMAIN thread
  BY DEF Left
<1>7. \A l \in DOMAIN thread : l[1] # id /\ l \in (1..id) \X Side
  BY DEF TypeOK
<1> HIDE DEF new, left
<1>8. /\ DOMAIN thread' = left \cup ({id} \X Side)
      /\ \A l \in left : thread'[l] = thread[l]
      /\ \A l \in {id} \X Side : thread'[l] = new
  BY <1>5, <1>6, <1>7
<1>9. {id} \X Side \subseteq (1..id) \X Side
  BY <1>1
<1>10. DOMAIN thread' \subseteq (1..id) \X Side
  BY <1>6, <1>7, <1>8, <1>9
<1>11. \A l \in DOMAIN thread' : thread'[l] \in ThreadState
  BY <1>4, <1>6, <1>8 DEF TypeOK
<1>12. closed' \subseteq left
  BY <1>5
<1>13. \A l \in DOMAIN thread' : l[1] = id => l \notin closed' /\ thread'[l].pc # "recover"
  BY <1>4, <1>6, <1>7, <1>8, <1>12
<1>14. ASSUME NoListenerLeaks PROVE NoListenerLeaks'
  <2> SUFFICES ASSUME NEW l \in DOMAIN thread', l[1] # id PROVE l \in closed'
    BY <1>3 DEF NoListenerLeaks
  <2>1. l \in left
    BY <1>8
  <2> QED
    BY <1>5, <1>6, <1>14, <2>1 DEF NoListenerLeaks, Open
<1> QED
  BY <1>3, <1>5, <1>8, <1>10, <1>11, <1>12, <1>13, <1>14

\* What is left of the threads, all of them closed, once there is no attempt.
Leftovers ==
    /\ DOMAIN thread' \subseteq DOMAIN thread
    /\ \A l \in DOMAIN thread' : thread'[l] \in ThreadState
    /\ closed' = DOMAIN thread'

\* What is there after stopLocked or the first part of failAttempt.
LEMMA CloseFacts ==
    ASSUME RelayInv, NEW ended \in SUBSET DOMAIN thread, CloseOpen(ended)
    PROVE  Leftovers
<1>1. /\ thread' = [l \in Left(ended) |-> thread[l]]
      /\ closed' = (closed \cup Open) \cap Left(ended)
      /\ Left(ended) \subseteq DOMAIN thread
  BY DEF CloseOpen, Left
<1> QED
  BY <1>1 DEF RelayInv, TypeOK, NoListenerLeaks, Open, Leftovers

LEMMA BeginKeeps ==
    ASSUME RelayInv, NEW v \in Values, NEW previous \in Values,
           NEW restore \in BOOLEAN, NEW recovery \in BOOLEAN,
           NEW ended \in SUBSET DOMAIN thread,
           Begin(v, previous, restore, recovery, ended),
           main' = main \/ main' = Idle,
           wish' \in {"on", "recovered"},
           UNCHANGED <<saved, ran, calls, faults>>
    PROVE  RelayInv'
<1>1. TypeOK
  BY DEF RelayInv
<1>2. TypeOK'
  <2>1. main' \in MainState'
    <3>1. lastId \in Nat /\ lastId' = lastId + 1 /\ main \in MainState
      BY <1>1, BeginFacts DEF TypeOK
    <3>2. 1..lastId \subseteq 1..lastId'
      BY <3>1
    <3> QED
      BY <3>1, <3>2 DEF MainState
  <2> QED
    BY <1>1, <2>1, BeginFacts DEF TypeOK
<1>3. ActiveIsWhole'
  BY <1>1, BeginFacts DEF ActiveIsWhole
<1> QED
  BY <1>1, <1>2, <1>3, BeginFacts DEF RelayInv, GapIsRecovery, SavedWasRunning, StopIsWhole

\* The attempt is given up; the state is that of a stop or of a failure.
LEMMA CloseKeeps ==
    ASSUME RelayInv, Leftovers,
           active' = NoAttempt, timer' = 0,
           state' \in {"stopped", "failed", state},
           state' = "running" => Recovering',
           wish' = "off" => state' = "stopped",
           wish' \in {"off", wish},
           lastId' \in Nat, lastId <= lastId',
           main' \in MainState',
           UNCHANGED <<saved, ran, calls, faults>>
    PROVE  RelayInv'
<1>1. TypeOK
  BY DEF RelayInv
<1>2. (1..lastId) \X Side \subseteq (1..lastId') \X Side
  BY <1>1 DEF TypeOK
<1>3. TypeOK'
  BY <1>1, <1>2 DEF TypeOK, NoAttempt, Leftovers
<1> QED
  BY <1>3 DEF RelayInv, ActiveIsWhole, GapIsRecovery, NoListenerLeaks, SavedWasRunning,
              StopIsWhole, Leftovers

\* A step of the main thread alone.
LEMMA MainKeeps ==
    ASSUME RelayInv, main.pc # "recover", main' \in MainState, calls' \in 0..MaxCalls,
           saved' \in Values, saved'.enabled => saved' = saved,
           timer' \in {0, timer},
           UNCHANGED <<state, active, lastId, thread, closed, history, faults>>
    PROVE  RelayInv'
<1>1. TypeOK'
  BY DEF RelayInv, TypeOK, MainState, history
<1> QED
  BY <1>1 DEF RelayInv, ActiveIsWhole, GapIsRecovery, Recovering, NoListenerLeaks,
              SavedWasRunning, StopIsWhole, history

\* Every action keeps the invariant.
LEMMA CallStep ==
    ASSUME RelayInv, NEW op \in {"start", "ensure", "stop", "restart"},
           NEW next \in Values, Call(op, next)
    PROVE  RelayInv'
<1>1. main' = [pc |-> op, next |-> next, snap |-> saved]
  BY DEF Call
<1>2. main' \in MainState
  BY <1>1 DEF MainState, RelayInv, TypeOK
<1>3. calls' \in 0..MaxCalls
  BY BoundAssumption DEF Call, RelayInv, TypeOK
<1> QED
  BY <1>2, <1>3, MainKeeps DEF Call, Idle, relay, history, RelayInv, TypeOK

LEMMA MainStep == RelayInv /\ MainThread => RelayInv'
<1> SUFFICES ASSUME RelayInv, MainThread PROVE RelayInv'
  OBVIOUS
<1>0. /\ TypeOK /\ saved \in Values /\ Idle \in MainState /\ lastId \in Nat
      /\ {} \in SUBSET DOMAIN thread /\ calls \in 0..MaxCalls
  BY DEF RelayInv, TypeOK, MainState
<1>1. main.pc \in {"start", "ensure", "begin", "stop", "restart"}
        => /\ main.snap \in Values /\ main.next \in Values
           /\ \A pc \in {"begin", "stop"} : [main EXCEPT !.pc = pc] \in MainState
  <2> SUFFICES ASSUME main.pc \in {"start", "ensure", "begin", "stop", "restart"}
               PROVE  main \in [pc: {"start", "ensure", "begin", "stop", "restart"},
                                next: Values, snap: Values]
    BY DEF MainState
  <2>1. main # Idle /\ main \notin [pc: {"fail"}, id: 1..lastId]
        /\ main \notin {Restoring(v) : v \in Values}
    BY DEF Idle, Restoring
  <2> QED
    BY <1>0, <2>1 DEF MainState, TypeOK
<1>2. main.pc = "recover" => main.values \in Values
  <2> SUFFICES ASSUME main.pc = "recover" PROVE main \in {Restoring(v) : v \in Values}
    BY DEF Restoring
  <2>1. main # Idle /\ main \notin [pc: {"fail"}, id: 1..lastId]
        /\ main \notin [pc: {"start", "ensure", "begin", "stop", "restart"},
                        next: Values, snap: Values]
    BY DEF Idle
  <2> QED
    BY <1>0, <2>1 DEF MainState, TypeOK
<1>a. main.pc = "fail" => main.id \in 1..lastId
  <2> SUFFICES ASSUME main.pc = "fail" PROVE main \in [pc: {"fail"}, id: 1..lastId]
    OBVIOUS
  <2>1. /\ main # Idle /\ main \notin {Restoring(v) : v \in Values}
        /\ main \notin [pc: {"start", "ensure", "begin", "stop", "restart"},
                        next: Values, snap: Values]
    BY DEF Idle, Restoring
  <2> QED
    BY <1>0, <2>1 DEF MainState, TypeOK
<1>3. CASE Start
  <2>1. CASE main.snap.enabled
    BY <1>0, <1>1, <1>3, <2>1, BeginKeeps DEF Start
  <2>2. CASE ~main.snap.enabled
    BY <1>0, <1>1, <1>3, <2>2, MainKeeps DEF Start, relay, history
  <2> QED
    BY <2>1, <2>2
<1>4. CASE EnsureStarted
  <2>1. CASE UNCHANGED <<relay, thread, closed, wish>>
    <3>1. main' \in MainState
      BY <1>0, <1>1, <1>4 DEF EnsureStarted
    <3> QED
      BY <1>0, <1>4, <2>1, <3>1, MainKeeps DEF EnsureStarted, relay, history
  <2>2. CASE StopLocked /\ UNCHANGED lastId
    <3>1. main' \in MainState'
      BY <1>0, <1>1, <1>4, <2>2 DEF EnsureStarted, MainState
    <3>c. Leftovers
      BY <1>0, <2>2, CloseFacts DEF StopLocked
    <3>2. /\ active' = NoAttempt /\ timer' = 0
          /\ state' = "stopped" /\ wish' = "off"
          /\ lastId' \in Nat /\ lastId <= lastId'
      BY <1>0, <2>2 DEF StopLocked
    <3>3. UNCHANGED <<saved, ran, calls, faults>>
      BY <1>4 DEF EnsureStarted
    <3> QED
      BY <3>1, <3>c, <3>2, <3>3, CloseKeeps
  <2> QED
    BY <1>4, <2>1, <2>2 DEF EnsureStarted
<1>5. CASE EnsureBegins
  BY <1>0, <1>1, <1>5, BeginKeeps DEF EnsureBegins
<1>6. CASE Stop
  <2>1. main' \in MainState'
    BY <1>6 DEF Stop, MainState
  <2> QED
    <3>1. Leftovers
      BY <1>0, <1>6, CloseFacts DEF Stop, StopLocked
    <3> QED
      BY <1>0, <1>6, <2>1, <3>1, CloseKeeps DEF Stop, StopLocked
<1>7. CASE RestartDisabled
  BY <1>0, <1>1, <1>7, MainKeeps DEF RestartDisabled, relay, history
<1>8. CASE Restart
  <2>1. main.snap.enabled \in BOOLEAN
    BY <1>1, <1>8 DEF Restart, Values
  <2> QED
    BY <1>0, <1>1, <1>8, <2>1, BeginKeeps DEF Restart
<1>9. CASE TimeoutFires
  <2>1. main' \in MainState
    <3>1. active.id = timer => timer \in 1..lastId
      BY <1>0, <1>9 DEF TimeoutFires, TypeOK, Attempt, NoAttempt
    <3> QED
      BY <1>0, <1>9, <3>1 DEF TimeoutFires, MainState
  <2> QED
    BY <1>0, <1>9, <2>1, MainKeeps DEF TimeoutFires, Idle
<1>10. CASE TimeoutFails
  <2>1. CASE active.id = main.id
    <3>0. active # NoAttempt
      BY <1>0, <1>a, <1>10, <2>1 DEF TimeoutFails, NoAttempt
    <3>1. main' \in MainState'
      <4>1. active.previous \in Values
        BY <1>0, <3>0 DEF TypeOK, Attempt
      <4> QED
        BY <1>10, <2>1, <4>1 DEF TimeoutFails, MainState
    <3>c. Leftovers
      BY <1>0, <1>10, <2>1, CloseFacts DEF TimeoutFails
    <3>2. /\ active' = NoAttempt /\ timer' = 0
          /\ state' \in {"failed", state} /\ wish # "off"
          /\ lastId' \in Nat /\ lastId <= lastId'
      BY <1>0, <1>10, <2>1, <3>0 DEF TimeoutFails, Detach, RelayInv, StopIsWhole
    <3>3. UNCHANGED <<saved, ran, wish, calls, faults>>
      BY <1>10 DEF TimeoutFails, history
    <3>4. state' = "running" => Recovering'
      BY <1>10, <2>1 DEF TimeoutFails, Detach, Restoring, Recovering
    <3> QED
      BY <3>1, <3>c, <3>2, <3>3, <3>4, CloseKeeps
  <2>2. CASE active.id # main.id
    BY <1>0, <1>10, <2>2, MainKeeps DEF TimeoutFails, relay
  <2> QED
    BY <2>1, <2>2
<1>11. CASE TimeoutRecovers
  <2>1. wish' \in {"on", "recovered"}
    BY <1>0, <1>11 DEF TimeoutRecovers, RecoverySeen, TypeOK
  <2> QED
    BY <1>0, <1>2, <1>11, <2>1, BeginKeeps DEF TimeoutRecovers
<1> QED
  BY <1>3, <1>4, <1>5, <1>6, <1>7, <1>8, <1>9, <1>10, <1>11 DEF MainThread

\* A step of one thread: it goes on, or it ends.
LEMMA ThreadKeeps ==
    ASSUME RelayInv, NEW l \in DOMAIN thread, thread[l].pc # "recover",
           \/ \E pc \in {"bound", "accept", "error"} :
                /\ Go(l, At(pc))
                /\ thread[l].pc = "accept" => pc = "error"
                /\ thread[l].pc # "error"
           \/ End(l) /\ (l \in closed \/ active.id # l[1]),
           faults' \in 0..MaxFaults,
           UNCHANGED <<relay, main, saved, history, calls>>
    PROVE  RelayInv'
<1>1. /\ DOMAIN thread' \subseteq DOMAIN thread
      /\ \A m \in DOMAIN thread' : thread'[m] \in ThreadState
      /\ closed' = closed \cap DOMAIN thread'
  BY Pcs DEF RelayInv, TypeOK, Go, End
<1>2. TypeOK'
  BY <1>1 DEF RelayInv, TypeOK, MainState, relay, history
<1>3. ActiveIsWhole'
  <2>1. CASE End(l) /\ (l \in closed \/ active.id # l[1])
    BY <2>1 DEF End, RelayInv, ActiveIsWhole, relay
  <2>2. ASSUME NEW pc \in {"bound", "accept", "error"}, Go(l, At(pc)),
               thread[l].pc = "accept" => pc = "error", thread[l].pc # "error"
        PROVE  ActiveIsWhole'
    <3>1. /\ thread'[l].pc = pc /\ DOMAIN thread' = DOMAIN thread
          /\ \A m \in DOMAIN thread : m # l => thread'[m] = thread[m]
          /\ closed' = closed
      BY <2>2, Pcs DEF Go
    <3> QED
      BY <2>2, <3>1 DEF RelayInv, ActiveIsWhole, relay
  <2> QED
    BY <2>1, <2>2
<1>4. NoListenerLeaks'
  BY <1>1 DEF RelayInv, NoListenerLeaks, relay
<1>5. \A m \in DOMAIN thread : m # l => m \in DOMAIN thread' /\ thread'[m] = thread[m]
  BY DEF Go, End
<1>6. GapIsRecovery'
  BY <1>5 DEF RelayInv, GapIsRecovery, Recovering, relay
<1> QED
  BY <1>2, <1>3, <1>4, <1>6 DEF RelayInv, SavedWasRunning, StopIsWhole, relay, history

LEMMA WorkerStep ==
    ASSUME RelayInv, NEW l \in DOMAIN thread, Worker(l) PROVE RelayInv'
<1>0. /\ TypeOK /\ faults \in 0..MaxFaults /\ thread[l] \in ThreadState
      /\ l \in (1..lastId) \X Side /\ {l} \in SUBSET DOMAIN thread
      /\ {} \in SUBSET DOMAIN thread
  BY DEF RelayInv, TypeOK
<1>f. Fault => faults' \in 0..MaxFaults
  BY <1>0, BoundAssumption DEF Fault
<1>1. CASE Bind(l)
  BY <1>0, <1>1, ThreadKeeps DEF Bind
<1>2. CASE BindFails(l)
  <2>1. faults' \in 0..MaxFaults
    BY <1>0, <1>2, <1>f DEF BindFails
  <2> QED
    BY <1>2, <2>1, ThreadKeeps DEF BindFails
<1>3. CASE AcceptFails(l)
  BY <1>3, <1>f, ThreadKeeps DEF AcceptFails
<1>4. CASE ListenerBound(l)
  <2>1. CASE ~IsCurrent(l)
    <3>1. UNCHANGED <<relay, main, saved, history, calls, faults>>
      BY <1>4, <2>1 DEF ListenerBound, relay, history
    <3> QED
      BY <1>0, <1>4, <3>1, ThreadKeeps DEF ListenerBound
  <2>2. CASE IsCurrent(l)
    <3> DEFINE bound == active.bound \cup {l[2]}
    <3>1. /\ active \in Attempt /\ active # NoAttempt /\ l \notin closed
          /\ l = <<active.id, l[2]>> /\ l[2] \in Side
      BY <1>0, <2>2 DEF IsCurrent, TypeOK, NoAttempt, RelayInv, ActiveIsWhole
    <3>2. /\ active' = [active EXCEPT !.bound = bound]
          /\ thread' = [thread EXCEPT ![l] = At("accept")] /\ closed' = closed
      BY <1>4, <2>2, <3>1 DEF ListenerBound, Go
    <3>3. /\ bound \in SUBSET Side
          /\ active' \in Attempt /\ active'.id = active.id /\ active'.bound = bound
          /\ active' # NoAttempt
      <4>1. bound \in SUBSET Side
        BY <3>1 DEF Attempt
      <4> HIDE DEF bound
      <4> QED
        BY <3>1, <3>2, <4>1 DEF Attempt, NoAttempt
    <3>4. /\ thread'[l].pc = "accept" /\ DOMAIN thread' = DOMAIN thread
          /\ \A m \in DOMAIN thread : thread'[m] \in ThreadState
          /\ \A m \in DOMAIN thread : m # l => thread'[m] = thread[m]
      BY <3>2, Pcs DEF RelayInv, TypeOK
    <3>5. /\ UNCHANGED <<lastId, main, wish, calls, faults>>
          /\ \/ /\ bound = Side /\ state' = "running" /\ timer' = 0
                /\ ran' = ran \cup {active.target}
                /\ saved' = IF active.recovery THEN saved ELSE On(active.target)
             \/ bound # Side /\ UNCHANGED <<state, timer, ran, saved>>
      BY <1>4, <2>2 DEF ListenerBound
    <3>6. state = "starting" /\ active.target \in Target
      BY <2>2, <3>1 DEF IsCurrent, Attempt
    <3> HIDE DEF bound
    <3>7. saved' \in Values /\ SavedWasRunning'
      <4>1. On(active.target) \in Values /\ On(active.target).target = active.target
        BY <3>6 DEF Values, On
      <4>2. saved \in Values /\ (saved.enabled => saved.target \in ran)
        BY DEF RelayInv, TypeOK, SavedWasRunning
      <4>3. ran \subseteq ran'
        BY <3>5
      <4>4. \/ saved' = saved
            \/ saved' = On(active.target) /\ active.target \in ran'
        BY <3>5
      <4> QED
        BY <4>1, <4>2, <4>3, <4>4 DEF SavedWasRunning
    <3>8. TypeOK'
      BY <3>2, <3>3, <3>4, <3>5, <3>6, <3>7 DEF RelayInv, TypeOK, MainState
    <3>9. ActiveIsWhole'
      <4>1. \A m \in DOMAIN thread : m[1] = active.id => m \notin closed /\ thread'[m].pc # "recover"
        BY <3>1, <3>4 DEF RelayInv, ActiveIsWhole
      <4>2. \A s \in bound : /\ <<active.id, s>> \in DOMAIN thread
                             /\ thread'[<<active.id, s>>].pc \in {"accept", "error"}
        BY <3>1, <3>4 DEF RelayInv, ActiveIsWhole, bound
      <4>3. state' = "running" => bound = Side
        BY <3>5, <3>6
      <4> QED
        BY <3>2, <3>3, <3>4, <4>1, <4>2, <4>3 DEF ActiveIsWhole
    <3>10. NoListenerLeaks'
      BY <3>2, <3>3, <3>4 DEF RelayInv, NoListenerLeaks
    <3>11. StopIsWhole'
      BY <3>1, <3>5 DEF RelayInv, StopIsWhole
    <3> QED
      BY <3>3, <3>7, <3>8, <3>9, <3>10, <3>11 DEF RelayInv, GapIsRecovery
  <2> QED
    BY <2>1, <2>2
<1>5. CASE ListenerFailed(l)
  <2>1. CASE active.id # l[1] /\ End(l) /\ UNCHANGED relay
    BY <1>0, <1>5, <2>1, ThreadKeeps DEF ListenerFailed
  <2>2. CASE active.id = l[1] /\ ~Restores(active) /\ Detach /\ CloseOpen({l})
    <3>1. active # NoAttempt
      BY <1>0, <2>2 DEF NoAttempt
    <3>2. main' \in MainState' /\ wish # "off"
      BY <1>0, <1>5, <2>2, <3>1 DEF ListenerFailed, Detach, MainState, history,
         RelayInv, TypeOK, StopIsWhole
    <3>3. /\ active' = NoAttempt /\ timer' = 0
          /\ state' \in {"failed", state} /\ lastId' \in Nat /\ lastId <= lastId'
      BY <1>0, <2>2 DEF Detach, TypeOK
    <3>4. UNCHANGED <<saved, ran, wish, calls, faults>>
      BY <1>5 DEF ListenerFailed, history
    <3>5. Leftovers
      BY <1>0, <2>2, CloseFacts
    <3>6. state' = "failed"
      BY <2>2 DEF Detach
    <3> QED
      BY <3>2, <3>3, <3>4, <3>5, <3>6, CloseKeeps
  <2>3. CASE /\ active.id = l[1] /\ Restores(active) /\ Detach
             /\ closed' = (closed \cup Open) \cap Left({})
             /\ thread' = [m \in Left({}) |->
                   IF m = l THEN Restoring(active.previous) ELSE thread[m]]
    <3>1. active # NoAttempt /\ active \in Attempt /\ active.previous \in Values
      BY <1>0, <2>3 DEF NoAttempt, TypeOK, Attempt
    <3>2. Leftovers
      BY <1>0, <2>3, <3>1, Pcs
         DEF Left, Open, RelayInv, TypeOK, NoListenerLeaks, Leftovers
    <3>3. /\ active' = NoAttempt /\ timer' = 0 /\ state' = state /\ wish # "off"
          /\ lastId' \in Nat /\ lastId <= lastId'
      BY <1>0, <2>3, <3>1 DEF Detach, RelayInv, TypeOK, StopIsWhole
    <3>4. UNCHANGED <<main, saved, ran, wish, calls, faults>>
      BY <1>5 DEF ListenerFailed, history
    <3>5. main' \in MainState'
      BY <1>0, <2>3, <3>4 DEF TypeOK, MainState, Detach
    <3>6. Recovering'
      <4>1. l \in Left({})
        BY <1>5, <2>3 DEF Left, ListenerFailed
      <4> QED
        BY <2>3, <4>1 DEF Recovering, Restoring
    <3> QED
      BY <3>2, <3>3, <3>4, <3>5, <3>6, CloseKeeps
  <2> QED
    BY <1>5, <2>1, <2>2, <2>3 DEF ListenerFailed
<1>6. CASE Recover(l)
  <2>1. thread[l].values \in Values
    BY <1>0, <1>6, Pcs DEF Recover
  <2>2. wish' \in {"on", "recovered"}
    BY <1>0, <1>6 DEF Recover, RecoverySeen, TypeOK
  <2> QED
    BY <1>0, <1>6, <2>1, <2>2, BeginKeeps DEF Recover
<1> QED
  BY <1>1, <1>2, <1>3, <1>4, <1>5, <1>6 DEF Worker

LEMMA KilledStep == ASSUME RelayInv, Killed PROVE RelayInv'
<1>1. /\ state' = "stopped" /\ active' = NoAttempt /\ lastId' = 0 /\ timer' = 0
      /\ DOMAIN thread' = {} /\ closed' = {} /\ main' = Idle /\ wish' = "off"
      /\ UNCHANGED <<saved, ran, calls>>
  BY DEF Killed
<1>2. faults' \in 0..MaxFaults
  BY BoundAssumption DEF Killed, Fault, RelayInv, TypeOK
<1>3. TypeOK'
  BY <1>1, <1>2 DEF RelayInv, TypeOK, NoAttempt, MainState
<1> QED
  BY <1>1, <1>3
     DEF RelayInv, ActiveIsWhole, GapIsRecovery, NoListenerLeaks, SavedWasRunning,
         StopIsWhole

LEMMA RelayStep == RelayInv /\ [Next]_vars => RelayInv'
<1> SUFFICES ASSUME RelayInv, [Next]_vars PROVE RelayInv'
  OBVIOUS
<1>1. CASE Calls
  <2>1. \A next \in [enabled: BOOLEAN, target: Target \ Loops] : next \in Values
    BY DEF Values
  <2>2. saved \in Values
    BY DEF RelayInv, TypeOK
  <2> QED
    BY <1>1, <2>1, <2>2, CallStep DEF Calls
<1>2. CASE UNCHANGED vars
  BY <1>2 DEF vars, relay, history, RelayInv, TypeOK, MainState, ActiveIsWhole,
     GapIsRecovery, Recovering, NoListenerLeaks, SavedWasRunning, StopIsWhole
<1> QED
  BY <1>1, <1>2, MainStep, WorkerStep, KilledStep DEF Next

LEMMA RelayInit == Init => RelayInv
<1> SUFFICES ASSUME Init PROVE RelayInv
  OBVIOUS
<1>1. saved \in Values /\ saved.target \in Target /\ ran = {saved.target}
  BY TargetAssumption DEF Init, Values
<1>2. /\ DOMAIN thread = {} /\ closed = {} /\ active = NoAttempt /\ main = Idle
      /\ state = "stopped" /\ lastId = 0 /\ timer = 0 /\ wish = "off"
      /\ calls = 0 /\ faults = 0
  BY DEF Init
<1>3. TypeOK
  BY <1>1, <1>2, BoundAssumption DEF TypeOK, NoAttempt, MainState
<1> QED
  BY <1>1, <1>2, <1>3
     DEF RelayInv, ActiveIsWhole, GapIsRecovery, NoListenerLeaks, SavedWasRunning,
         StopIsWhole

LEMMA Relays == Spec => []RelayInv
  BY RelayInit, RelayStep, PTL DEF Spec

-----------------------------------------------------------------------------

\* The state, the attempt, its threads and its timeout have their types, and a
\* timeout that is posted is that of the active attempt.
THEOREM TypeCorrect == Spec => []TypeOK
<1>1. RelayInv => TypeOK
  BY DEF RelayInv
<1> QED
  BY <1>1, Relays, PTL

\* A relay that says it runs has both its listeners, or has closed both and is
\* about to start the previous configuration, whatever threads of earlier
\* attempts, timeouts and recoveries do (getState, listenerBound, failAttempt).
THEOREM RunsWhole == Spec => []RunningIsWhole
<1>1. RelayInv => RunningIsWhole
  BY DEF RelayInv, ActiveIsWhole, GapIsRecovery, RunningIsWhole
<1> QED
  BY <1>1, Relays, PTL

\* No port is held by a listener nobody will close (stopLocked, Listener.close).
THEOREM ListenersAreClosed == Spec => []NoListenerLeaks
<1>1. RelayInv => NoListenerLeaks
  BY DEF RelayInv
<1> QED
  BY <1>1, Relays, PTL

\* The preferences enable no target that never ran (listenerBound, restart).
THEOREM SavedTargetsRan == Spec => []SavedWasRunning
<1>1. RelayInv => SavedWasRunning
  BY DEF RelayInv
<1> QED
  BY <1>1, Relays, PTL

\* Nothing but a recovery under way brings a stopped relay back (failAttempt).
THEOREM StopsLast == Spec => []OnlyRecoveryUndoesStop
<1>1. RelayInv => OnlyRecoveryUndoesStop
  BY DEF RelayInv, StopIsWhole, OnlyRecoveryUndoesStop
<1> QED
  BY <1>1, Relays, PTL

=============================================================================
