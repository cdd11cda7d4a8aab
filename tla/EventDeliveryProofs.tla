------------------------ MODULE EventDeliveryProofs ------------------------
(***************************************************************************)
(* Proofs about EventDelivery: type correctness, delivery at least once,   *)
(* and the session of the connection that logged in last.                  *)
(***************************************************************************)
EXTENDS EventDelivery, TLAPS

-----------------------------------------------------------------------------

\* An interval grows with its end.
LEMMA IntervalGrows ==
  ASSUME NEW n \in Nat, NEW m \in Nat, n <= m
  PROVE  1..n \subseteq 1..m
BY SMT

\* After(v) is a state of the loop, working on what it worked on before.
LEMMA AfterType ==
  ASSUME TypeOK, NEW v \in loop.batch, loop.pc # "poll"
  PROVE  /\ After(v) \in LoopState
         /\ After(v).pc \in {"poll", "each"}
         /\ After(v).pc # "poll" => After(v).batch # {}
         /\ After(v).batch \subseteq 1..After(v).snap
         /\ After(v).snap <= version
BY SMT DEF TypeOK, LoopState, After, Loop, Poll

\* One step keeps the types.
LEMMA TypeStep ==
  ASSUME TypeOK, [Next]_vars
  PROVE  TypeOK'
<1> USE BoundAssumption DEF Link, Loop
<1>1. CASE Settle
  BY <1>1, SMT DEF Settle, TypeOK, ConnState, LoopState
<1>2. ASSUME NEW c \in Conn, Connect(c)
      PROVE  TypeOK'
  BY <1>2, SMT DEF Connect, TypeOK, ConnState, Closed
<1>3. ASSUME NEW c \in Conn, Login(c)
      PROVE  TypeOK'
  BY <1>3, SMT DEF Login, TypeOK, ConnState
<1>4. ASSUME NEW c \in Conn, SendStartup(c)
      PROVE  TypeOK'
  BY <1>4, SMT DEF SendStartup, TypeOK, ConnState
<1>5. ASSUME NEW c \in Conn, FinishLogin(c)
      PROVE  TypeOK'
  <2>1. delivered' \subseteq 1..version
    <3>1. /\ conn[c].snap \in Nat /\ conn[c].snap <= version
          /\ version \in Nat /\ delivered \subseteq 1..version
      BY SMT DEF TypeOK, ConnState
    <3>2. delivered' = delivered \cup (1..conn[c].snap)
      BY <1>5 DEF FinishLogin, Covered
    <3>3. 1..conn[c].snap \subseteq 1..version
      BY <3>1, IntervalGrows
    <3> QED
      BY <3>1, <3>2, <3>3
  <2>2. conn' \in [Conn -> ConnState] /\ \A d \in Conn : conn'[d].snap <= version
    BY <1>5, SMT DEF FinishLogin, TypeOK, ConnState
  <2> QED
    BY <1>5, <2>1, <2>2, SMT DEF FinishLogin, TypeOK
<1>6. ASSUME NEW c \in Conn, RejectLogin(c)
      PROVE  TypeOK'
  BY <1>6, SMT DEF RejectLogin, TypeOK, ConnState, Closed
<1>7. ASSUME NEW c \in Conn, Reply(c)
      PROVE  TypeOK'
  BY <1>7, SMT DEF Reply, TypeOK
<1>8. ASSUME NEW c \in Conn, Drop(c)
      PROVE  TypeOK'
  BY <1>8, SMT DEF Drop, TypeOK, ConnState
<1>9. ASSUME NEW c \in Conn, Close(c)
      PROVE  TypeOK'
  BY <1>9, SMT DEF Close, TypeOK, ConnState, Closed
<1>10. CASE TcpCrash
  BY <1>10, SMT DEF TcpCrash, TypeOK, ConnState, Closed, LoopState, Poll
<1>11. CASE ListPending
  BY <1>11, SMT DEF ListPending, Listed, Pending, TypeOK, LoopState
<1>12. CASE Push
  BY <1>12, SMT DEF Push, Writable, TypeOK, LoopState
<1>13. ASSUME NEW v \in loop.batch, Skip(v)
       PROVE  TypeOK'
  BY <1>13, AfterType, SMT DEF Skip, TypeOK
<1>14. ASSUME NEW v \in loop.batch, MarkDelivered(v)
       PROVE  TypeOK'
  <2>1. delivered' \subseteq 1..version
    BY <1>14, SMT DEF MarkDelivered, TypeOK, LoopState
  <2> QED
    BY <1>14, <2>1, AfterType, SMT DEF MarkDelivered, TypeOK
<1>15. ASSUME NEW v \in loop.batch, PushFails(v)
       PROVE  TypeOK'
  BY <1>15, AfterType, SMT DEF PushFails, TypeOK
<1>16. CASE UNCHANGED vars
  BY <1>16, SMT DEF vars, TypeOK
<1> QED
  BY <1>1, <1>2, <1>3, <1>4, <1>5, <1>6, <1>7, <1>8, <1>9, <1>10, <1>11,
     <1>12, <1>13, <1>14, <1>15, <1>16 DEF Next, EventLoop, Handler

\* The initial state has the types.
LEMMA TypeInit == Init => TypeOK
BY BoundAssumption, SMT
   DEF Init, TypeOK, ConnState, Closed, Link, LoopState, Loop, Poll

\* Every table row, connection and batch has its type, and the loop works on
\* events that were committed, for any number of connections and settlements.
THEOREM TypeCorrect == Spec => []TypeOK
<1>1. Init => TypeOK
  BY TypeInit
<1>2. TypeOK /\ [Next]_vars => TypeOK'
  BY TypeStep
<1> QED
  BY <1>1, <1>2, PTL DEF Spec

-----------------------------------------------------------------------------

\* Why an event is never marked too early: what a login is about to cover,
\* and what the loop is about to mark, was written already.
SentInv ==
    /\ DeliveredWasSent
    /\ \A c \in Conn : conn[c].phase = "sent" => conn[c].snap <= told
    /\ loop.pc = "push" => loop.snap <= told

\* One step keeps SentInv.
LEMMA SentStep ==
  ASSUME TypeOK, SentInv, [Next]_vars
  PROVE  SentInv'
<1> USE BoundAssumption DEF SentInv, DeliveredWasSent, Link, Loop
<1>1. CASE Settle
  BY <1>1, SMT DEF Settle
<1>2. ASSUME NEW c \in Conn, Connect(c)
      PROVE  SentInv'
  BY <1>2, SMT DEF Connect, Closed, TypeOK, ConnState
<1>3. ASSUME NEW c \in Conn, Login(c)
      PROVE  SentInv'
  BY <1>3, SMT DEF Login, TypeOK, ConnState
<1>4. ASSUME NEW c \in Conn, SendStartup(c)
      PROVE  SentInv'
  BY <1>4, SMT DEF SendStartup, TypeOK, ConnState, LoopState
<1>5. ASSUME NEW c \in Conn, FinishLogin(c)
      PROVE  SentInv'
  BY <1>5, SMT DEF FinishLogin, Covered, TypeOK, ConnState
<1>6. ASSUME NEW c \in Conn, RejectLogin(c)
      PROVE  SentInv'
  BY <1>6, SMT DEF RejectLogin, Closed, TypeOK, ConnState
<1>7. ASSUME NEW c \in Conn, Reply(c)
      PROVE  SentInv'
  BY <1>7, SMT DEF Reply, TypeOK, ConnState, LoopState
<1>8. ASSUME NEW c \in Conn, Drop(c)
      PROVE  SentInv'
  BY <1>8, SMT DEF Drop, TypeOK, ConnState
<1>9. ASSUME NEW c \in Conn, Close(c)
      PROVE  SentInv'
  BY <1>9, SMT DEF Close, Closed, TypeOK, ConnState
<1>10. CASE TcpCrash
  BY <1>10, SMT DEF TcpCrash, Closed, Poll
<1>11. CASE ListPending
  BY <1>11, SMT DEF ListPending
<1>12. CASE Push
  BY <1>12, SMT DEF Push, TypeOK, ConnState, LoopState
<1>13. ASSUME NEW v \in loop.batch, Skip(v)
       PROVE  SentInv'
  BY <1>13, AfterType, SMT DEF Skip
<1>14. ASSUME NEW v \in loop.batch, MarkDelivered(v)
       PROVE  SentInv'
  <2>1. v <= told
    BY <1>14, SMT DEF MarkDelivered, TypeOK, LoopState
  <2> QED
    BY <1>14, <2>1, AfterType, SMT DEF MarkDelivered
<1>15. ASSUME NEW v \in loop.batch, PushFails(v)
       PROVE  SentInv'
  BY <1>15, AfterType, SMT DEF PushFails
<1>16. CASE UNCHANGED vars
  BY <1>16, SMT DEF vars
<1> QED
  BY <1>1, <1>2, <1>3, <1>4, <1>5, <1>6, <1>7, <1>8, <1>9, <1>10, <1>11,
     <1>12, <1>13, <1>14, <1>15, <1>16 DEF Next, EventLoop, Handler

\* At least once, for any number of connections, faults and settlements: an
\* event is marked delivered only after a frame at least as new was written.
THEOREM DeliveredAtLeastOnce == Spec => []DeliveredWasSent
<1>1. Init => TypeOK /\ SentInv
  BY TypeInit, SMT DEF Init, SentInv, DeliveredWasSent, Closed, Link, Loop, Poll
<1>2. TypeOK /\ SentInv /\ [Next]_vars => TypeOK' /\ SentInv'
  BY TypeStep, SentStep
<1>3. SentInv => DeliveredWasSent
  BY DEF SentInv
<1> QED
  BY <1>1, <1>2, <1>3, PTL DEF Spec

-----------------------------------------------------------------------------

\* The handler of the newest login keeps its session, however the older
\* connections of the role end.
THEOREM NewestLoginHasSession == Spec => []LatestLoginHasSession
<1>1. Init => TypeOK /\ LatestLoginHasSession
  BY TypeInit DEF Init, LatestLoginHasSession
<1>2. ASSUME TypeOK, LatestLoginHasSession, [Next]_vars
      PROVE  LatestLoginHasSession'
  <2> USE BoundAssumption DEF LatestLoginHasSession, TypeOK, Link
  <2>1. ASSUME NEW c \in Conn, Connect(c) \/ Login(c) \/ RejectLogin(c) \/ Drop(c)
        PROVE  LatestLoginHasSession'
    BY <1>2, <2>1, SMT DEF Connect, Login, RejectLogin, Drop, Closed, ConnState
  <2>2. ASSUME NEW c \in Conn, SendStartup(c) \/ FinishLogin(c) \/ Reply(c)
        PROVE  LatestLoginHasSession'
    BY <1>2, <2>2, SMT DEF SendStartup, FinishLogin, Reply, ConnState
  <2>3. ASSUME NEW c \in Conn, Close(c)
        PROVE  LatestLoginHasSession'
    BY <1>2, <2>3, SMT DEF Close, Popped, Closed, ConnState
  <2>4. CASE TcpCrash
    BY <1>2, <2>4, SMT DEF TcpCrash, Closed
  <2>5. CASE Settle \/ EventLoop \/ UNCHANGED vars
    BY <1>2, <2>5, SMT DEF Settle, EventLoop, ListPending, Push, Skip, MarkDelivered,
                     PushFails, vars
  <2> QED
    BY <1>2, <2>1, <2>2, <2>3, <2>4, <2>5 DEF Next, Handler
<1>3. TypeOK /\ LatestLoginHasSession /\ [Next]_vars
        => TypeOK' /\ LatestLoginHasSession'
  BY <1>2, TypeStep
<1> QED
  BY <1>1, <1>3, PTL DEF Spec

=============================================================================
