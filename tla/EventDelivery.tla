--------------------------- MODULE EventDelivery ---------------------------
(***************************************************************************)
(* How a settled payment reaches the player's client: game_events is an    *)
(* outbox that settle_game_payment (server/storage.py, HTTP process) fills *)
(* and the game TCP server (server/game_tcp.py) empties, either by its     *)
(* polling task _event_loop, which pushes RoleBase frames to the role's    *)
(* session, or by a login, whose startup frames carry the role as it is.   *)
(*                                                                         *)
(* One role.  Its row is its version: every settlement raises it by one    *)
(* and writes the event of that version, so an event is a version too, and *)
(* a frame is known by the version of the row it was made from.  (The      *)
(* other writers of the row are in RoleState.)  The tasks of the server    *)
(* interleave at their awaits; the batch of _event_loop holds events of    *)
(* other roles as well, whose sends are awaited between those of this one. *)
(***************************************************************************)
EXTENDS Integers, FiniteSets

CONSTANTS
    Conn,        \* TCP connections of the player's client, old and new
    NoConn,      \* no session
    Limit,       \* LIMIT of list_pending_game_events
    Backlog,     \* older pending events of roles that do not log in
    MaxVersion,  \* settlements (bound)
    MaxFaults    \* broken connections, rejected logins and crashes (bound)

ASSUME BoundAssumption ==
    /\ NoConn \notin Conn
    /\ Limit \in Nat \ {0} /\ Backlog \in Nat
    /\ MaxVersion \in Nat /\ MaxFaults \in Nat

VARIABLES
    version,    \* game_roles.role_version
    delivered,  \* the events whose status is delivered
    session,    \* GameTcpServer.sessions of this role
    conn,       \* each connection and the handler that reads it
    shown,      \* the version of the last RoleBase frame written to each
    told,       \* the newest version written to any connection (history)
    latest,     \* the connection whose login completed last (history)
    loop,       \* where _event_loop is
    faults      \* faults so far (bound)

vars == <<version, delivered, session, conn, shown, told, latest, loop, faults>>

\* phase: "none" (closed), "open" (no role yet), "startup" and "sent" (in
\* _handle_login), "in" (reading requests).  up: the peer is there.
Link(phase, up, role, snap) ==
    [phase |-> phase, up |-> up, role |-> role, snap |-> snap]
Closed == Link("none", FALSE, "None", 0)

\* _event_loop: where it is, the events left of its batch, the version of the
\* row they were joined with, and the connection it is sending on.
Loop(pc, batch, snap, to) ==
    [pc |-> pc, batch |-> batch, snap |-> snap, to |-> to]
Poll == Loop("poll", {}, 0, NoConn)

Pending == (1..version) \ delivered

-----------------------------------------------------------------------------

\* settle_game_payment: the new version of the row and its event.
Settle ==
    /\ version < MaxVersion
    /\ version' = version + 1
    /\ UNCHANGED <<delivered, session, conn, shown, told, latest, loop, faults>>

\* A client connects.
Connect(c) ==
    /\ conn[c].phase = "none"
    /\ conn' = [conn EXCEPT ![c] = Link("open", TRUE, "None", 0)]
    /\ shown' = [shown EXCEPT ![c] = 0]
    /\ UNCHANGED <<version, delivered, session, told, latest, loop, faults>>

\* _handle_login accepts, on a new connection or again on one that has a
\* role: ensure_game_role returns the row the startup frames are made from.
Login(c) ==
    /\ conn[c].phase \in {"open", "in"}
    /\ conn' = [conn EXCEPT ![c] = Link("startup", @.up, @.role, version)]
    /\ UNCHANGED <<version, delivered, session, shown, told, latest, loop, faults>>

\* _send_startup.
SendStartup(c) ==
    /\ conn[c].phase = "startup"
    /\ conn' = [conn EXCEPT ![c] = Link("sent", @.up, @.role, @.snap)]
    /\ shown' = [shown EXCEPT ![c] = IF conn[c].up THEN conn[c].snap ELSE @]
    /\ told' = IF conn[c].snap > told THEN conn[c].snap ELSE told
    /\ UNCHANGED <<version, delivered, session, latest, loop, faults>>

\* Mutant of Covered: the login takes the version of the moment.
CoveredNow(c) == 1..version

\* mark_role_events_delivered: the events up to the version the startup
\* frames were made from.
Covered(c) == 1..conn[c].snap

\* Mutant of FinishLogin: the session of an older connection is kept.
FinishLoginIfFree(c) ==
    /\ conn[c].phase = "sent"
    /\ delivered' = delivered \cup Covered(c)
    /\ session' = IF session = NoConn THEN c ELSE session
    /\ latest' = c
    /\ conn' = [conn EXCEPT ![c] = Link("in", @.up, "id", @.snap)]
    /\ UNCHANGED <<version, shown, told, loop, faults>>

\* The end of _handle_login, after the last awaited send.
FinishLogin(c) ==
    /\ conn[c].phase = "sent"
    /\ delivered' = delivered \cup Covered(c)
    /\ session' = c
    /\ latest' = c
    /\ conn' = [conn EXCEPT ![c] = Link("in", @.up, "id", @.snap)]
    /\ UNCHANGED <<version, shown, told, loop, faults>>

\* _handle_login rejects (token, zone, fixture): the handler forgets its role
\* and closes, so a session this connection had stays in the map.
RejectLogin(c) ==
    /\ conn[c].phase \in {"open", "in"}
    /\ faults < MaxFaults
    /\ faults' = faults + 1
    /\ conn' = [conn EXCEPT ![c] = Closed]
    /\ UNCHANGED <<version, delivered, session, shown, told, latest, loop>>

\* A gameplay reply shows the client the row as it is.
Reply(c) ==
    /\ conn[c].phase = "in"
    /\ shown[c] < version
    /\ shown' = [shown EXCEPT ![c] = version]
    /\ told' = version
    /\ UNCHANGED <<version, delivered, session, conn, latest, loop, faults>>

\* The peer goes away; the server learns of it later.
Drop(c) ==
    /\ conn[c].up
    /\ faults < MaxFaults
    /\ faults' = faults + 1
    /\ conn' = [conn EXCEPT ![c] = Link(@.phase, FALSE, @.role, @.snap)]
    /\ UNCHANGED <<version, delivered, session, shown, told, latest, loop>>

\* Mutant of Popped: whoever closes removes the role's session.
PoppedAnyway(c) == conn[c].role = "id"

\* The session a closing handler removes is its own.
Popped(c) == conn[c].role = "id" /\ session = c

\* _handle_client ends: its read or its send failed.
Close(c) ==
    /\ conn[c].phase # "none" /\ ~conn[c].up
    /\ session' = IF Popped(c) THEN NoConn ELSE session
    /\ conn' = [conn EXCEPT ![c] = Closed]
    /\ UNCHANGED <<version, delivered, shown, told, latest, loop, faults>>

\* The TCP server dies and is started again: its connections, its sessions
\* and the batch are gone, the tables are not.
TcpCrash ==
    /\ faults < MaxFaults
    /\ faults' = faults + 1
    /\ conn' = [c \in Conn |-> Closed]
    /\ session' = NoConn
    /\ loop' = Poll
    /\ UNCHANGED <<version, delivered, shown, told, latest>>

-----------------------------------------------------------------------------
\* _event_loop.

\* This role's share of the first Limit pending events of all roles.
Listed ==
    {v \in Pending : Backlog + Cardinality({w \in Pending : w < v}) < Limit}

\* list_pending_game_events: the events, each joined with the row as it is now.
ListPending ==
    /\ loop.pc = "poll"
    /\ Listed # {}
    /\ loop' = Loop("each", Listed, version, NoConn)
    /\ UNCHANGED <<version, delivered, session, conn, shown, told, latest, faults>>

\* The event the loop is at: the batch is taken in the order of the ids.
At(v) == v \in loop.batch /\ \A w \in loop.batch : v <= w

\* Mutant of After: the loop never gets back to polling.
AfterWithoutPoll(v) ==
    Loop("each", loop.batch \ {v}, loop.snap, NoConn)

\* The loop once it is done with the event v.
After(v) ==
    IF loop.batch = {v} THEN Poll
    ELSE Loop("each", loop.batch \ {v}, loop.snap, NoConn)

\* The session, if its writer is not closing.  A writer closes with its
\* handler, and may close as soon as the peer is gone.
Writable == {c \in Conn : session = c /\ conn[c].phase # "none"}

\* No session, or its writer is closing: on to the next event.
Skip(v) ==
    /\ loop.pc = "each" /\ At(v)
    /\ \A c \in Writable : ~conn[c].up
    /\ loop' = After(v)
    /\ UNCHANGED <<version, delivered, session, conn, shown, told, latest, faults>>

\* A RoleBase frame, with the diamonds the batch was listed with, is written
\* to the session; what is written to a peer that is gone is lost.
Push ==
    /\ loop.pc = "each"
    /\ \E c \in Writable :
         /\ shown' = [shown EXCEPT ![c] = IF conn[c].up THEN loop.snap ELSE @]
         /\ loop' = Loop("push", loop.batch, loop.snap, c)
    /\ told' = IF loop.snap > told THEN loop.snap ELSE told
    /\ UNCHANGED <<version, delivered, session, conn, latest, faults>>

\* mark_game_event_delivered.
MarkDelivered(v) ==
    /\ loop.pc = "push" /\ At(v)
    /\ delivered' = delivered \cup {v}
    /\ loop' = After(v)
    /\ UNCHANGED <<version, session, conn, shown, told, latest, faults>>

\* drain() raises once the connection is lost: the event stays pending.
PushFails(v) ==
    /\ loop.pc = "push" /\ At(v)
    /\ ~conn[loop.to].up
    /\ loop' = After(v)
    /\ UNCHANGED <<version, delivered, session, conn, shown, told, latest, faults>>

-----------------------------------------------------------------------------

Init ==
    /\ version = 0
    /\ delivered = {}
    /\ session = NoConn
    /\ conn = [c \in Conn |-> Closed]
    /\ shown = [c \in Conn |-> 0]
    /\ told = 0
    /\ latest = NoConn
    /\ loop = Poll
    /\ faults = 0

EventLoop ==
    \/ ListPending
    \/ Push
    \/ \E v \in loop.batch : Skip(v) \/ MarkDelivered(v) \/ PushFails(v)

Handler(c) == SendStartup(c) \/ FinishLogin(c) \/ Close(c)

Next ==
    \/ Settle
    \/ EventLoop
    \/ TcpCrash
    \/ \E c \in Conn : \/ Connect(c) \/ Login(c) \/ RejectLogin(c)
                       \/ Handler(c) \/ Reply(c) \/ Drop(c)

Spec == Init /\ [][Next]_vars

\* The client has a connection it is logging in on, or the one it logged in
\* on last.
Present ==
    \E c \in Conn : /\ conn[c].up
                    /\ conn[c].phase = "in" => c = latest

\* The tasks of the server run, and a client whose newest connection is gone
\* connects again and logs in.
FairSpec ==
    /\ Spec
    /\ WF_vars(EventLoop)
    /\ \A c \in Conn : WF_vars(Handler(c))
    /\ WF_vars(~Present /\ \E c \in Conn : Connect(c))
    /\ \A c \in Conn : WF_vars(Login(c) /\ conn[c].phase = "open")

-----------------------------------------------------------------------------
(* Properties *)

ConnState == [phase: {"none", "open", "startup", "sent", "in"}, up: BOOLEAN,
              role: {"None", "id"}, snap: Nat]
LoopState == [pc: {"poll", "each", "push"}, batch: SUBSET Nat, snap: Nat,
              to: Conn \cup {NoConn}]

\* Type correctness; the loop works on events that exist.
TypeOK ==
    /\ version \in Nat
    /\ delivered \subseteq 1..version
    /\ session \in Conn \cup {NoConn}
    /\ conn \in [Conn -> ConnState]
    /\ shown \in [Conn -> 0..version]
    /\ told \in 0..version
    /\ latest \in Conn \cup {NoConn}
    /\ loop \in LoopState
    /\ \A c \in Conn : conn[c].snap <= version
    /\ loop.pc # "poll" => loop.batch # {}
    /\ loop.batch \subseteq 1..loop.snap
    /\ loop.snap <= version
    /\ loop.pc = "push" => loop.to \in Conn
    /\ faults \in 0..MaxFaults

\* At least once: an event leaves the outbox only after a frame made from a
\* row at least as new was written to a connection of the role, whatever
\* fails, restarts or logs in meanwhile.
DeliveredWasSent == \A v \in delivered : v <= told

\* The connection that logged in last is the one events are pushed to as long
\* as its handler runs: closing an older connection does not take it away.
LatestLoginHasSession ==
    latest # NoConn /\ conn[latest].role = "id" => session = latest

\* Once faults stop, every event is delivered: no race between the login and
\* the loop leaves one behind, and no stale session blocks it for ever.
EventuallyDelivered ==
    \A v \in 1..MaxVersion : v <= version ~> v \in delivered

\* What the documents promise: a payment is pushed to the client that is
\* online, or is in the startup data of the client that comes back; so the
\* session's client has been shown every delivered event.
DeliveredIsShown ==
    \A c \in Conn : session = c /\ conn[c].up =>
        \A v \in delivered : v <= shown[c]

=============================================================================
