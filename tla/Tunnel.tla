------------------------------- MODULE Tunnel -------------------------------
(***************************************************************************)
(* The tunnel to one self-hosted device.  The device client dials any      *)
(* gateway and dials again when its connection ends; a gateway keeps the   *)
(* newest session of the device and publishes itself in the directory      *)
(* (Redis); the control plane sends the command of a task to any gateway,  *)
(* which forwards it to the one the directory names and waits for the      *)
(* result on the session it found there.                                   *)
(*                                                                         *)
(* Sessions of different devices share nothing, so one device is modelled. *)
(* Gateways run in cluster mode.  A step is one statement on shared state, *)
(* one Redis or database call, or one frame.                               *)
(***************************************************************************)
EXTENDS Integers, FiniteSets

CONSTANTS
    Gateways,
    Conns,         \* connections; an identity is used again once nothing refers to it
    Tasks,         \* lifecycle tasks of one instance, executed one at a time
    ActionOf,      \* the agent action of each task
    MaxAttempts,   \* the literal 3 of finishTask
    Events,        \* what the surroundings do in a run, see EventKinds
    MaxFaults,     \* bound: breaks, restarts, crashes and timeouts of a behaviour
    None

\* Links break, the device client or a gateway restarts, the owner revokes the
\* device, a command takes 30 minutes, a handler of the control plane crashes.
EventKinds == {"break", "client", "gateway", "revoke", "timeout", "crash"}

\* The actions selfHostedCommandAction produces for tasks.
AgentActions ==
    {"create", "pull-image", "start", "stop", "restart", "resize", "reinstall",
     "destroy", "purge"}

ASSUME TunnelAssumption ==
    /\ ActionOf \in [Tasks -> AgentActions]
    /\ MaxAttempts \in Nat \ {0} /\ MaxFaults \in Nat
    /\ Events \subseteq EventKinds
    /\ None \notin Conns \cup Gateways \cup {"ok", "failed", "cancelled", "error", "crashed"}

VARIABLES
    device,     \* status column of xcloud_control_devices
    client,     \* the connection serveV2 of the device client is on
    conn,       \* connections with the goroutines of the gateway that serve them
    sessions,   \* sessions.values of each gateway, for the device
    directory,  \* the connection (epoch) in the record xcloud:tunnel:<device>
    down, up,   \* frames to the device and to the gateway, per connection
    call,       \* Agent requests of the control plane and their handlers
    run,        \* goroutines of the device client that carry out a command
    faults,     \* faults so far
    task        \* status and attempts of xcloud_tasks rows

conns == <<client, conn, sessions, directory>>
vars == <<device, conns, down, up, call, run, task, faults>>
-----------------------------------------------------------------------------
(* Types.                                                                  *)

\* The n-th execution of a task makes one call, with an operation id of its own.
Calls == Tasks \X (1..MaxAttempts)

Results == {"ok", "failed", "cancelled"}

CommandFrame(c) == [kind |-> "command", call |-> c]
CancelFrame(c) == [kind |-> "cancel", call |-> c]
ResultFrame(c, r) == [call |-> c, result |-> r]

ConnState ==
    [pc : {"hello", "checked", "registered", "live", "clearing", "dropping", "gone"},
     gw : Gateways \cup {None}, link : BOOLEAN, saw : BOOLEAN,
     refresh : {"off", "idle", "checked"}]

CallState ==
    [pc : {"idle", "arrived", "enabled", "routed", "waiting", "ended"},
     gw : Gateways \cup {None}, conn : Conns \cup {None}, box : Results \cup {None},
     result : Results \cup {"error", "crashed", None}]

RunState ==
    [pc : {"none", "running", "ended"}, conn : Conns \cup {None},
     cancelled : BOOLEAN, applied : BOOLEAN]

TypeOK ==
    /\ device \in {"enabled", "revoked"}
    /\ client \in Conns \cup {None}
    /\ conn \in [Conns -> ConnState]
    /\ sessions \in [Gateways -> Conns \cup {None}]
    /\ directory \in [gw : Gateways, conn : Conns] \cup {None}
    /\ down \in [Conns -> SUBSET [kind : {"command", "cancel"}, call : Calls]]
    /\ up \in [Conns -> SUBSET [call : Calls, result : Results]]
    /\ call \in [Calls -> CallState]
    /\ run \in [Calls -> RunState]
    /\ task \in [Tasks -> [status : {"pending", "running", "succeeded", "failed", "needs_review"},
                           attempts : 0..MaxAttempts]]
    /\ faults \in 0..MaxFaults

Gone == [pc |-> "gone", gw |-> None, link |-> FALSE, saw |-> FALSE, refresh |-> "off"]
IdleCall == [pc |-> "idle", gw |-> None, conn |-> None, box |-> None, result |-> None]
IdleRun == [pc |-> "none", conn |-> None, cancelled |-> FALSE, applied |-> FALSE]

Init ==
    /\ device = "enabled"
    /\ client = None
    /\ conn = [k \in Conns |-> Gone]
    /\ call = [c \in Calls |-> IdleCall]
    /\ sessions = [g \in Gateways |-> None]
    /\ directory = None
    /\ down = [k \in Conns |-> {}]
    /\ up = [k \in Conns |-> {}]
    /\ run = [c \in Calls |-> IdleRun]
    /\ task = [t \in Tasks |-> [status |-> "pending", attempts |-> 0]]
    /\ faults = 0

Fault(e) == e \in Events /\ faults < MaxFaults /\ faults' = faults + 1
-----------------------------------------------------------------------------
(* Connecting.                                                             *)

\* Nothing refers to k any more: a new connection may be called k.
Reusable(k) ==
    /\ conn[k].pc = "gone" /\ conn[k].refresh = "off"
    /\ directory # None => directory.conn # k
    /\ \A c \in Calls : call[c].conn # k /\ run[c].conn # k

\* run and serveV2: dial a gateway and send hello.
Dial(k) ==
    /\ client = None /\ Reusable(k)
    /\ client' = k
    /\ \E g \in Gateways :
        conn' = [conn EXCEPT ![k] = [pc |-> "hello", gw |-> g, link |-> TRUE,
                                     saw |-> FALSE, refresh |-> "off"]]
    /\ down' = [down EXCEPT ![k] = {}]
    /\ up' = [up EXCEPT ![k] = {}]
    /\ UNCHANGED <<device, sessions, directory, call, run, task, faults>>

\* connect up to the challenge: SELECT ... status, and refuse what is revoked.
CheckDevice(k) ==
    /\ conn[k].pc = "hello"
    /\ conn' = [conn EXCEPT ![k] =
                    IF device = "enabled" /\ @.link THEN [@ EXCEPT !.pc = "checked"]
                    ELSE Gone]
    /\ UNCHANGED <<device, client, sessions, directory, down, up, call, run, task, faults>>

\* The newest session replaces an older one, whose connection is closed.
Replace(k) ==
    conn' = [j \in Conns |->
                IF j = k THEN [conn[k] EXCEPT !.pc = "registered"]
                ELSE IF j = sessions[conn[k].gw] THEN [conn[j] EXCEPT !.link = FALSE]
                ELSE conn[j]]

\* The device has signed the challenge: putSession.
putSession(k) ==
    /\ conn[k].pc = "checked" /\ conn[k].link
    /\ sessions' = [sessions EXCEPT ![conn[k].gw] = k]
    /\ Replace(k)
    /\ UNCHANGED <<device, client, directory, down, up, call, run, task, faults>>

\* The signature does not arrive.
HandshakeFails(k) ==
    /\ conn[k].pc = "checked" /\ ~ conn[k].link
    /\ conn' = [conn EXCEPT ![k] = Gone]
    /\ UNCHANGED <<device, client, sessions, directory, down, up, call, run, task, faults>>

\* The record a session publishes: its gateway, with the session's epoch.
Record(k) == [gw |-> conn[k].gw, conn |-> k]

\* setDirectory, and the refresher is started.
setDirectory(k) ==
    /\ conn[k].pc = "registered"
    /\ directory' = Record(k)
    /\ conn' = [conn EXCEPT ![k] = [@ EXCEPT !.pc = "live", !.refresh = "idle"]]
    /\ UNCHANGED <<device, client, sessions, down, up, call, run, task, faults>>

\* A mistake: the refresher never looks at the device again.
StillWanted(k) == TRUE

\* deviceEnabled, as the refresher asks it.
DeviceWanted(k) == device = "enabled"

Unrefreshed(k) ==
    IF conn[k].pc = "gone" THEN Gone ELSE [conn[k] EXCEPT !.refresh = "off"]

\* refreshSession, every 15 seconds: stop when replaced, hang up when revoked ...
RefreshCheck(k) ==
    /\ conn[k].refresh = "idle"
    /\ conn' = [conn EXCEPT ![k] =
                    IF sessions[@.gw] # k THEN Unrefreshed(k)
                    ELSE IF ~ DeviceWanted(k) THEN [@ EXCEPT !.refresh = "off", !.link = FALSE]
                    ELSE [@ EXCEPT !.refresh = "checked"]]
    /\ UNCHANGED <<device, client, sessions, directory, down, up, call, run, task, faults>>

\* A mistake: the refresher does not write the record.
RecordKept(k) == directory

\* The value setDirectory of a refresher leaves in the directory.
RecordOf(k) == Record(k)

\* ... and write the record again, whoever wrote it last.
RefreshSet(k) ==
    /\ conn[k].refresh = "checked"
    /\ directory' = RecordOf(k)
    /\ conn' = [conn EXCEPT ![k].refresh = "idle"]
    /\ UNCHANGED <<device, client, sessions, down, up, call, run, task, faults>>

\* The record's 45 seconds pass: nobody has refreshed it.
RecordExpires ==
    /\ directory # None /\ conn[directory.conn].refresh = "off"
    /\ directory' = None
    /\ UNCHANGED <<device, client, conn, sessions, down, up, call, run, task, faults>>
-----------------------------------------------------------------------------
(* Ending a connection.                                                    *)

\* The read loop of connect fails; clearDirectory reads the record ...
ReadFails(k) ==
    /\ conn[k].pc = "live" /\ ~ conn[k].link
    /\ conn' = [conn EXCEPT ![k] = [@ EXCEPT !.pc = "clearing", !.saw = (directory = Record(k))]]
    /\ UNCHANGED <<device, client, sessions, directory, down, up, call, run, task, faults>>

\* ... and deletes it if it was its own when it was read.
clearDirectory(k) ==
    /\ conn[k].pc = "clearing"
    /\ directory' = IF conn[k].saw THEN None ELSE directory
    /\ conn' = [conn EXCEPT ![k].pc = "dropping"]
    /\ UNCHANGED <<device, client, sessions, down, up, call, run, task, faults>>

\* A mistake: the session dropped whoever it is, as in controlRemoveSession.
DropAny(k) == [sessions EXCEPT ![conn[k].gw] = None]

\* The registrations left: only k's own is deleted.
DropOwn(k) == [sessions EXCEPT ![conn[k].gw] = IF @ = k THEN None ELSE @]

\* A mistake: the waiters of the session are not woken.
NotDone(k) == conn[k]

\* The connection once s.done is closed; its refresher may still run.
Done(k) ==
    IF conn[k].refresh = "off" THEN Gone ELSE [conn[k] EXCEPT !.pc = "gone", !.saw = FALSE]

dropSession(k) ==
    /\ conn[k].pc = "dropping"
    /\ sessions' = DropOwn(k)
    /\ conn' = [conn EXCEPT ![k] = Done(k)]
    /\ up' = [up EXCEPT ![k] = {}]
    /\ UNCHANGED <<device, client, directory, down, call, run, task, faults>>

\* The read loop of serveV2 fails (at the latest after 50 silent seconds).
\* Commands go on: their context is not the connection's.
ClientNotices ==
    /\ client # None /\ ~ conn[client].link
    /\ client' = None
    /\ down' = [down EXCEPT ![client] = {}]
    /\ UNCHANGED <<device, conn, sessions, directory, up, call, run, task, faults>>

\* The call as its gateway's handler leaves it; a crashed caller hears nothing.
EndedWith(c, r) ==
    [IdleCall EXCEPT !.pc = "ended",
                     !.result = IF call[c].result = None THEN r ELSE call[c].result]

\* The network loses the connection; either side finds out later.
LinkBreaks(k) ==
    /\ Fault("break") /\ conn[k].link
    /\ conn' = [conn EXCEPT ![k].link = FALSE]
    /\ UNCHANGED <<device, client, sessions, directory, down, up, call, run, task>>

\* The device client is restarted: its commands end with it, unanswered.
ClientRestarts ==
    /\ Fault("client") /\ client # None
    /\ client' = None
    /\ conn' = [conn EXCEPT ![client].link = FALSE]
    /\ down' = [down EXCEPT ![client] = {}]
    /\ run' = [c \in Calls |-> IF run[c].pc = "running" THEN [run[c] EXCEPT !.pc = "ended", !.conn = None]
                               ELSE run[c]]
    /\ UNCHANGED <<device, sessions, directory, up, call, task>>

\* A gateway is restarted: its sessions and waiting calls are lost, its record
\* in the directory stays.
GatewayRestarts(g) ==
    /\ Fault("gateway")
    /\ \E k \in Conns : conn[k].gw = g /\ conn[k].pc # "gone"
    /\ sessions' = [sessions EXCEPT ![g] = None]
    /\ conn' = [k \in Conns |-> IF conn[k].gw = g THEN Gone ELSE conn[k]]
    /\ up' = [k \in Conns |-> IF conn[k].gw = g THEN {} ELSE up[k]]
    /\ call' = [c \in Calls |->
                    IF call[c].gw = g THEN EndedWith(c, "error") ELSE call[c]]
    /\ UNCHANGED <<device, client, directory, down, run, task>>

\* revokeSelfHostedDevice, its part the gateways see.
Revoke ==
    /\ "revoke" \in Events /\ device = "enabled"
    /\ device' = "revoked"
    /\ UNCHANGED <<conns, down, up, call, run, task, faults>>
-----------------------------------------------------------------------------
(* A call: commandRequest of a gateway.                                    *)

CallOf(t) == <<t, task[t].attempts>>

\* executeTask of the only task that runs: selfHostedNodeRequest posts the
\* command to one of the gateways.
Request(t) ==
    /\ task[t].status = "pending" /\ task[t].attempts < MaxAttempts
    /\ \A u \in Tasks : task[u].status # "running"
    /\ task' = [task EXCEPT ![t] = [status |-> "running", attempts |-> @.attempts + 1]]
    /\ \E g \in Gateways :
        call' = [call EXCEPT ![<<t, task[t].attempts + 1>>] = [@ EXCEPT !.pc = "arrived", !.gw = g]]
    /\ UNCHANGED <<device, conns, down, up, run, faults>>

EndCall(c, r) == call' = [call EXCEPT ![c] = EndedWith(c, r)]

\* deviceEnabled: a revoked device is refused with 410.
CheckEnabled(c) ==
    /\ call[c].pc = "arrived"
    /\ IF device = "enabled" THEN call' = [call EXCEPT ![c].pc = "enabled"]
       ELSE EndCall(c, "error")
    /\ UNCHANGED <<device, conns, down, up, run, task, faults>>

\* The record names another gateway than the one that handles c.
OwnerElsewhere(c) == directory # None /\ directory.gw # call[c].gw

\* Forward to the owner, where the call starts again.
Forward(c) ==
    /\ call[c].pc = "enabled" /\ OwnerElsewhere(c)
    /\ call' = [call EXCEPT ![c] = [@ EXCEPT !.pc = "arrived", !.gw = directory.gw]]
    /\ UNCHANGED <<device, conns, down, up, run, task, faults>>

\* Otherwise take the local session; without one the device is offline.
RouteLocal(c) ==
    /\ call[c].pc = "enabled" /\ ~ OwnerElsewhere(c)
    /\ IF sessions[call[c].gw] = None THEN EndCall(c, "error")
       ELSE call' = [call EXCEPT ![c] = [@ EXCEPT !.pc = "routed", !.conn = sessions[call[c].gw]]]
    /\ UNCHANGED <<device, conns, down, up, run, task, faults>>

\* Register the call with the session and send the command.  On a broken link
\* the write fails, or seems to succeed.
SendCommand(c) ==
    LET k == call[c].conn IN
    /\ call[c].pc = "routed"
    /\ \/ conn[k].link /\ down' = [down EXCEPT ![k] = @ \cup {CommandFrame(c)}]
       \/ ~ conn[k].link /\ down' = down
    /\ \/ call' = [call EXCEPT ![c].pc = "waiting"]
       \/ ~ conn[k].link /\ EndCall(c, "error")
    /\ UNCHANGED <<device, conns, up, run, task, faults>>

\* A mistake: a result given to every call that waits on the session.
WaitsOnSession(c, k, f) == call[c].pc = "waiting" /\ call[c].conn = k

\* The call whose id the frame carries, if it still waits.
WaitsFor(c, k, f) == f.call = c /\ call[c].pc = "waiting" /\ call[c].conn = k

\* connect reads a result and hands it over; without a waiting call it is lost.
DispatchResult(k, f) ==
    /\ conn[k].pc = "live" /\ f \in up[k]
    /\ up' = [up EXCEPT ![k] = @ \ {f}]
    /\ call' = [c \in Calls |->
                    IF WaitsFor(c, k, f) /\ call[c].box = None
                    THEN [call[c] EXCEPT !.box = f.result] ELSE call[c]]
    /\ UNCHANGED <<device, conns, down, run, task, faults>>

\* The select takes the result.
TakeResult(c) ==
    /\ call[c].pc = "waiting" /\ call[c].box # None
    /\ EndCall(c, call[c].box)
    /\ UNCHANGED <<device, conns, down, up, run, task, faults>>

\* A mistake: a call that was left behind cancels nothing.
LeaveBehind(c) == down

\* The deferred cancel of a call that has no result.
SendCancel(c) ==
    LET k == call[c].conn IN
    IF conn[k].link THEN [down EXCEPT ![k] = @ \cup {CancelFrame(c)}] ELSE down

\* The select takes s.done, the timeout or the end of the request, even when a
\* result is there too; the deferred function removes the call and cancels.
Leave(c) ==
    /\ call[c].pc = "waiting"
    /\ \/ (conn[call[c].conn].pc = "gone" \/ call[c].result = "crashed") /\ faults' = faults
       \/ Fault("timeout")
    /\ EndCall(c, "error")
    /\ down' = SendCancel(c)
    /\ UNCHANGED <<device, conns, up, run, task>>

\* A handler of the control plane dies: the gateway sees the end of the request.
CallerCrashes(c) ==
    /\ Fault("crash") /\ call[c].pc \notin {"idle", "ended"} /\ call[c].result = None
    /\ call' = [call EXCEPT ![c].result = "crashed"]
    /\ UNCHANGED <<device, conns, down, up, run, task>>

\* The request's context ends before the command is sent.
LeaveUnsent(c) ==
    /\ call[c].pc \in {"arrived", "enabled"} /\ call[c].result = "crashed"
    /\ EndCall(c, "crashed")
    /\ UNCHANGED <<device, conns, down, up, run, task, faults>>
-----------------------------------------------------------------------------
(* The device: handleV2Command and runManagedCompose.                      *)

\* selfHostedNodeRequest replaces the name of the payload by the first element
\* of the path, which is the verb for /container/create and /container/pull.
NameSent(c) == ActionOf[c[1]] \notin {"create", "pull-image"}

\* The read loop starts a goroutine for a command.
StartCommand(c) ==
    /\ client # None /\ CommandFrame(c) \in down[client]
    /\ down' = [down EXCEPT ![client] = @ \ {CommandFrame(c)}]
    /\ run' = [run EXCEPT ![c] = [@ EXCEPT !.pc = "running", !.conn = client]]
    /\ UNCHANGED <<device, conns, up, call, task, faults>>

\* It cancels the context of a command that still runs; frames are in order.
CancelCommand(c) ==
    /\ client # None /\ CancelFrame(c) \in down[client]
    /\ CommandFrame(c) \notin down[client]
    /\ down' = [down EXCEPT ![client] = @ \ {CancelFrame(c)}]
    /\ run' = [run EXCEPT ![c].cancelled = @ \/ (run[c].pc = "running" /\ run[c].conn = client)]
    /\ UNCHANGED <<device, conns, up, call, task, faults>>

\* docker compose does what it was asked to.
Apply(c) ==
    /\ run[c].pc = "running" /\ ~ run[c].applied /\ NameSent(c)
    /\ run' = [run EXCEPT ![c].applied = TRUE]
    /\ UNCHANGED <<device, conns, down, up, call, task, faults>>

\* A mistake: the word of the operation journal used as the result.
OutcomesOfJournal(c) ==
    {"failed"} \cup (IF run[c].applied THEN {"ok"} ELSE {})
        \cup (IF run[c].cancelled THEN {"unknown"} ELSE {})

\* How runManagedCompose may end: composeCommand reports command_cancelled
\* when it fails after the context was cancelled; everything else that fails
\* says so.
Outcomes(c) ==
    {"failed"} \cup (IF run[c].applied THEN {"ok"} ELSE {})
        \cup (IF run[c].cancelled /\ ActionOf[c[1]] # "pull-image" THEN {"cancelled"} ELSE {})

\* handleV2Command answers on the connection the command came from.
Finish(c) ==
    LET k == run[c].conn IN
    /\ run[c].pc = "running"
    /\ run' = [run EXCEPT ![c] = [@ EXCEPT !.pc = "ended", !.conn = None]]
    /\ \E r \in Outcomes(c) :
        up' = IF conn[k].link THEN [up EXCEPT ![k] = @ \cup {ResultFrame(c, r)}] ELSE up
    /\ UNCHANGED <<device, conns, down, call, task, faults>>
-----------------------------------------------------------------------------
(* The control plane: finishTask and recoverExpiredTaskLeases.             *)

\* stop and its like are not repeated after a crash; create and start are.
Repeatable(t) == ActionOf[t] \in {"create", "start"}

\* What becomes of a task when its execution returned r, or its lease expired.
After(t, r) ==
    CASE r = "ok"                         -> "succeeded"
      [] r = "cancelled"                  -> "needs_review"
      [] r \in {"failed", "error"}        -> IF task[t].attempts < MaxAttempts THEN "pending"
                                             ELSE "failed"
      [] r = "crashed"                    -> IF Repeatable(t) THEN "pending" ELSE "needs_review"

finishTask(t) ==
    /\ task[t].status = "running"
    /\ call[CallOf(t)].result # None
    /\ call[CallOf(t)].result # "crashed" => call[CallOf(t)].pc = "ended"
    /\ task' = [task EXCEPT ![t].status = After(t, call[CallOf(t)].result)]
    /\ UNCHANGED <<device, conns, down, up, call, run, faults>>
-----------------------------------------------------------------------------
Handshake(k) == CheckDevice(k) \/ putSession(k) \/ HandshakeFails(k) \/ setDirectory(k)
Refresh(k) == RefreshCheck(k) \/ RefreshSet(k)
Exit(k) == ReadFails(k) \/ clearDirectory(k) \/ dropSession(k)
GatewayStep(c) ==
    \/ CheckEnabled(c) \/ Forward(c) \/ RouteLocal(c) \/ SendCommand(c)
    \/ TakeResult(c) \/ LeaveUnsent(c)
    \/ Leave(c)
DeviceStep(c) == StartCommand(c) \/ CancelCommand(c) \/ Apply(c) \/ Finish(c)

Next ==
    \/ \E k \in Conns : Dial(k) \/ Handshake(k) \/ Refresh(k) \/ Exit(k) \/ LinkBreaks(k)
    \/ \E k \in Conns : \E f \in up[k] : DispatchResult(k, f)
    \/ RecordExpires \/ ClientNotices \/ ClientRestarts \/ Revoke
    \/ \E g \in Gateways : GatewayRestarts(g)
    \/ \E c \in Calls : GatewayStep(c) \/ DeviceStep(c) \/ CallerCrashes(c)
    \/ \E t \in Tasks : Request(t) \/ finishTask(t)

Spec == Init /\ [][Next]_vars

\* The session or the caller of a waiting call is gone.
Abandoned(c) ==
    /\ call[c].pc = "waiting"
    /\ conn[call[c].conn].pc = "gone" \/ call[c].result = "crashed"

(* Fairness: goroutines run, keepalive and deadlines find broken links, the *)
(* refresher ticks, records expire, the client dials again.  Nothing is     *)
(* assumed of the 30 minutes of a command, nor of faults.                   *)
FairSpec ==
    /\ Spec
    /\ \A k \in Conns :
        /\ WF_vars(Handshake(k)) /\ WF_vars(Exit(k))
        /\ WF_vars(RefreshCheck(k)) /\ WF_vars(RefreshSet(k))
        /\ WF_vars(\E f \in up[k] : DispatchResult(k, f))
    /\ WF_vars(RecordExpires) /\ WF_vars(ClientNotices) /\ WF_vars(\E k \in Conns : Dial(k))
    /\ \A c \in Calls :
        /\ WF_vars(CheckEnabled(c) \/ Forward(c) \/ RouteLocal(c) \/ SendCommand(c)
                       \/ TakeResult(c) \/ LeaveUnsent(c))
        /\ WF_vars(Abandoned(c) /\ Leave(c))
        /\ WF_vars(StartCommand(c) \/ Finish(c))
    /\ \A t \in Tasks : WF_vars(finishTask(t))
-----------------------------------------------------------------------------
(* Properties.                                                             *)

\* What the control plane is told of a command is true of that command and of
\* no other: success only after the device carried it out, "cancelled" only of a
\* command whose context was cancelled (commands[id] of commandRequest, connect
\* and handleV2Command, through timeouts, replaced sessions and late results).
AnswersTrue ==
    \A c \in Calls :
        /\ call[c].result = "ok" => run[c].pc = "ended" /\ run[c].applied
        /\ call[c].result = "cancelled" => run[c].pc = "ended" /\ run[c].cancelled

\* A command nobody waits for any more is cancelled, or its cancellation is on
\* the way, as long as its connection holds (the deferred cancel of
\* commandRequest, frames in order).
NoOrphans ==
    \A c \in Calls : \A k \in Conns :
        /\ call[c].pc = "ended" /\ conn[k].link
        /\ \/ run[c].pc = "running" /\ run[c].conn = k /\ ~ run[c].cancelled
           \/ CommandFrame(c) \in down[k]
        => CancelFrame(c) \in down[k]

\* A session whose link holds stays registered: the exit of an older connection
\* of the device never removes it (the comparison in dropSession).
RegistrationKept ==
    [][\A g \in Gateways :
        sessions[g] # None /\ sessions'[g] = None => ~ conn'[sessions[g]].link]_vars

Connected == client # None /\ conn[client].pc = "live" /\ conn[client].link

\* When the device stays connected, the directory ends up naming its gateway for
\* good, whatever older sessions wrote or deleted (refreshSession,
\* clearDirectory and the record's lifetime).
Reachable == <>[]Connected => <>[](directory # None /\ directory.conn = client)

\* Every call gets an answer, without its timeout, whatever connections, gateways
\* or the revocation do meanwhile (s.done in the select of commandRequest).
CallsEnd == \A c \in Calls : call[c].pc = "arrived" ~> call[c].pc = "ended"

\* After a revocation the device soon has no session at any gateway, for good,
\* even if the revocation fell into a handshake (refreshSession, connect).
RevokedEnds == device = "revoked" ~> [](\A g \in Gateways : sessions[g] = None)
=============================================================================
