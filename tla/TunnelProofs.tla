---------------------------- MODULE TunnelProofs ----------------------------
(***************************************************************************)
(* Proofs about Tunnel, for any gateways, connections, tasks and faults.   *)
(***************************************************************************)
EXTENDS Tunnel, TLAPS

Frames == [kind : {"command", "cancel"}, call : Calls]
Answers == [call : Calls, result : Results]

\* Who serves somebody has a place: what TypeOK needs to be inductive.
ConnPlaced(e) == e \in ConnState /\ (e.pc # "gone" \/ e.refresh # "off" => e.gw \in Gateways)
CallPlaced(e) == e \in CallState /\ (e.pc \in {"arrived", "enabled"} => e.gw \in Gateways)

ConnInv == DOMAIN conn = Conns /\ conn = [k \in Conns |-> conn[k]] /\ \A k \in Conns : ConnPlaced(conn[k])
CallInv == DOMAIN call = Calls /\ call = [c \in Calls |-> call[c]] /\ \A c \in Calls : CallPlaced(call[c])

\* The rest of the types, variable by variable.
SessionsInv == sessions \in [Gateways -> Conns \cup {None}]
DirectoryInv == directory \in [gw : Gateways, conn : Conns] \cup {None}
DownInv == down \in [Conns -> SUBSET Frames]
UpInv == up \in [Conns -> SUBSET Answers]
RunInv == run \in [Calls -> RunState]
Statuses == {"pending", "running", "succeeded", "failed", "needs_review"}
TaskInv ==
    /\ task \in [Tasks -> [status : Statuses, attempts : 0..MaxAttempts]]
    /\ \A t \in Tasks : task[t].status = "running" => task[t].attempts # 0
FaultsInv == faults \in 0..MaxFaults
DeviceInv == device \in {"enabled", "revoked"}
ClientInv == client \in Conns \cup {None}

TypeInv ==
    /\ ConnInv /\ CallInv /\ SessionsInv /\ DirectoryInv /\ DownInv /\ UpInv /\ RunInv
    /\ TaskInv /\ FaultsInv /\ DeviceInv /\ ClientInv

LEMMA TypeInvTypes == TypeInv => TypeOK
  BY DEF TypeInv, TypeOK, ConnInv, ConnPlaced, CallInv, CallPlaced, SessionsInv, DirectoryInv,
     DownInv, UpInv, RunInv, TaskInv, FaultsInv, DeviceInv, ClientInv, Frames, Answers, Statuses

LEMMA InitType == Init => TypeInv
<1> SUFFICES ASSUME Init PROVE TypeInv
  OBVIOUS
<1>1. ConnInv
  BY DEF Init, ConnInv, ConnPlaced, ConnState, Gone
<1>2. CallInv
  BY DEF Init, CallInv, CallPlaced, CallState, IdleCall
<1> QED
  BY <1>1, <1>2, TunnelAssumption DEF Init, TypeInv, SessionsInv, DirectoryInv, DownInv, UpInv,
     RunInv, RunState, IdleRun, TaskInv, Statuses, FaultsInv, DeviceInv, ClientInv

LEMMA FaultType ==
  ASSUME FaultsInv, NEW e, Fault(e) PROVE FaultsInv'
  BY TunnelAssumption DEF FaultsInv, Fault

\* One connection changes.
LEMMA ConnSet ==
  ASSUME ConnInv, NEW k \in Conns, NEW e, ConnPlaced(e), conn' = [conn EXCEPT ![k] = e]
  PROVE  ConnInv'
  BY DEF ConnInv, ConnPlaced, ConnState

\* One call changes.
LEMMA CallSet ==
  ASSUME CallInv, NEW c \in Calls, NEW e, CallPlaced(e), call' = [call EXCEPT ![c] = e]
  PROVE  CallInv'
  BY DEF CallInv, CallPlaced, CallState

LEMMA GonePlaced == ConnPlaced(Gone)
  BY DEF ConnPlaced, Gone, ConnState

LEMMA HandshakeType ==
  ASSUME TypeInv, NEW k \in Conns, Dial(k) \/ Handshake(k) PROVE TypeInv'
<1>0. ConnInv /\ ConnPlaced(conn[k])
  BY DEF TypeInv, ConnInv
<1>1. CASE Dial(k)
  <2>1. PICK g \in Gateways : conn' = [conn EXCEPT ![k] =
            [pc |-> "hello", gw |-> g, link |-> TRUE, saw |-> FALSE, refresh |-> "off"]]
    BY <1>1 DEF Dial
  <2>2. ConnInv'
    BY <1>0, <2>1, ConnSet DEF ConnPlaced, ConnState
  <2> QED
    BY <1>1, <2>2 DEF Dial, TypeInv, CallInv, SessionsInv, DirectoryInv, DownInv, UpInv,
       RunInv, TaskInv, FaultsInv, DeviceInv, ClientInv
<1>2. CASE CheckDevice(k)
  <2>1. ConnPlaced([conn[k] EXCEPT !.pc = "checked"])
    BY <1>0, <1>2 DEF CheckDevice, ConnPlaced, ConnState
  <2>2. ConnInv'
    BY <1>0, <1>2, <2>1, ConnSet, GonePlaced DEF CheckDevice
  <2> QED
    BY <1>2, <2>2 DEF CheckDevice, TypeInv, CallInv, SessionsInv, DirectoryInv, DownInv, UpInv,
       RunInv, TaskInv, FaultsInv, DeviceInv, ClientInv
<1>3. CASE putSession(k)
  <2>1. ConnPlaced([conn[k] EXCEPT !.pc = "registered"]) /\ conn[k].gw \in Gateways
    BY <1>0, <1>3 DEF putSession, ConnPlaced, ConnState
  <2>2. \A j \in Conns : ConnPlaced([conn[j] EXCEPT !.link = FALSE])
    BY <1>0 DEF ConnInv, ConnPlaced, ConnState
  <2>3. \A j \in Conns : ConnPlaced(conn'[j])
    BY <1>0, <1>3, <2>1, <2>2 DEF putSession, Replace, ConnInv
  <2>4. ConnInv'
    BY <1>3, <2>3 DEF putSession, Replace, ConnInv
  <2> QED
    BY <1>3, <2>1, <2>4 DEF putSession, TypeInv, CallInv, SessionsInv, DirectoryInv, DownInv, UpInv,
       RunInv, TaskInv, FaultsInv, DeviceInv, ClientInv
<1>4. CASE HandshakeFails(k)
  <2>1. ConnInv'
    BY <1>0, <1>4, ConnSet, GonePlaced DEF HandshakeFails
  <2> QED
    BY <1>4, <2>1 DEF HandshakeFails, TypeInv, CallInv, SessionsInv, DirectoryInv, DownInv, UpInv,
       RunInv, TaskInv, FaultsInv, DeviceInv, ClientInv
<1>5. CASE setDirectory(k)
  <2>1. ConnPlaced([conn[k] EXCEPT !.pc = "live", !.refresh = "idle"]) /\ conn[k].gw \in Gateways
    BY <1>0, <1>5 DEF setDirectory, ConnPlaced, ConnState
  <2>2. ConnInv'
    BY <1>0, <1>5, <2>1, ConnSet DEF setDirectory
  <2> QED
    BY <1>5, <2>1, <2>2 DEF setDirectory, Record, TypeInv, CallInv, SessionsInv, DirectoryInv, DownInv,
       UpInv, RunInv, TaskInv, FaultsInv, DeviceInv, ClientInv
<1> QED BY <1>1, <1>2, <1>3, <1>4, <1>5 DEF Handshake

LEMMA RefreshType ==
  ASSUME TypeInv, NEW k \in Conns, Refresh(k) \/ RecordExpires PROVE TypeInv'
<1>0. ConnInv /\ ConnPlaced(conn[k])
  BY DEF TypeInv, ConnInv
<1>1. CASE RefreshCheck(k)
  <2>1. /\ ConnPlaced(Unrefreshed(k))
        /\ ConnPlaced([conn[k] EXCEPT !.refresh = "off", !.link = FALSE])
        /\ ConnPlaced([conn[k] EXCEPT !.refresh = "checked"])
    BY <1>0, <1>1, GonePlaced DEF RefreshCheck, Unrefreshed, ConnPlaced, ConnState
  <2>2. ConnInv'
    BY <1>0, <1>1, <2>1, ConnSet DEF RefreshCheck
  <2> QED
    BY <1>1, <2>2 DEF RefreshCheck, TypeInv, CallInv, SessionsInv, DirectoryInv, DownInv, UpInv,
       RunInv, TaskInv, FaultsInv, DeviceInv, ClientInv
<1>2. CASE RefreshSet(k)
  <2>1. ConnPlaced([conn[k] EXCEPT !.refresh = "idle"]) /\ conn[k].gw \in Gateways
    BY <1>0, <1>2 DEF RefreshSet, ConnPlaced, ConnState
  <2>2. ConnInv'
    BY <1>0, <1>2, <2>1, ConnSet DEF RefreshSet
  <2> QED
    BY <1>2, <2>1, <2>2 DEF RefreshSet, RecordOf, Record, TypeInv, CallInv, SessionsInv, DirectoryInv,
       DownInv, UpInv, RunInv, TaskInv, FaultsInv, DeviceInv, ClientInv
<1>3. CASE RecordExpires
  BY <1>3 DEF RecordExpires, TypeInv, ConnInv, CallInv, SessionsInv, DirectoryInv, DownInv, UpInv,
     RunInv, TaskInv, FaultsInv, DeviceInv, ClientInv
<1> QED BY <1>1, <1>2, <1>3 DEF Refresh

LEMMA ExitType ==
  ASSUME TypeInv, NEW k \in Conns, Exit(k) \/ LinkBreaks(k) PROVE TypeInv'
<1>0. ConnInv /\ ConnPlaced(conn[k])
  BY DEF TypeInv, ConnInv
<1>1. CASE ReadFails(k)
  <2>1. ConnPlaced([conn[k] EXCEPT !.pc = "clearing", !.saw = (directory = Record(k))])
    BY <1>0, <1>1 DEF ReadFails, ConnPlaced, ConnState
  <2>2. ConnInv'
    BY <1>0, <1>1, <2>1, ConnSet DEF ReadFails
  <2> QED
    BY <1>1, <2>2 DEF ReadFails, TypeInv, CallInv, SessionsInv, DirectoryInv, DownInv, UpInv,
       RunInv, TaskInv, FaultsInv, DeviceInv, ClientInv
<1>2. CASE clearDirectory(k)
  <2>1. ConnPlaced([conn[k] EXCEPT !.pc = "dropping"])
    BY <1>0, <1>2 DEF clearDirectory, ConnPlaced, ConnState
  <2>2. ConnInv'
    BY <1>0, <1>2, <2>1, ConnSet DEF clearDirectory
  <2> QED
    BY <1>2, <2>2 DEF clearDirectory, TypeInv, CallInv, SessionsInv, DirectoryInv, DownInv, UpInv,
       RunInv, TaskInv, FaultsInv, DeviceInv, ClientInv
<1>3. CASE dropSession(k)
  <2>1. ConnPlaced(Done(k)) /\ conn[k].gw \in Gateways
    BY <1>0, <1>3, GonePlaced DEF dropSession, Done, ConnPlaced, ConnState
  <2>2. ConnInv'
    BY <1>0, <1>3, <2>1, ConnSet DEF dropSession
  <2> QED
    BY <1>3, <2>1, <2>2 DEF dropSession, DropOwn, TypeInv, CallInv, SessionsInv, DirectoryInv, DownInv,
       UpInv, RunInv, TaskInv, FaultsInv, DeviceInv, ClientInv
<1>4. CASE LinkBreaks(k)
  <2>1. ConnPlaced([conn[k] EXCEPT !.link = FALSE])
    BY <1>0 DEF ConnPlaced, ConnState
  <2>2. ConnInv'
    BY <1>0, <1>4, <2>1, ConnSet DEF LinkBreaks
  <2> QED
    BY <1>4, <2>2, TunnelAssumption DEF LinkBreaks, Fault, TypeInv, CallInv, SessionsInv, DirectoryInv,
       DownInv, UpInv, RunInv, TaskInv, FaultsInv, DeviceInv, ClientInv
<1> QED BY <1>1, <1>2, <1>3, <1>4 DEF Exit

LEMMA SurroundingsType ==
  ASSUME TypeInv, ClientNotices \/ ClientRestarts \/ Revoke PROVE TypeInv'
<1>1. CASE ClientNotices
  BY <1>1 DEF ClientNotices, TypeInv, ConnInv, CallInv, SessionsInv, DirectoryInv, DownInv, UpInv,
     RunInv, TaskInv, FaultsInv, DeviceInv, ClientInv
<1>2. CASE ClientRestarts
  <2>1. client \in Conns /\ ConnInv /\ ConnPlaced(conn[client])
    BY <1>2 DEF ClientRestarts, TypeInv, ClientInv, ConnInv
  <2>2. ConnPlaced([conn[client] EXCEPT !.link = FALSE])
    BY <2>1 DEF ConnPlaced, ConnState
  <2>3. ConnInv'
    BY <1>2, <2>1, <2>2, ConnSet DEF ClientRestarts
  <2>4. RunInv'
    BY <1>2 DEF ClientRestarts, TypeInv, RunInv, RunState
  <2>5. DownInv' /\ ClientInv'
    BY <1>2, <2>1 DEF ClientRestarts, TypeInv, DownInv, ClientInv
  <2>6. FaultsInv'
    <3> Fault("client")
      BY <1>2 DEF ClientRestarts
    <3> QED BY FaultType DEF TypeInv
  <2> QED
    BY <1>2, <2>3, <2>4, <2>5, <2>6 DEF ClientRestarts, TypeInv, CallInv, SessionsInv,
       DirectoryInv, UpInv, TaskInv, DeviceInv
<1>3. CASE Revoke
  BY <1>3 DEF Revoke, conns, TypeInv, ConnInv, CallInv, SessionsInv, DirectoryInv, DownInv, UpInv,
     RunInv, TaskInv, FaultsInv, DeviceInv, ClientInv
<1> QED BY <1>1, <1>2, <1>3

LEMMA EndedType ==
  ASSUME CallInv, NEW c \in Calls, NEW r \in Results \cup {"error", "crashed"}
  PROVE  CallPlaced(EndedWith(c, r)) /\ EndedWith(c, r).pc = "ended"
  BY DEF EndedWith, IdleCall, CallInv, CallPlaced, CallState

LEMMA GatewayRestartType ==
  ASSUME TypeInv, NEW g \in Gateways, GatewayRestarts(g) PROVE TypeInv'
<1>1. ConnInv'
  BY GonePlaced DEF GatewayRestarts, TypeInv, ConnInv
<1>2. CallInv'
  BY EndedType DEF GatewayRestarts, TypeInv, CallInv
<1>3. UpInv'
  BY DEF GatewayRestarts, TypeInv, UpInv
<1> QED
  BY <1>1, <1>2, <1>3, TunnelAssumption DEF GatewayRestarts, Fault, TypeInv, SessionsInv, DirectoryInv,
     DownInv, RunInv, TaskInv, FaultsInv, DeviceInv, ClientInv

LEMMA RouteType ==
  ASSUME TypeInv, NEW c \in Calls,
         CheckEnabled(c) \/ Forward(c) \/ RouteLocal(c) \/ TakeResult(c) \/ LeaveUnsent(c)
  PROVE  TypeInv'
<1>0. CallInv /\ CallPlaced(call[c])
  BY DEF TypeInv, CallInv
<1>1. CASE CheckEnabled(c)
  <2>1. CallPlaced([call[c] EXCEPT !.pc = "enabled"])
    BY <1>0, <1>1 DEF CheckEnabled, CallPlaced, CallState
  <2>2. CallInv'
    BY <1>0, <1>1, <2>1, CallSet, EndedType DEF CheckEnabled, EndCall
  <2> QED
    BY <1>1, <2>2 DEF CheckEnabled, conns, TypeInv, ConnInv, SessionsInv, DirectoryInv, DownInv, UpInv,
       RunInv, TaskInv, FaultsInv, DeviceInv, ClientInv
<1>2. CASE Forward(c)
  <2>1. directory.gw \in Gateways
    BY <1>2 DEF Forward, OwnerElsewhere, TypeInv, DirectoryInv
  <2>2. CallPlaced([call[c] EXCEPT !.pc = "arrived", !.gw = directory.gw])
    BY <1>0, <2>1 DEF CallPlaced, CallState
  <2>3. CallInv'
    BY <1>0, <1>2, <2>2, CallSet DEF Forward
  <2> QED
    BY <1>2, <2>3 DEF Forward, conns, TypeInv, ConnInv, SessionsInv, DirectoryInv, DownInv, UpInv,
       RunInv, TaskInv, FaultsInv, DeviceInv, ClientInv
<1>3. CASE RouteLocal(c)
  <2>1. sessions[call[c].gw] \in Conns \cup {None}
    BY <1>0, <1>3 DEF RouteLocal, TypeInv, SessionsInv, CallPlaced
  <2>2. CallPlaced([call[c] EXCEPT !.pc = "routed", !.conn = sessions[call[c].gw]])
    BY <1>0, <2>1 DEF CallPlaced, CallState
  <2>3. CallInv'
    BY <1>0, <1>3, <2>2, CallSet, EndedType DEF RouteLocal, EndCall
  <2> QED
    BY <1>3, <2>3 DEF RouteLocal, conns, TypeInv, ConnInv, SessionsInv, DirectoryInv, DownInv, UpInv,
       RunInv, TaskInv, FaultsInv, DeviceInv, ClientInv
<1>4. CASE TakeResult(c)
  <2>1. call[c].box \in Results
    BY <1>0, <1>4 DEF TakeResult, CallPlaced, CallState
  <2>2. CallInv'
    BY <1>0, <1>4, <2>1, CallSet, EndedType DEF TakeResult, EndCall
  <2> QED
    BY <1>4, <2>2 DEF TakeResult, conns, TypeInv, ConnInv, SessionsInv, DirectoryInv, DownInv, UpInv,
       RunInv, TaskInv, FaultsInv, DeviceInv, ClientInv
<1>5. CASE LeaveUnsent(c)
  <2>1. CallInv'
    BY <1>0, <1>5, CallSet, EndedType DEF LeaveUnsent, EndCall
  <2> QED
    BY <1>5, <2>1 DEF LeaveUnsent, conns, TypeInv, ConnInv, SessionsInv, DirectoryInv, DownInv, UpInv,
       RunInv, TaskInv, FaultsInv, DeviceInv, ClientInv
<1> QED BY <1>1, <1>2, <1>3, <1>4, <1>5

LEMMA WaitType ==
  ASSUME TypeInv, NEW c \in Calls, SendCommand(c) \/ Leave(c) \/ CallerCrashes(c)
  PROVE  TypeInv'
<1>0. CallInv /\ CallPlaced(call[c]) /\ CommandFrame(c) \in Frames /\ CancelFrame(c) \in Frames
  BY DEF TypeInv, CallInv, CommandFrame, CancelFrame, Frames
<1>1. CASE SendCommand(c)
  <2>1. CallPlaced([call[c] EXCEPT !.pc = "waiting"])
    BY <1>0 DEF CallPlaced, CallState
  <2>2. CallInv'
    BY <1>0, <1>1, <2>1, CallSet, EndedType DEF SendCommand, EndCall
  <2>3. DownInv'
    BY <1>0, <1>1 DEF SendCommand, TypeInv, DownInv
  <2> QED
    BY <1>1, <2>2, <2>3 DEF SendCommand, conns, TypeInv, ConnInv, SessionsInv, DirectoryInv, UpInv,
       RunInv, TaskInv, FaultsInv, DeviceInv, ClientInv
<1>2. CASE Leave(c)
  <2>1. CallInv'
    BY <1>0, <1>2, CallSet, EndedType DEF Leave, EndCall
  <2>2. DownInv'
    BY <1>0, <1>2 DEF Leave, SendCancel, TypeInv, DownInv
  <2>3. FaultsInv'
    BY <1>2, TunnelAssumption DEF Leave, Fault, TypeInv, FaultsInv
  <2> QED
    BY <1>2, <2>1, <2>2, <2>3 DEF Leave, conns, TypeInv, ConnInv, SessionsInv, DirectoryInv, UpInv,
       RunInv, TaskInv, DeviceInv, ClientInv
<1>3. CASE CallerCrashes(c)
  <2>1. CallPlaced([call[c] EXCEPT !.result = "crashed"])
    BY <1>0 DEF CallPlaced, CallState
  <2>2. CallInv'
    BY <1>0, <1>3, <2>1, CallSet DEF CallerCrashes
  <2>3. FaultsInv'
    BY <1>3, TunnelAssumption DEF CallerCrashes, Fault, TypeInv, FaultsInv
  <2> QED
    BY <1>3, <2>2, <2>3 DEF CallerCrashes, conns, TypeInv, ConnInv, SessionsInv, DirectoryInv, DownInv,
       UpInv, RunInv, TaskInv, DeviceInv, ClientInv
<1> QED BY <1>1, <1>2, <1>3

LEMMA DispatchType ==
  ASSUME TypeInv, NEW k \in Conns, NEW f \in up[k], DispatchResult(k, f) PROVE TypeInv'
<1>1. f \in Answers
  BY DEF TypeInv, UpInv
<1>2. \A c \in Calls : CallPlaced([call[c] EXCEPT !.box = f.result])
  BY <1>1 DEF TypeInv, CallInv, CallPlaced, CallState, Answers
<1>3. CallInv'
  BY <1>2 DEF DispatchResult, TypeInv, CallInv
<1>4. UpInv'
  BY DEF DispatchResult, TypeInv, UpInv
<1> QED
  BY <1>3, <1>4 DEF DispatchResult, conns, TypeInv, ConnInv, SessionsInv, DirectoryInv, DownInv,
     RunInv, TaskInv, FaultsInv, DeviceInv, ClientInv

LEMMA DeviceType ==
  ASSUME TypeInv, NEW c \in Calls, DeviceStep(c) PROVE TypeInv'
<1>0. /\ run[c] \in RunState /\ client \in Conns \cup {None}
      /\ \A r \in Results : ResultFrame(c, r) \in Answers
  BY DEF TypeInv, RunInv, ClientInv, ResultFrame, Answers
<1>1. CASE StartCommand(c)
  <2>1. RunInv' /\ DownInv'
    BY <1>0, <1>1 DEF StartCommand, TypeInv, RunInv, RunState, DownInv
  <2> QED
    BY <1>1, <2>1 DEF StartCommand, conns, TypeInv, ConnInv, CallInv, SessionsInv, DirectoryInv, UpInv,
       TaskInv, FaultsInv, DeviceInv, ClientInv
<1>2. CASE CancelCommand(c)
  <2>1. RunInv' /\ DownInv'
    BY <1>0, <1>2 DEF CancelCommand, TypeInv, RunInv, RunState, DownInv
  <2> QED
    BY <1>2, <2>1 DEF CancelCommand, conns, TypeInv, ConnInv, CallInv, SessionsInv, DirectoryInv, UpInv,
       TaskInv, FaultsInv, DeviceInv, ClientInv
<1>3. CASE Apply(c)
  <2>1. RunInv'
    BY <1>0, <1>3 DEF Apply, TypeInv, RunInv, RunState
  <2> QED
    BY <1>3, <2>1 DEF Apply, conns, TypeInv, ConnInv, CallInv, SessionsInv, DirectoryInv, DownInv, UpInv,
       TaskInv, FaultsInv, DeviceInv, ClientInv
<1>4. CASE Finish(c)
  <2>1. RunInv'
    BY <1>0, <1>4 DEF Finish, TypeInv, RunInv, RunState
  <2>2. Outcomes(c) \subseteq Results
    BY DEF Outcomes, Results
  <2>3. PICK r \in Outcomes(c) : LET k == run[c].conn IN
            up' = IF conn[k].link THEN [up EXCEPT ![k] = @ \cup {ResultFrame(c, r)}] ELSE up
    BY <1>4 DEF Finish
  <2>4. ResultFrame(c, r) \in Answers
    BY <1>0, <2>2
  <2>5. UpInv'
    BY <2>3, <2>4 DEF TypeInv, UpInv
  <2> QED
    BY <1>4, <2>1, <2>5 DEF Finish, conns, TypeInv, ConnInv, CallInv, SessionsInv, DirectoryInv, DownInv,
       TaskInv, FaultsInv, DeviceInv, ClientInv
<1> QED BY <1>1, <1>2, <1>3, <1>4 DEF DeviceStep

LEMMA TaskType ==
  ASSUME TypeInv, NEW t \in Tasks, Request(t) \/ finishTask(t) PROVE TypeInv'
<1>0. /\ task[t].status \in Statuses /\ task[t].attempts \in 0..MaxAttempts
      /\ task[t].status = "running" => task[t].attempts # 0
      /\ CallInv
  BY DEF TypeInv, TaskInv
<1>1. CASE Request(t)
  <2>1. task[t].attempts + 1 \in 1..MaxAttempts
    <3> task[t].attempts < MaxAttempts
      BY <1>1 DEF Request
    <3> QED BY <1>0, TunnelAssumption
  <2>2. <<t, task[t].attempts + 1>> \in Calls
    BY <2>1 DEF Calls
  <2>3. PICK g \in Gateways : call' = [call EXCEPT ![<<t, task[t].attempts + 1>>] =
                                          [@ EXCEPT !.pc = "arrived", !.gw = g]]
    BY <1>1 DEF Request
  <2>4. CallPlaced([call[<<t, task[t].attempts + 1>>] EXCEPT !.pc = "arrived", !.gw = g])
    BY <1>0, <2>2 DEF CallInv, CallPlaced, CallState
  <2>5. CallInv'
    BY <1>0, <2>2, <2>3, <2>4, CallSet
  <2>6. TaskInv'
    <3> task' = [task EXCEPT ![t] = [status |-> "running", attempts |-> task[t].attempts + 1]]
      BY <1>1 DEF Request
    <3> QED BY <1>0, <2>1 DEF TypeInv, TaskInv, Statuses
  <2> QED
    BY <1>1, <2>5, <2>6 DEF Request, conns, TypeInv, ConnInv, SessionsInv, DirectoryInv, DownInv, UpInv,
       RunInv, FaultsInv, DeviceInv, ClientInv
<1>2. CASE finishTask(t)
  <2>1. call[CallOf(t)].result \in Results \cup {"error", "crashed"}
    <3>1. task[t].attempts \in 1..MaxAttempts
      BY <1>0, <1>2, TunnelAssumption DEF finishTask
    <3>2. CallOf(t) \in Calls
      BY <3>1 DEF CallOf, Calls
    <3> QED BY <3>2, <1>0, <1>2 DEF finishTask, CallInv, CallPlaced, CallState
  <2>2. After(t, call[CallOf(t)].result) \in Statuses \ {"running"}
    BY <2>1 DEF After, Results, Statuses
  <2>3. TaskInv'
    BY <1>2, <2>2 DEF finishTask, TypeInv, TaskInv
  <2> QED
    BY <1>2, <2>3 DEF finishTask, conns, TypeInv, ConnInv, CallInv, SessionsInv, DirectoryInv, DownInv, UpInv,
       RunInv, FaultsInv, DeviceInv, ClientInv
<1> QED BY <1>1, <1>2

LEMMA TypeStep == TypeInv /\ [Next]_vars => TypeInv'
<1> SUFFICES ASSUME TypeInv, [Next]_vars PROVE TypeInv'
  OBVIOUS
<1>1. CASE \E k \in Conns : Dial(k) \/ Handshake(k) \/ Refresh(k) \/ Exit(k) \/ LinkBreaks(k)
  BY <1>1, HandshakeType, RefreshType, ExitType
<1>2. CASE \E k \in Conns : \E f \in up[k] : DispatchResult(k, f)
  BY <1>2, DispatchType
<1>3. CASE RecordExpires
  <2>1. CASE Conns = {}
    BY <1>3, <2>1 DEF RecordExpires, TypeInv, DirectoryInv
  <2>2. CASE Conns # {}
    BY <1>3, <2>2, RefreshType
  <2> QED BY <2>1, <2>2
<1>4. CASE ClientNotices \/ ClientRestarts \/ Revoke
  BY <1>4, SurroundingsType
<1>5. CASE \E g \in Gateways : GatewayRestarts(g)
  BY <1>5, GatewayRestartType
<1>6. CASE \E c \in Calls : GatewayStep(c) \/ DeviceStep(c) \/ CallerCrashes(c)
  BY <1>6, RouteType, WaitType, DeviceType DEF GatewayStep
<1>7. CASE \E t \in Tasks : Request(t) \/ finishTask(t)
  BY <1>7, TaskType
<1>8. CASE UNCHANGED vars
  BY <1>8 DEF vars, conns, TypeInv, ConnInv, CallInv, SessionsInv, DirectoryInv, DownInv, UpInv,
     RunInv, TaskInv, FaultsInv, DeviceInv, ClientInv
<1> QED BY <1>1, <1>2, <1>3, <1>4, <1>5, <1>6, <1>7, <1>8 DEF Next

\* Every variable keeps its type (all actions of gateways, device and control
\* plane), for any numbers of gateways, connections, tasks, attempts and faults.
THEOREM TypeCorrect == Spec => []TypeOK
<1>1. Spec => []TypeInv
  BY InitType, TypeStep, PTL DEF Spec
<1> QED BY <1>1, TypeInvTypes, PTL
-----------------------------------------------------------------------------
(* AnswersTrue.  It is not inductive: it needs to know that a result on its  *)
(* way is true too, and that a command is carried out once at most, because  *)
(* its frame is sent once and gone when it runs.                             *)

\* What r says of c is so, and will stay so: an ended command changes no more.
Truthful(c, r) ==
    /\ r = "ok" => run[c].pc = "ended" /\ run[c].applied
    /\ r = "cancelled" => run[c].pc = "ended" /\ run[c].cancelled

Unsent(c) == call[c].pc \in {"idle", "arrived", "enabled", "routed"}

\* Of calls not made yet, and of those whose command is not sent yet.
CallsFresh ==
    \A c \in Calls :
        /\ c[2] > task[c[1]].attempts => call[c].pc = "idle"
        /\ call[c].pc = "idle" => call[c].gw = None
        /\ Unsent(c) => /\ run[c].pc = "none" /\ call[c].box = None
                        /\ \A k \in Conns : CommandFrame(c) \notin down[k]

\* A command on its way does not run yet and is not on its way elsewhere.
SentOnce ==
    \A c \in Calls : \A k \in Conns :
        CommandFrame(c) \in down[k] =>
            /\ run[c].pc = "none"
            /\ \A j \in Conns \ {k} : CommandFrame(c) \notin down[j]

UpTrue == \A k \in Conns : \A f \in up[k] : Truthful(f.call, f.result)

CallsTrue == \A c \in Calls : Truthful(c, call[c].box) /\ Truthful(c, call[c].result)

AnswerInv == CallsFresh /\ SentOnce /\ UpTrue /\ CallsTrue

LEMMA AnswerInit == Init => AnswerInv
  BY TunnelAssumption DEF Init, AnswerInv, CallsFresh, SentOnce, UpTrue, CallsTrue, Truthful, Unsent,
     IdleCall, IdleRun, Calls

\* A step that touches no call: frames may be lost, commands may go on.
LEMMA QuietStep ==
  ASSUME TypeInv, AnswerInv, call' = call, task' = task,
         \A c \in Calls : run[c].pc = "none" => run'[c].pc = "none",
         \A c \in Calls : run[c].pc = "ended" =>
             /\ run'[c].pc = "ended"
             /\ run[c].applied => run'[c].applied
             /\ run[c].cancelled => run'[c].cancelled,
         \A k \in Conns : \A c \in Calls : CommandFrame(c) \in down'[k] => CommandFrame(c) \in down[k],
         \A k \in Conns : \A f \in up'[k] : f \in up[k]
  PROVE  AnswerInv'
<1>1. CallsFresh' /\ SentOnce'
  BY DEF AnswerInv, CallsFresh, SentOnce, Unsent
<1>2. UpTrue'
  BY DEF AnswerInv, UpTrue, Truthful, TypeInv, UpInv, Answers
<1>3. CallsTrue'
  BY DEF AnswerInv, CallsTrue, Truthful
<1> QED BY <1>1, <1>2, <1>3 DEF AnswerInv

\* A step of calls that are made already, which tells them nothing untrue.
LEMMA CallStep ==
  ASSUME TypeInv, AnswerInv, run' = run, task' = task,
         \A c \in Calls :
             /\ call[c].pc = "idle" => call'[c] = call[c]
             /\ Unsent(c)' => Unsent(c) /\ call'[c].box = None
             /\ Truthful(c, call'[c].box) /\ Truthful(c, call'[c].result)
             /\ call'[c].pc = "idle" => call[c].pc = "idle",
         \A k \in Conns : \A c \in Calls : CommandFrame(c) \in down'[k] => CommandFrame(c) \in down[k],
         \A k \in Conns : \A f \in up'[k] : f \in up[k]
  PROVE  AnswerInv'
<1>1. CallsFresh'
  BY DEF AnswerInv, CallsFresh, Unsent
<1>2. SentOnce' /\ UpTrue' /\ CallsTrue'
  BY DEF AnswerInv, SentOnce, UpTrue, CallsTrue, Truthful
<1> QED BY <1>1, <1>2 DEF AnswerInv

LEMMA ConnAnswer ==
  ASSUME TypeInv, AnswerInv, NEW k \in Conns,
         \/ Dial(k) \/ Handshake(k) \/ Refresh(k) \/ Exit(k) \/ LinkBreaks(k)
         \/ RecordExpires \/ ClientNotices \/ Revoke
  PROVE  AnswerInv'
<1>1. call' = call /\ task' = task /\ run' = run
  BY DEF Dial, Handshake, CheckDevice, putSession, HandshakeFails, setDirectory, Refresh, RefreshCheck,
     RefreshSet, Exit, ReadFails, clearDirectory, dropSession, LinkBreaks, RecordExpires, ClientNotices, Revoke
<1>2. \A j \in Conns : down'[j] \subseteq down[j] /\ up'[j] \subseteq up[j]
  <2>1. CASE Dial(k)
    BY <2>1 DEF Dial, TypeInv, DownInv, UpInv
  <2>2. CASE dropSession(k)
    BY <2>2 DEF dropSession, TypeInv, UpInv
  <2>3. CASE ClientNotices
    BY <2>3 DEF ClientNotices, TypeInv, DownInv
  <2>4. CASE down' = down /\ up' = up
    BY <2>4
  <2> QED
    BY <2>1, <2>2, <2>3, <2>4 DEF Handshake, CheckDevice, putSession, HandshakeFails, setDirectory, Refresh,
       RefreshCheck, RefreshSet, Exit, ReadFails, clearDirectory, LinkBreaks, RecordExpires, Revoke
<1> QED BY <1>1, <1>2, QuietStep

LEMMA ClientRestartAnswer ==
  ASSUME TypeInv, AnswerInv, ClientRestarts PROVE AnswerInv'
<1>1. call' = call /\ task' = task /\ up' = up
  BY DEF ClientRestarts
<1>2. \A c \in Calls : run[c].pc \in {"none", "ended"} => run'[c] = run[c]
  BY DEF ClientRestarts
<1>3. \A j \in Conns : down'[j] \subseteq down[j]
  BY DEF ClientRestarts, TypeInv, DownInv
<1>4. \A c \in Calls :
        /\ run[c].pc = "none" => run'[c].pc = "none"
        /\ run[c].pc = "ended" => /\ run'[c].pc = "ended"
                                  /\ run[c].applied => run'[c].applied
                                  /\ run[c].cancelled => run'[c].cancelled
  BY <1>2
<1>5. \A k \in Conns : \A c \in Calls : CommandFrame(c) \in down'[k] => CommandFrame(c) \in down[k]
  BY <1>3
<1> QED BY <1>1, <1>4, <1>5, QuietStep

LEMMA EndedTrue ==
  ASSUME AnswerInv, NEW c \in Calls, NEW r, Truthful(c, r)
  PROVE  /\ EndedWith(c, r).pc = "ended"
         /\ Truthful(c, EndedWith(c, r).box) /\ Truthful(c, EndedWith(c, r).result)
  BY TunnelAssumption DEF EndedWith, IdleCall, AnswerInv, CallsTrue, Truthful

LEMMA GatewayRestartAnswer ==
  ASSUME TypeInv, AnswerInv, NEW g \in Gateways, GatewayRestarts(g) PROVE AnswerInv'
<1>1. run' = run /\ task' = task /\ down' = down
  BY DEF GatewayRestarts
<1>2. \A k \in Conns : up'[k] \subseteq up[k]
  BY DEF GatewayRestarts
<1>3. ASSUME NEW c \in Calls
      PROVE  /\ call[c].pc = "idle" => call'[c] = call[c]
             /\ Unsent(c)' => Unsent(c) /\ call'[c].box = None
             /\ Truthful(c, call'[c].box) /\ Truthful(c, call'[c].result)
             /\ call'[c].pc = "idle" => call[c].pc = "idle"
  <2>1. Truthful(c, "error")
    BY DEF Truthful
  <2>2. call'[c] = IF call[c].gw = g THEN EndedWith(c, "error") ELSE call[c]
    BY DEF GatewayRestarts
  <2>3. call[c].pc = "idle" => call[c].gw # g
    BY TunnelAssumption DEF AnswerInv, CallsFresh
  <2> QED
    BY <2>1, <2>2, <2>3, EndedTrue DEF Unsent, AnswerInv, CallsFresh, CallsTrue
<1> QED BY <1>1, <1>2, <1>3, CallStep

LEMMA RouteAnswer ==
  ASSUME TypeInv, AnswerInv, NEW c \in Calls,
         \/ CheckEnabled(c) \/ Forward(c) \/ RouteLocal(c) \/ TakeResult(c) \/ LeaveUnsent(c)
         \/ Leave(c) \/ CallerCrashes(c)
  PROVE  AnswerInv'
<1>1. run' = run /\ task' = task /\ up' = up
  BY DEF CheckEnabled, Forward, RouteLocal, TakeResult, LeaveUnsent, Leave, CallerCrashes
<1>2. \A k \in Conns : \A d \in Calls : CommandFrame(d) \in down'[k] => CommandFrame(d) \in down[k]
  <2>1. CASE Leave(c)
    BY <2>1 DEF Leave, SendCancel, CancelFrame, CommandFrame, TypeInv, DownInv
  <2> QED
    BY <2>1 DEF CheckEnabled, Forward, RouteLocal, TakeResult, LeaveUnsent, CallerCrashes
<1>3. PICK e : call' = [call EXCEPT ![c] = e]
  BY DEF CheckEnabled, Forward, RouteLocal, TakeResult, LeaveUnsent, Leave, CallerCrashes, EndCall
<1>4. call'[c] = e /\ \A d \in Calls \ {c} : call'[d] = call[d]
  BY <1>3 DEF TypeInv, CallInv
<1>5. /\ call[c].pc # "idle" /\ e.pc # "idle"
      /\ Unsent(c)' => Unsent(c) /\ e.box = None
      /\ Truthful(c, e.box) /\ Truthful(c, e.result)
  <2>0. /\ Truthful(c, "error") /\ Truthful(c, "crashed")
        /\ Truthful(c, call[c].box) /\ Truthful(c, call[c].result)
        /\ call[c] \in CallState
        /\ Unsent(c) => call[c].box = None
    BY DEF Truthful, AnswerInv, CallsTrue, CallsFresh, TypeInv, CallInv, CallPlaced
  <2>1. CASE CheckEnabled(c)
    <3>1. e = EndedWith(c, "error") \/ e = [call[c] EXCEPT !.pc = "enabled"]
      BY <2>1, <1>4 DEF CheckEnabled, EndCall, TypeInv, CallInv
    <3>2. EndedWith(c, "error").pc = "ended" /\ Truthful(c, EndedWith(c, "error").box)
          /\ Truthful(c, EndedWith(c, "error").result)
      BY <2>0, EndedTrue
    <3> QED BY <2>0, <2>1, <1>4, <3>1, <3>2 DEF CheckEnabled, Unsent, CallState
  <2>2. CASE Forward(c)
    BY <2>0, <2>2, <1>4 DEF Forward, Unsent, TypeInv, CallInv, CallState
  <2>3. CASE RouteLocal(c)
    <3>1. e = EndedWith(c, "error")
          \/ e = [call[c] EXCEPT !.pc = "routed", !.conn = sessions[call[c].gw]]
      BY <2>3, <1>4 DEF RouteLocal, EndCall, TypeInv, CallInv
    <3>2. EndedWith(c, "error").pc = "ended" /\ Truthful(c, EndedWith(c, "error").box)
          /\ Truthful(c, EndedWith(c, "error").result)
      BY <2>0, EndedTrue
    <3> QED BY <2>0, <2>3, <1>4, <3>1, <3>2 DEF RouteLocal, Unsent, CallState
  <2>4. CASE TakeResult(c)
    BY <2>0, <2>4, <1>4, EndedTrue DEF TakeResult, EndCall, Unsent, TypeInv, CallInv, CallState
  <2>5. CASE LeaveUnsent(c)
    BY <2>0, <2>5, <1>4, EndedTrue DEF LeaveUnsent, EndCall, Unsent, TypeInv, CallInv, CallState
  <2>6. CASE Leave(c)
    BY <2>0, <2>6, <1>4, EndedTrue DEF Leave, EndCall, Unsent, TypeInv, CallInv, CallState
  <2>7. CASE CallerCrashes(c)
    BY <2>0, <2>7, <1>4 DEF CallerCrashes, Unsent, TypeInv, CallInv, CallState
  <2> QED BY <2>1, <2>2, <2>3, <2>4, <2>5, <2>6, <2>7
<1>6. ASSUME NEW d \in Calls
      PROVE  /\ call[d].pc = "idle" => call'[d] = call[d]
             /\ Unsent(d)' => Unsent(d) /\ call'[d].box = None
             /\ Truthful(d, call'[d].box) /\ Truthful(d, call'[d].result)
             /\ call'[d].pc = "idle" => call[d].pc = "idle"
  BY <1>4, <1>5 DEF Unsent, AnswerInv, CallsFresh, CallsTrue
<1> QED BY <1>1, <1>2, <1>6, CallStep

LEMMA DispatchAnswer ==
  ASSUME TypeInv, AnswerInv, NEW k \in Conns, NEW f \in up[k], DispatchResult(k, f)
  PROVE  AnswerInv'
<1>1. run' = run /\ task' = task /\ down' = down
  BY DEF DispatchResult
<1>2. \A j \in Conns : up'[j] \subseteq up[j]
  BY DEF DispatchResult, TypeInv, UpInv
<1>3. ASSUME NEW c \in Calls
      PROVE  /\ call[c].pc = "idle" => call'[c] = call[c]
             /\ Unsent(c)' => Unsent(c) /\ call'[c].box = None
             /\ Truthful(c, call'[c].box) /\ Truthful(c, call'[c].result)
             /\ call'[c].pc = "idle" => call[c].pc = "idle"
  <2>1. CASE WaitsFor(c, k, f) /\ call[c].box = None
    <3>1. Truthful(c, f.result)
      BY <2>1 DEF WaitsFor, AnswerInv, UpTrue
    <3>2. call'[c] = [call[c] EXCEPT !.box = f.result] /\ call[c] \in CallState
      BY <2>1 DEF DispatchResult, TypeInv, CallInv, CallPlaced
    <3> QED BY <2>1, <3>1, <3>2 DEF WaitsFor, Unsent, CallState, AnswerInv, CallsTrue
  <2>2. CASE call'[c] = call[c]
    BY <2>2 DEF Unsent, AnswerInv, CallsFresh, CallsTrue
  <2> QED BY <2>1, <2>2 DEF DispatchResult
<1> QED BY <1>1, <1>2, <1>3, CallStep

LEMMA SendAnswer ==
  ASSUME TypeInv, AnswerInv, NEW c \in Calls, SendCommand(c) PROVE AnswerInv'
<1>1. run' = run /\ task' = task /\ up' = up
  BY DEF SendCommand
<1>2. /\ call[c].pc = "routed" /\ run[c].pc = "none"
      /\ \A k \in Conns : CommandFrame(c) \notin down[k]
  BY DEF SendCommand, AnswerInv, CallsFresh, Unsent
<1>3. /\ \A d \in Calls \ {c} : call'[d] = call[d]
      /\ call'[c].pc \in {"waiting", "ended"}
      /\ Truthful(c, call'[c].box) /\ Truthful(c, call'[c].result)
  <2>1. Truthful(c, "error") /\ Truthful(c, call[c].box) /\ Truthful(c, call[c].result)
    BY DEF Truthful, AnswerInv, CallsTrue
  <2>2. EndedWith(c, "error").pc = "ended" /\ Truthful(c, EndedWith(c, "error").box)
        /\ Truthful(c, EndedWith(c, "error").result)
    BY <2>1, EndedTrue
  <2>3. CASE call' = [call EXCEPT ![c].pc = "waiting"]
    BY <2>1, <2>3 DEF TypeInv, CallInv, CallPlaced, CallState
  <2>4. CASE call' = [call EXCEPT ![c] = EndedWith(c, "error")]
    BY <2>2, <2>4 DEF TypeInv, CallInv
  <2> QED BY <2>3, <2>4 DEF SendCommand, EndCall
<1>4. \A k \in Conns : \A d \in Calls :
          CommandFrame(d) \in down'[k] =>
              CommandFrame(d) \in down[k] \/ (d = c /\ k = call[c].conn)
  BY DEF SendCommand, CommandFrame, TypeInv, DownInv
<1>5. CallsFresh'
  BY <1>1, <1>2, <1>3, <1>4 DEF AnswerInv, CallsFresh, Unsent
<1>6. SentOnce'
  BY <1>1, <1>2, <1>4 DEF AnswerInv, SentOnce
<1>7. UpTrue' /\ CallsTrue'
  BY <1>1, <1>3 DEF AnswerInv, UpTrue, CallsTrue, Truthful
<1> QED BY <1>5, <1>6, <1>7 DEF AnswerInv

LEMMA RequestAnswer ==
  ASSUME TypeInv, AnswerInv, NEW t \in Tasks, Request(t) PROVE AnswerInv'
<1> DEFINE c == <<t, task[t].attempts + 1>>
<1>1. run' = run /\ down' = down /\ up' = up
  BY DEF Request
<1>2. task[t].attempts \in Nat /\ task[t].attempts < MaxAttempts /\ MaxAttempts \in Nat
  BY TunnelAssumption DEF Request, TypeInv, TaskInv
<1>3. c \in Calls /\ c[1] = t /\ c[2] > task[t].attempts
  BY <1>2 DEF Calls
<1>4. /\ task'[t].attempts = task[t].attempts + 1
      /\ \A u \in Tasks : u # t => task'[u] = task[u]
  BY DEF Request, TypeInv, TaskInv
<1>5. call[c].pc = "idle" /\ call[c].box = None /\ run[c].pc = "none"
      /\ \A k \in Conns : CommandFrame(c) \notin down[k]
  BY <1>3 DEF AnswerInv, CallsFresh, Unsent
<1>6. /\ \A d \in Calls : d # c => call'[d] = call[d]
      /\ call'[c].pc = "arrived" /\ call'[c].box = None /\ call'[c].result = call[c].result
  <2>1. PICK g \in Gateways : call' = [call EXCEPT ![c] = [@ EXCEPT !.pc = "arrived", !.gw = g]]
    BY DEF Request
  <2>2. call'[c] = [call[c] EXCEPT !.pc = "arrived", !.gw = g] /\ call[c] \in CallState
    BY <1>3, <2>1 DEF TypeInv, CallInv, CallPlaced
  <2>3. \A d \in Calls : d # c => call'[d] = call[d]
    BY <2>1 DEF TypeInv, CallInv
  <2> QED BY <1>5, <2>2, <2>3 DEF CallState
<1>7. \A d \in Calls : d[2] > task'[d[1]].attempts => d # c /\ d[2] > task[d[1]].attempts
  BY <1>2, <1>3, <1>4 DEF Calls
<1>8. CallsFresh'
  BY <1>1, <1>5, <1>6, <1>7 DEF AnswerInv, CallsFresh, Unsent
<1>9. SentOnce' /\ UpTrue'
  BY <1>1 DEF AnswerInv, SentOnce, UpTrue, Truthful
<1>10. CallsTrue'
  BY <1>1, <1>5, <1>6 DEF AnswerInv, CallsTrue, Truthful
<1> QED BY <1>8, <1>9, <1>10 DEF AnswerInv

LEMMA StartAnswer ==
  ASSUME TypeInv, AnswerInv, NEW c \in Calls, StartCommand(c) PROVE AnswerInv'
<1>1. call' = call /\ task' = task /\ up' = up
  BY DEF StartCommand
<1>2. client \in Conns /\ CommandFrame(c) \in down[client]
  BY DEF StartCommand, TypeInv, ClientInv
<1>3. run[c].pc = "none" /\ ~ Unsent(c)
  BY <1>2 DEF AnswerInv, SentOnce, CallsFresh
<1>4. \A d \in Calls \ {c} : run'[d] = run[d]
  BY DEF StartCommand, TypeInv, RunInv
<1>5. \A k \in Conns : down'[k] \subseteq down[k] /\ CommandFrame(c) \notin down'[k]
  BY <1>2 DEF StartCommand, TypeInv, DownInv, AnswerInv, SentOnce
<1>6. CallsFresh'
  BY <1>1, <1>3, <1>4, <1>5 DEF AnswerInv, CallsFresh, Unsent
<1>7. SentOnce'
  BY <1>4, <1>5 DEF AnswerInv, SentOnce
<1>8. UpTrue'
  <2> SUFFICES ASSUME NEW k \in Conns, NEW f \in up[k] PROVE Truthful(f.call, f.result)'
    BY <1>1 DEF UpTrue
  <2>1. f.call \in Calls /\ Truthful(f.call, f.result)
    BY DEF AnswerInv, UpTrue, TypeInv, UpInv, Answers
  <2> QED BY <2>1, <1>3, <1>4 DEF Truthful
<1>9. CallsTrue'
  BY <1>1, <1>3, <1>4 DEF AnswerInv, CallsTrue, Truthful
<1> QED BY <1>6, <1>7, <1>8, <1>9 DEF AnswerInv

LEMMA CommandAnswer ==
  ASSUME TypeInv, AnswerInv, NEW c \in Calls, CancelCommand(c) \/ Apply(c) PROVE AnswerInv'
<1>1. call' = call /\ task' = task /\ up' = up
  BY DEF CancelCommand, Apply
<1>2. \A d \in Calls :
        /\ run'[d].pc = run[d].pc
        /\ run[d].applied => run'[d].applied
        /\ run[d].cancelled => run'[d].cancelled
  BY DEF CancelCommand, Apply, TypeInv, RunInv, RunState
<1>3. \A k \in Conns : down'[k] \subseteq down[k]
  BY DEF CancelCommand, Apply, TypeInv, DownInv
<1> QED BY <1>1, <1>2, <1>3, QuietStep

LEMMA FinishAnswer ==
  ASSUME TypeInv, AnswerInv, NEW c \in Calls, Finish(c) PROVE AnswerInv'
<1>1. call' = call /\ task' = task /\ down' = down
  BY DEF Finish
<1>2. /\ run[c].pc = "running" /\ run'[c].pc = "ended"
      /\ run'[c].applied = run[c].applied /\ run'[c].cancelled = run[c].cancelled
      /\ \A d \in Calls \ {c} : run'[d] = run[d]
  BY DEF Finish, TypeInv, RunInv, RunState
<1>3. PICK r \in Outcomes(c) : LET k == run[c].conn IN
          up' = IF conn[k].link THEN [up EXCEPT ![k] = @ \cup {ResultFrame(c, r)}] ELSE up
  BY DEF Finish
<1>4. \A k \in Conns : \A f \in up'[k] : f \in up[k] \/ f = ResultFrame(c, r)
  BY <1>3 DEF TypeInv, UpInv
<1>5. (r = "ok" => run[c].applied) /\ (r = "cancelled" => run[c].cancelled)
  BY DEF Outcomes
<1>6. CallsFresh' /\ SentOnce'
  BY <1>1, <1>2 DEF AnswerInv, CallsFresh, SentOnce, Unsent
<1>7. UpTrue'
  BY <1>2, <1>4, <1>5 DEF AnswerInv, UpTrue, Truthful, TypeInv, UpInv, Answers, ResultFrame
<1>8. CallsTrue'
  BY <1>1, <1>2 DEF AnswerInv, CallsTrue, Truthful
<1> QED BY <1>6, <1>7, <1>8 DEF AnswerInv

LEMMA finishTaskAnswer ==
  ASSUME TypeInv, AnswerInv, NEW t \in Tasks, finishTask(t) PROVE AnswerInv'
<1>1. call' = call /\ run' = run /\ up' = up /\ down' = down
  BY DEF finishTask
<1>2. \A u \in Tasks : task'[u].attempts = task[u].attempts
  BY DEF finishTask, TypeInv, TaskInv
<1> QED
  BY <1>1, <1>2 DEF AnswerInv, CallsFresh, SentOnce, UpTrue, CallsTrue, Truthful, Unsent, Calls

LEMMA AnswerStep == TypeInv /\ AnswerInv /\ [Next]_vars => AnswerInv'
<1> SUFFICES ASSUME TypeInv, AnswerInv, [Next]_vars PROVE AnswerInv'
  OBVIOUS
<1>1. CASE \E k \in Conns : Dial(k) \/ Handshake(k) \/ Refresh(k) \/ Exit(k) \/ LinkBreaks(k)
  BY <1>1, ConnAnswer
<1>2. CASE \E k \in Conns : \E f \in up[k] : DispatchResult(k, f)
  BY <1>2, DispatchAnswer
<1>3. CASE RecordExpires \/ ClientNotices \/ Revoke
  <2>1. CASE Conns # {}
    BY <1>3, <2>1, ConnAnswer
  <2>2. CASE Conns = {}
    BY <1>3, <2>2 DEF RecordExpires, ClientNotices, Revoke, conns, AnswerInv, CallsFresh, SentOnce, UpTrue,
       CallsTrue, Truthful, Unsent
  <2> QED BY <2>1, <2>2
<1>4. CASE ClientRestarts
  BY <1>4, ClientRestartAnswer
<1>5. CASE \E g \in Gateways : GatewayRestarts(g)
  BY <1>5, GatewayRestartAnswer
<1>6. CASE \E c \in Calls : GatewayStep(c) \/ DeviceStep(c) \/ CallerCrashes(c)
  BY <1>6, RouteAnswer, SendAnswer, StartAnswer, CommandAnswer, FinishAnswer DEF GatewayStep, DeviceStep
<1>7. CASE \E t \in Tasks : Request(t) \/ finishTask(t)
  BY <1>7, RequestAnswer, finishTaskAnswer
<1>8. CASE UNCHANGED vars
  BY <1>8 DEF vars, conns, AnswerInv, CallsFresh, SentOnce, UpTrue, CallsTrue, Truthful, Unsent
<1> QED BY <1>1, <1>2, <1>3, <1>4, <1>5, <1>6, <1>7, <1>8 DEF Next

\* What the control plane is told of a command is true of that command, whatever
\* is lost, late, replaced or restarted (the commands map of the gateway, the
\* results handleV2Command sends), for any numbers of gateways, connections,
\* tasks, attempts and faults.
THEOREM AnswersCorrect == Spec => []AnswersTrue
<1>1. Spec => []TypeInv
  BY InitType, TypeStep, PTL DEF Spec
<1>2. Init => AnswerInv
  BY AnswerInit
<1>3. AnswerInv => AnswersTrue
  BY DEF AnswerInv, CallsTrue, Truthful, AnswersTrue
<1> QED BY <1>1, <1>2, <1>3, AnswerStep, PTL DEF Spec
-----------------------------------------------------------------------------
(* RegistrationKept: who is registered is served there, and who leaves has a *)
(* broken link.                                                              *)

Registered(k) == conn[k].pc \in {"registered", "live", "clearing", "dropping"}

RegisteredHere ==
    \A g \in Gateways : \A k \in Conns : sessions[g] = k => conn[k].gw = g /\ Registered(k)

LeavingBroken == \A k \in Conns : conn[k].pc \in {"clearing", "dropping"} => ~ conn[k].link

SessionInv == RegisteredHere /\ LeavingBroken

LEMMA SessionInit == Init => SessionInv
  BY TunnelAssumption DEF Init, SessionInv, RegisteredHere, LeavingBroken, Gone

\* A step that moves one connection on, and no session.
LEMMA ConnMoves ==
  ASSUME TypeInv, SessionInv, sessions' = sessions, NEW k \in Conns, NEW e,
         conn' = [conn EXCEPT ![k] = e],
         Registered(k) => e.gw = conn[k].gw /\ e.pc \in {"registered", "live", "clearing", "dropping"},
         e.pc \in {"clearing", "dropping"} => ~ e.link
  PROVE  SessionInv'
<1>1. conn'[k] = e /\ \A j \in Conns : j # k => conn'[j] = conn[j]
  BY DEF TypeInv, ConnInv
<1>2. RegisteredHere'
  BY <1>1 DEF SessionInv, RegisteredHere, Registered
<1>3. LeavingBroken'
  BY <1>1 DEF SessionInv, LeavingBroken
<1> QED BY <1>2, <1>3 DEF SessionInv

LEMMA HandshakeSession ==
  ASSUME TypeInv, SessionInv, NEW k \in Conns, Dial(k) \/ Handshake(k) PROVE SessionInv'
<1>0. conn[k] \in ConnState /\ ConnPlaced(conn[k])
  BY DEF TypeInv, ConnInv, ConnPlaced
<1>1. CASE Dial(k)
  <2>1. PICK g \in Gateways : conn' = [conn EXCEPT ![k] =
            [pc |-> "hello", gw |-> g, link |-> TRUE, saw |-> FALSE, refresh |-> "off"]]
    BY <1>1 DEF Dial
  <2> QED BY <1>1, <2>1, ConnMoves DEF Dial, Reusable, Registered
<1>2. CASE CheckDevice(k)
  <2> DEFINE e == [conn[k] EXCEPT !.pc = "checked"]
  <2>1. e.pc = "checked" /\ Gone.pc = "gone" /\ ~ Registered(k) /\ sessions' = sessions
    BY <1>0, <1>2 DEF CheckDevice, Gone, ConnState, Registered
  <2>2. conn' = [conn EXCEPT ![k] = e] \/ conn' = [conn EXCEPT ![k] = Gone]
    BY <1>2 DEF CheckDevice
  <2> HIDE DEF e
  <2>3. CASE conn' = [conn EXCEPT ![k] = e]
    BY <2>1, <2>3, ConnMoves
  <2>4. CASE conn' = [conn EXCEPT ![k] = Gone]
    BY <2>1, <2>4, ConnMoves
  <2> QED BY <2>2, <2>3, <2>4
<1>3. CASE putSession(k)
  <2>1. conn[k].gw \in Gateways /\ ~ Registered(k)
    BY <1>0, <1>3 DEF putSession, ConnPlaced, Registered
  <2>2. /\ conn'[k].pc = "registered" /\ conn'[k].gw = conn[k].gw
        /\ \A j \in Conns : j # k => /\ conn'[j].pc = conn[j].pc /\ conn'[j].gw = conn[j].gw
                                     /\ conn'[j].link => conn[j].link
    <3>1. conn'[k] = [conn[k] EXCEPT !.pc = "registered"]
      BY <1>3 DEF putSession, Replace
    <3>2. \A j \in Conns : j # k => conn'[j] = conn[j] \/ conn'[j] = [conn[j] EXCEPT !.link = FALSE]
      BY <1>3 DEF putSession, Replace
    <3>3. \A j \in Conns : conn[j] \in ConnState
      BY DEF TypeInv, ConnInv, ConnPlaced
    <3>4. \A j \in Conns : j # k => /\ conn'[j].pc = conn[j].pc /\ conn'[j].gw = conn[j].gw
                                    /\ conn'[j].link => conn[j].link
      BY <3>2, <3>3 DEF ConnState
    <3>5. conn'[k].pc = "registered" /\ conn'[k].gw = conn[k].gw
      BY <1>0, <3>1 DEF ConnState
    <3> QED BY <3>4, <3>5
  <2>3. sessions'[conn[k].gw] = k /\ \A g \in Gateways : g # conn[k].gw => sessions'[g] = sessions[g]
    BY <1>3, <2>1 DEF putSession, TypeInv, SessionsInv
  <2>4. RegisteredHere'
    BY <2>1, <2>2, <2>3 DEF SessionInv, RegisteredHere, Registered
  <2>5. LeavingBroken'
    BY <2>2 DEF SessionInv, LeavingBroken
  <2> QED BY <2>4, <2>5 DEF SessionInv
<1>4. CASE HandshakeFails(k)
  BY <1>4, ConnMoves DEF HandshakeFails, Registered, Gone
<1>5. CASE setDirectory(k)
  <2> DEFINE e == [conn[k] EXCEPT !.pc = "live", !.refresh = "idle"]
  <2>1. e.pc = "live" /\ e.gw = conn[k].gw
    BY <1>0 DEF ConnState
  <2>2. conn' = [conn EXCEPT ![k] = e] /\ sessions' = sessions
    BY <1>5 DEF setDirectory
  <2> HIDE DEF e
  <2> QED BY <2>1, <2>2, ConnMoves
<1> QED BY <1>1, <1>2, <1>3, <1>4, <1>5 DEF Handshake

LEMMA RefreshSession ==
  ASSUME TypeInv, SessionInv, NEW k \in Conns, Refresh(k) PROVE SessionInv'
<1>0. conn[k] \in ConnState
  BY DEF TypeInv, ConnInv, ConnPlaced
<1>1. PICK e : /\ conn' = [conn EXCEPT ![k] = e]
               /\ e.pc = conn[k].pc /\ (Registered(k) => e.gw = conn[k].gw) /\ (e.link => conn[k].link)
  <2>1. CASE RefreshCheck(k)
    <3>1. PICK e : conn' = [conn EXCEPT ![k] = e]
                   /\ \/ e = Unrefreshed(k)
                      \/ e = [conn[k] EXCEPT !.refresh = "off", !.link = FALSE]
                      \/ e = [conn[k] EXCEPT !.refresh = "checked"]
      BY <2>1 DEF RefreshCheck
    <3>2. e.pc = conn[k].pc /\ (Registered(k) => e.gw = conn[k].gw) /\ (e.link => conn[k].link)
      <4>1. CASE e = Gone /\ conn[k].pc = "gone"
        BY <4>1 DEF Gone, Registered
      <4>2. CASE e = [conn[k] EXCEPT !.refresh = "off"]
        BY <1>0, <4>2 DEF ConnState
      <4>3. CASE e = [conn[k] EXCEPT !.refresh = "off", !.link = FALSE]
        BY <1>0, <4>3 DEF ConnState
      <4>4. CASE e = [conn[k] EXCEPT !.refresh = "checked"]
        BY <1>0, <4>4 DEF ConnState
      <4> QED BY <3>1, <4>1, <4>2, <4>3, <4>4 DEF Unrefreshed
    <3> QED BY <3>1, <3>2
  <2>2. CASE RefreshSet(k)
    <3> DEFINE e == [conn[k] EXCEPT !.refresh = "idle"]
    <3>1. conn' = [conn EXCEPT ![k] = e]
      BY <1>0, <2>2 DEF RefreshSet, TypeInv, ConnInv
    <3>2. e.pc = conn[k].pc /\ e.gw = conn[k].gw /\ e.link = conn[k].link
      BY <1>0 DEF ConnState
    <3> HIDE DEF e
    <3> QED BY <3>1, <3>2
  <2> QED BY <2>1, <2>2 DEF Refresh
<1>2. e.pc \in {"clearing", "dropping"} => ~ e.link
  BY <1>1 DEF SessionInv, LeavingBroken
<1>3. sessions' = sessions
  BY DEF Refresh, RefreshCheck, RefreshSet
<1> QED BY <1>1, <1>2, <1>3, ConnMoves DEF Registered

LEMMA ExitSession ==
  ASSUME TypeInv, SessionInv, NEW k \in Conns, Exit(k) \/ LinkBreaks(k) PROVE SessionInv'
<1>0. conn[k] \in ConnState /\ ConnPlaced(conn[k])
  BY DEF TypeInv, ConnInv, ConnPlaced
<1>1. CASE ReadFails(k)
  <2> DEFINE e == [conn[k] EXCEPT !.pc = "clearing", !.saw = (directory = Record(k))]
  <2>1. e.pc = "clearing" /\ e.gw = conn[k].gw /\ ~ e.link
    BY <1>0, <1>1 DEF ReadFails, ConnState
  <2>2. conn' = [conn EXCEPT ![k] = e] /\ sessions' = sessions
    BY <1>1 DEF ReadFails
  <2> HIDE DEF e
  <2> QED BY <2>1, <2>2, ConnMoves
<1>2. CASE clearDirectory(k)
  <2>0. ~ conn[k].link
    BY <1>2 DEF clearDirectory, SessionInv, LeavingBroken
  <2> DEFINE e == [conn[k] EXCEPT !.pc = "dropping"]
  <2>1. e.pc = "dropping" /\ e.gw = conn[k].gw /\ ~ e.link
    BY <1>0, <2>0 DEF ConnState
  <2>2. conn' = [conn EXCEPT ![k] = e] /\ sessions' = sessions
    BY <1>0, <1>2 DEF clearDirectory, TypeInv, ConnInv
  <2> HIDE DEF e
  <2> QED BY <2>1, <2>2, ConnMoves
<1>3. CASE dropSession(k)
  <2>1. conn[k].gw \in Gateways
    BY <1>0, <1>3 DEF dropSession, ConnPlaced
  <2>2. conn'[k].pc = "gone" /\ \A j \in Conns : j # k => conn'[j] = conn[j]
    BY <1>0, <1>3 DEF dropSession, Done, Gone, ConnState, TypeInv, ConnInv
  <2>3. \A g \in Gateways : sessions'[g] = sessions[g] \/ sessions'[g] = None
    BY <1>3, <2>1 DEF dropSession, DropOwn, TypeInv, SessionsInv
  <2>4. \A g \in Gateways : sessions'[g] # k
    BY <1>3, <2>1, TunnelAssumption DEF dropSession, DropOwn, TypeInv, SessionsInv, SessionInv, RegisteredHere
  <2>5. RegisteredHere'
    BY <2>2, <2>3, <2>4, TunnelAssumption DEF SessionInv, RegisteredHere, Registered
  <2>6. LeavingBroken'
    BY <2>2 DEF SessionInv, LeavingBroken
  <2> QED BY <2>5, <2>6 DEF SessionInv
<1>4. CASE LinkBreaks(k)
  <2> DEFINE e == [conn[k] EXCEPT !.link = FALSE]
  <2>1. e.pc = conn[k].pc /\ e.gw = conn[k].gw /\ ~ e.link
    BY <1>0 DEF ConnState
  <2>2. conn' = [conn EXCEPT ![k] = e] /\ sessions' = sessions
    BY <1>0, <1>4 DEF LinkBreaks, TypeInv, ConnInv
  <2> HIDE DEF e
  <2> QED BY <2>1, <2>2, ConnMoves DEF Registered
<1> QED BY <1>1, <1>2, <1>3, <1>4 DEF Exit

LEMMA RestartSession ==
  ASSUME TypeInv, SessionInv, ClientRestarts \/ \E g \in Gateways : GatewayRestarts(g)
  PROVE  SessionInv'
<1>1. CASE ClientRestarts
  <2>1. client \in Conns /\ conn[client] \in ConnState
    BY <1>1 DEF ClientRestarts, TypeInv, ClientInv, ConnInv, ConnPlaced
  <2> DEFINE e == [conn[client] EXCEPT !.link = FALSE]
  <2>2. e.pc = conn[client].pc /\ e.gw = conn[client].gw /\ ~ e.link
    BY <2>1 DEF ConnState
  <2>3. conn' = [conn EXCEPT ![client] = e] /\ sessions' = sessions
    BY <1>1, <2>1 DEF ClientRestarts, TypeInv, ConnInv
  <2> HIDE DEF e
  <2> QED BY <2>1, <2>2, <2>3, ConnMoves DEF Registered
<1>2. ASSUME NEW g \in Gateways, GatewayRestarts(g) PROVE SessionInv'
  <2>1. /\ sessions'[g] = None /\ \A h \in Gateways : h # g => sessions'[h] = sessions[h]
        /\ \A k \in Conns : conn'[k] = IF conn[k].gw = g THEN Gone ELSE conn[k]
    BY <1>2 DEF GatewayRestarts, TypeInv, SessionsInv
  <2>2. RegisteredHere'
    BY <2>1, TunnelAssumption DEF SessionInv, RegisteredHere, Registered
  <2>3. LeavingBroken'
    BY <2>1 DEF SessionInv, LeavingBroken, Gone
  <2> QED BY <2>2, <2>3 DEF SessionInv
<1> QED BY <1>1, <1>2

\* Everything else leaves connections and sessions alone.
LEMMA Elsewhere ==
  ASSUME UNCHANGED <<conn, sessions>> PROVE SessionInv => SessionInv'
  BY DEF SessionInv, RegisteredHere, LeavingBroken, Registered

\* The steps that change neither connections nor sessions.
Apart ==
    \/ RecordExpires \/ ClientNotices \/ Revoke
    \/ \E k \in Conns : \E f \in up[k] : DispatchResult(k, f)
    \/ \E c \in Calls : GatewayStep(c) \/ DeviceStep(c) \/ CallerCrashes(c)
    \/ \E t \in Tasks : Request(t) \/ finishTask(t)
    \/ UNCHANGED vars

LEMMA ApartUnchanged == Apart => UNCHANGED <<conn, sessions>>
  BY DEF Apart, RecordExpires, ClientNotices, Revoke, DispatchResult, GatewayStep, DeviceStep, CallerCrashes,
     CheckEnabled, Forward, RouteLocal, SendCommand, TakeResult, LeaveUnsent, Leave, StartCommand,
     CancelCommand, Apply, Finish, Request, finishTask, conns, vars

LEMMA SessionStep == TypeInv /\ SessionInv /\ [Next]_vars => SessionInv'
<1> SUFFICES ASSUME TypeInv, SessionInv, [Next]_vars PROVE SessionInv'
  OBVIOUS
<1>1. CASE \E k \in Conns : Dial(k) \/ Handshake(k) \/ Refresh(k) \/ Exit(k) \/ LinkBreaks(k)
  BY <1>1, HandshakeSession, RefreshSession, ExitSession
<1>2. CASE ClientRestarts \/ \E g \in Gateways : GatewayRestarts(g)
  BY <1>2, RestartSession
<1>3. CASE Apart
  BY <1>3, ApartUnchanged, Elsewhere
<1> QED BY <1>1, <1>2, <1>3 DEF Next, Apart

\* No step unregisters a session whose link holds.
KeepsRegistration ==
    \A g \in Gateways : sessions[g] # None /\ sessions'[g] = None => ~ conn'[sessions[g]].link

LEMMA KeepStep == TypeInv /\ SessionInv /\ [Next]_vars => KeepsRegistration
<1> SUFFICES ASSUME TypeInv, SessionInv, [Next]_vars,
                    NEW g \in Gateways, sessions[g] # None, sessions'[g] = None
             PROVE  ~ conn'[sessions[g]].link
  BY DEF KeepsRegistration
<1> DEFINE j == sessions[g]
<1>0. j \in Conns /\ conn[j].gw = g /\ sessions' # sessions /\ conn[j] \in ConnState
  BY DEF TypeInv, SessionsInv, SessionInv, RegisteredHere, ConnInv, ConnPlaced
<1>1. CASE \E k \in Conns : dropSession(k)
  <2>1. PICK k \in Conns : dropSession(k)
    BY <1>1
  <2>2. conn[k].gw = g /\ k = j
    BY <2>1, <1>0 DEF dropSession, DropOwn, TypeInv, SessionsInv
  <2>3. ~ conn[j].link
    BY <2>1, <2>2 DEF dropSession, SessionInv, LeavingBroken
  <2> QED BY <1>0, <2>1, <2>2, <2>3 DEF dropSession, Done, Gone, ConnState, TypeInv, ConnInv
<1>2. CASE \E h \in Gateways : GatewayRestarts(h)
  <2>1. PICK h \in Gateways : GatewayRestarts(h)
    BY <1>2
  <2>2. h = g
    BY <2>1 DEF GatewayRestarts, TypeInv, SessionsInv
  <2> QED BY <1>0, <2>1, <2>2 DEF GatewayRestarts, Gone
<1>3. CASE \E k \in Conns : putSession(k)
  BY <1>3, TunnelAssumption DEF putSession, TypeInv, SessionsInv
<1> QED
  BY <1>0, <1>1, <1>2, <1>3, ApartUnchanged DEF Next, Apart, Dial, Handshake, CheckDevice, HandshakeFails,
     setDirectory, Refresh, RefreshCheck, RefreshSet, Exit, ReadFails, clearDirectory, LinkBreaks,
     ClientRestarts

\* The exit of an older connection never unregisters the session that replaced it
\* (the comparison in dropSession), for any numbers of gateways and connections.
THEOREM RegistrationCorrect == Spec => RegistrationKept
<1>1. Spec => []TypeInv
  BY InitType, TypeStep, PTL DEF Spec
<1>2. Spec => [](TypeInv /\ SessionInv)
  BY <1>1, SessionInit, SessionStep, PTL DEF Spec
<1>3. KeepsRegistration =>
        \A g \in Gateways : sessions[g] # None /\ sessions'[g] = None => ~ conn'[sessions[g]].link
  BY DEF KeepsRegistration
<1> QED BY <1>2, <1>3, KeepStep, PTL DEF Spec, RegistrationKept
-----------------------------------------------------------------------------
(* NoOrphans.  What works on a command is wanted or told to stop; it is not  *)
(* enough to say so of ended calls, because a waiting call ends in one step. *)
(* A call that ends with a result needs that its command has ended, one that *)
(* ends with its gateway that the connection of the call ends there too.     *)

\* A result, on its way or handed over, is that of a command that has ended.
AnswersEnded ==
    /\ \A k \in Conns : \A f \in up[k] : run[f.call].pc = "ended"
    /\ \A c \in Calls : call[c].box # None => run[c].pc = "ended"

\* The session a call has found is one of the gateway that handles the call.
Settled(c) ==
    call[c].pc \in {"routed", "waiting"} =>
        /\ call[c].conn \in Conns
        /\ conn[call[c].conn].link => conn[call[c].conn].gw = call[c].gw

\* The device works on c, or will: the command came, or is coming, from k.
Working(c, k) ==
    \/ run[c].pc = "running" /\ run[c].conn = k /\ ~ run[c].cancelled
    \/ CommandFrame(c) \in down[k]

Wanted(c, k) ==
    \/ call[c].pc = "waiting" /\ call[c].conn = k
    \/ CancelFrame(c) \in down[k]

WorkWanted == \A c \in Calls : \A k \in Conns : conn[k].link /\ Working(c, k) => Wanted(c, k)

OrphanInv == AnswersEnded /\ (\A c \in Calls : Settled(c)) /\ WorkWanted

LEMMA OrphanInit == Init => OrphanInv
  BY DEF Init, OrphanInv, AnswersEnded, Settled, WorkWanted, Working, IdleCall, IdleRun, Gone

\* A step that moves no call on and connects nothing: links may break, frames
\* may be lost with them, commands may start, stop and answer.
LEMMA OrphanQuiet ==
  ASSUME TypeInv, OrphanInv,
         \A k \in Conns : conn'[k].link => conn[k].link /\ conn'[k].gw = conn[k].gw,
         \A c \in Calls : /\ call'[c].pc = call[c].pc /\ call'[c].conn = call[c].conn
                          /\ call'[c].gw = call[c].gw
                          /\ call'[c].box = call[c].box \/ run'[c].pc = "ended",
         \A c \in Calls : run[c].pc = "ended" => run'[c].pc = "ended",
         \A k \in Conns : \A f \in up'[k] : f \in up[k] \/ run'[f.call].pc = "ended",
         \A c \in Calls : \A k \in Conns :
             conn'[k].link /\ Working(c, k)' =>
                 /\ Working(c, k)
                 /\ CancelFrame(c) \in down[k] => CancelFrame(c) \in down'[k]
  PROVE  OrphanInv'
<1>1. AnswersEnded'
  <2>1. \A k \in Conns : \A f \in up'[k] : run'[f.call].pc = "ended"
    <3> SUFFICES ASSUME NEW k \in Conns, NEW f \in up'[k], f \in up[k]
                 PROVE  run'[f.call].pc = "ended"
      OBVIOUS
    <3> QED BY DEF OrphanInv, AnswersEnded, TypeInv, UpInv, Answers
  <2>2. \A c \in Calls : call'[c].box # None => run'[c].pc = "ended"
    BY DEF OrphanInv, AnswersEnded
  <2> QED BY <2>1, <2>2 DEF AnswersEnded
<1>2. \A c \in Calls : Settled(c)'
  BY DEF OrphanInv, Settled
<1>3. WorkWanted'
  <2> SUFFICES ASSUME NEW c \in Calls, NEW k \in Conns, conn'[k].link, Working(c, k)'
               PROVE  Wanted(c, k)'
    BY DEF WorkWanted
  <2>1. Wanted(c, k)
    BY DEF OrphanInv, WorkWanted
  <2> QED BY <2>1 DEF Wanted
<1> QED BY <1>1, <1>2, <1>3 DEF OrphanInv

\* A step of one call.
LEMMA OrphanCall ==
  ASSUME TypeInv, OrphanInv, conn' = conn, run' = run, up' = up, NEW c \in Calls,
         \A d \in Calls \ {c} :
             /\ call'[d] = call[d]
             /\ \A k \in Conns : /\ CommandFrame(d) \in down'[k] => CommandFrame(d) \in down[k]
                                 /\ CancelFrame(d) \in down[k] => CancelFrame(d) \in down'[k],
         call'[c].box # None => run[c].pc = "ended",
         Settled(c)',
         \A k \in Conns : conn[k].link /\ Working(c, k)' => Wanted(c, k)'
  PROVE  OrphanInv'
<1>1. AnswersEnded'
  BY DEF OrphanInv, AnswersEnded
<1>2. \A d \in Calls : Settled(d)'
  BY DEF OrphanInv, Settled
<1>3. WorkWanted'
  BY DEF OrphanInv, WorkWanted, Working, Wanted
<1> QED BY <1>1, <1>2, <1>3 DEF OrphanInv

LEMMA DialOrphan ==
  ASSUME TypeInv, OrphanInv, NEW k \in Conns, Dial(k) PROVE OrphanInv'
<1>1. /\ call' = call /\ run' = run /\ down'[k] = {} /\ up'[k] = {}
      /\ \A j \in Conns \ {k} : conn'[j] = conn[j] /\ down'[j] = down[j] /\ up'[j] = up[j]
      /\ \A c \in Calls : call[c].conn # k /\ run[c].conn # k
  BY DEF Dial, Reusable, TypeInv, ConnInv, DownInv, UpInv
<1>2. AnswersEnded'
  BY <1>1 DEF OrphanInv, AnswersEnded
<1>3. \A c \in Calls : Settled(c)'
  BY <1>1 DEF OrphanInv, Settled
<1>4. WorkWanted'
  BY <1>1 DEF OrphanInv, WorkWanted, Working, Wanted
<1> QED BY <1>2, <1>3, <1>4 DEF OrphanInv

\* Only Dial makes a link; every other step of a connection keeps its gateway.
LEMMA LinksKept ==
  ASSUME TypeInv, NEW k \in Conns, Handshake(k) \/ Refresh(k) \/ Exit(k) \/ LinkBreaks(k)
  PROVE  \A j \in Conns : conn'[j].link => conn[j].link /\ conn'[j].gw = conn[j].gw
<1>0. DOMAIN conn = Conns /\ (\A j \in Conns : conn[j] \in ConnState) /\ ~ Gone.link
  BY DEF TypeInv, ConnInv, ConnPlaced, Gone
<1>1. CASE putSession(k)
  <2>1. \A j \in Conns : \/ conn'[j] = conn[j]
                         \/ conn'[j] = [conn[j] EXCEPT !.link = FALSE]
                         \/ conn'[j] = [conn[j] EXCEPT !.pc = "registered"]
    BY <1>1 DEF putSession, Replace
  <2> SUFFICES ASSUME NEW j \in Conns PROVE conn'[j].link => conn[j].link /\ conn'[j].gw = conn[j].gw
    OBVIOUS
  <2>2. CASE conn'[j] = [conn[j] EXCEPT !.link = FALSE]
    BY <1>0, <2>2 DEF ConnState
  <2>3. CASE conn'[j] = [conn[j] EXCEPT !.pc = "registered"]
    BY <1>0, <2>3 DEF ConnState
  <2> QED BY <2>1, <2>2, <2>3
<1>2. CASE ~ putSession(k)
  <2>1. PICK e : conn' = [conn EXCEPT ![k] = e] /\ (e.link => conn[k].link /\ e.gw = conn[k].gw)
    <3>1. CASE CheckDevice(k)
      <4> DEFINE e == [conn[k] EXCEPT !.pc = "checked"]
      <4>1. e.link = conn[k].link /\ e.gw = conn[k].gw
        BY <1>0 DEF ConnState
      <4>2. conn' = [conn EXCEPT ![k] = e] \/ conn' = [conn EXCEPT ![k] = Gone]
        BY <3>1 DEF CheckDevice
      <4> HIDE DEF e
      <4> QED BY <1>0, <4>1, <4>2
    <3>2. CASE HandshakeFails(k)
      BY <1>0, <3>2 DEF HandshakeFails
    <3>3. CASE setDirectory(k)
      <4> DEFINE e == [conn[k] EXCEPT !.pc = "live", !.refresh = "idle"]
      <4>1. e.link = conn[k].link /\ e.gw = conn[k].gw /\ conn' = [conn EXCEPT ![k] = e]
        BY <1>0, <3>3 DEF setDirectory, ConnState
      <4> HIDE DEF e
      <4> QED BY <4>1
    <3>4. CASE RefreshCheck(k)
      <4>1. PICK e : /\ conn' = [conn EXCEPT ![k] = e]
                     /\ \/ e = Gone
                        \/ e = [conn[k] EXCEPT !.refresh = "off"]
                        \/ e = [conn[k] EXCEPT !.refresh = "off", !.link = FALSE]
                        \/ e = [conn[k] EXCEPT !.refresh = "checked"]
        BY <3>4 DEF RefreshCheck, Unrefreshed
      <4>2. e.link => conn[k].link /\ e.gw = conn[k].gw
        BY <1>0, <4>1 DEF ConnState
      <4> QED BY <4>1, <4>2
    <3>5. CASE RefreshSet(k)
      <4> DEFINE e == [conn[k] EXCEPT !.refresh = "idle"]
      <4>1. e.link = conn[k].link /\ e.gw = conn[k].gw /\ conn' = [conn EXCEPT ![k] = e]
        BY <1>0, <3>5 DEF RefreshSet, ConnState
      <4> HIDE DEF e
      <4> QED BY <4>1
    <3>6. CASE ReadFails(k)
      <4> DEFINE e == [conn[k] EXCEPT !.pc = "clearing", !.saw = (directory = Record(k))]
      <4>1. e.link = conn[k].link /\ e.gw = conn[k].gw /\ conn' = [conn EXCEPT ![k] = e]
        BY <1>0, <3>6 DEF ReadFails, ConnState
      <4> HIDE DEF e
      <4> QED BY <4>1
    <3>7. CASE clearDirectory(k)
      <4> DEFINE e == [conn[k] EXCEPT !.pc = "dropping"]
      <4>1. e.link = conn[k].link /\ e.gw = conn[k].gw /\ conn' = [conn EXCEPT ![k] = e]
        BY <1>0, <3>7 DEF clearDirectory, ConnState
      <4> HIDE DEF e
      <4> QED BY <4>1
    <3>8. CASE dropSession(k)
      <4> DEFINE e == [conn[k] EXCEPT !.pc = "gone", !.saw = FALSE]
      <4>1. e.link = conn[k].link /\ e.gw = conn[k].gw
        BY <1>0 DEF ConnState
      <4>2. conn' = [conn EXCEPT ![k] = e] \/ conn' = [conn EXCEPT ![k] = Gone]
        BY <3>8 DEF dropSession, Done
      <4> HIDE DEF e
      <4> QED BY <1>0, <4>1, <4>2
    <3>9. CASE LinkBreaks(k)
      <4> DEFINE e == [conn[k] EXCEPT !.link = FALSE]
      <4>1. ~ e.link /\ conn' = [conn EXCEPT ![k] = e]
        BY <1>0, <3>9 DEF LinkBreaks, ConnState
      <4> HIDE DEF e
      <4> QED BY <4>1
    <3> QED
      BY <1>2, <3>1, <3>2, <3>3, <3>4, <3>5, <3>6, <3>7, <3>8, <3>9 DEF Handshake, Refresh, Exit
  <2>2. conn'[k] = e /\ \A j \in Conns \ {k} : conn'[j] = conn[j]
    BY <2>1 DEF TypeInv, ConnInv
  <2> QED BY <2>1, <2>2
<1> QED BY <1>1, <1>2

LEMMA ConnOrphan ==
  ASSUME TypeInv, OrphanInv, NEW k \in Conns, Handshake(k) \/ Refresh(k) \/ Exit(k) \/ LinkBreaks(k)
  PROVE  OrphanInv'
<1>1. call' = call /\ run' = run /\ down' = down
  BY DEF Handshake, CheckDevice, putSession, HandshakeFails, setDirectory, Refresh, RefreshCheck,
     RefreshSet, Exit, ReadFails, clearDirectory, dropSession, LinkBreaks
<1>2. \A j \in Conns : up'[j] \subseteq up[j]
  BY DEF Handshake, CheckDevice, putSession, HandshakeFails, setDirectory, Refresh, RefreshCheck,
     RefreshSet, Exit, ReadFails, clearDirectory, dropSession, LinkBreaks, TypeInv, UpInv
<1> QED BY <1>1, <1>2, LinksKept, OrphanQuiet DEF Working

LEMMA SurroundingsOrphan ==
  ASSUME TypeInv, OrphanInv, RecordExpires \/ ClientNotices \/ ClientRestarts \/ Revoke
  PROVE  OrphanInv'
<1>1. CASE RecordExpires \/ Revoke
  <2>1. call' = call /\ run' = run /\ down' = down /\ up' = up /\ conn' = conn
    BY <1>1 DEF RecordExpires, Revoke, conns
  <2> QED BY <2>1, OrphanQuiet DEF Working
<1>2. CASE ClientNotices
  <2>1. /\ call' = call /\ run' = run /\ up' = up /\ conn' = conn
        /\ client \in Conns /\ ~ conn[client].link
        /\ \A k \in Conns \ {client} : down'[k] = down[k]
    BY <1>2 DEF ClientNotices, TypeInv, DownInv, ClientInv
  <2> QED BY <2>1, OrphanQuiet DEF Working
<1>3. CASE ClientRestarts
  <2>1. /\ call' = call /\ up' = up /\ client \in Conns
        /\ \A k \in Conns \ {client} : down'[k] = down[k] /\ conn'[k] = conn[k]
        /\ conn'[client] = [conn[client] EXCEPT !.link = FALSE]
        /\ \A c \in Calls : run[c].pc # "running" => run'[c] = run[c]
    BY <1>3 DEF ClientRestarts, TypeInv, DownInv, ClientInv, ConnInv
  <2>2. ~ conn'[client].link
    BY <2>1 DEF TypeInv, ConnInv, ConnPlaced, ConnState
  <2>3. \A c \in Calls : run[c].pc = "running" => run'[c].pc = "ended"
    BY <1>3 DEF ClientRestarts, TypeInv, RunInv, RunState
  <2> QED BY <2>1, <2>2, <2>3, OrphanQuiet DEF Working
<1> QED BY <1>1, <1>2, <1>3

LEMMA GatewayRestartOrphan ==
  ASSUME TypeInv, OrphanInv, NEW g \in Gateways, GatewayRestarts(g) PROVE OrphanInv'
<1>1. /\ run' = run /\ down' = down
      /\ \A k \in Conns : up'[k] \subseteq up[k]
      /\ \A k \in Conns : conn'[k] = IF conn[k].gw = g THEN Gone ELSE conn[k]
      /\ \A c \in Calls : call'[c] = IF call[c].gw = g THEN EndedWith(c, "error") ELSE call[c]
  BY DEF GatewayRestarts
<1>2. ~ Gone.link
  BY DEF Gone
<1>3. \A c \in Calls : EndedWith(c, "error").pc = "ended" /\ EndedWith(c, "error").box = None
  BY DEF EndedWith, IdleCall
<1>4. AnswersEnded'
  BY <1>1, <1>3 DEF OrphanInv, AnswersEnded
<1>5. \A c \in Calls : Settled(c)'
  BY <1>1, <1>2, <1>3 DEF OrphanInv, Settled
<1>6. WorkWanted'
  <2> SUFFICES ASSUME NEW c \in Calls, NEW k \in Conns, conn'[k].link, Working(c, k)'
               PROVE  Wanted(c, k)'
    BY DEF WorkWanted
  <2>1. conn[k].link /\ conn[k].gw # g /\ Working(c, k)
    BY <1>1, <1>2 DEF Working
  <2>2. Wanted(c, k)
    BY <2>1 DEF OrphanInv, WorkWanted
  <2>3. CASE call[c].pc = "waiting" /\ call[c].conn = k
    <3>1. call[c].gw # g
      BY <2>1, <2>3 DEF OrphanInv, Settled
    <3> QED BY <1>1, <2>3, <3>1 DEF Wanted
  <2> QED BY <1>1, <2>2, <2>3 DEF Wanted
<1> QED BY <1>4, <1>5, <1>6 DEF OrphanInv

LEMMA DispatchOrphan ==
  ASSUME TypeInv, OrphanInv, NEW k \in Conns, NEW f \in up[k], DispatchResult(k, f)
  PROVE  OrphanInv'
<1>1. conn' = conn /\ run' = run /\ down' = down /\ \A j \in Conns : up'[j] \subseteq up[j]
  BY DEF DispatchResult, conns, TypeInv, UpInv
<1>2. ASSUME NEW c \in Calls
      PROVE  /\ call'[c].pc = call[c].pc /\ call'[c].conn = call[c].conn
             /\ call'[c].gw = call[c].gw
             /\ call'[c].box = call[c].box \/ run'[c].pc = "ended"
  <2>1. CASE WaitsFor(c, k, f) /\ call[c].box = None
    <3>1. run[c].pc = "ended"
      BY <2>1 DEF WaitsFor, OrphanInv, AnswersEnded
    <3>2. call'[c] = [call[c] EXCEPT !.box = f.result] /\ call[c] \in CallState
      BY <2>1 DEF DispatchResult, TypeInv, CallInv, CallPlaced
    <3> QED BY <1>1, <3>1, <3>2 DEF CallState
  <2> QED BY <2>1 DEF DispatchResult
<1> QED BY <1>1, <1>2, OrphanQuiet DEF Working

LEMMA DeviceOrphan ==
  ASSUME TypeInv, AnswerInv, OrphanInv, NEW c \in Calls, DeviceStep(c) PROVE OrphanInv'
<1>0. /\ conn' = conn /\ call' = call /\ run[c] \in RunState
      /\ \A d \in Calls \ {c} : run'[d] = run[d]
  BY DEF DeviceStep, StartCommand, CancelCommand, Apply, Finish, conns, TypeInv, RunInv
<1>1. CASE StartCommand(c)
  <2>1. /\ client \in Conns /\ CommandFrame(c) \in down[client] /\ run[c].pc = "none"
        /\ up' = up /\ run'[c] = [run[c] EXCEPT !.pc = "running", !.conn = client]
        /\ \A k \in Conns : down'[k] \subseteq down[k] /\ down[k] \subseteq down'[k] \cup {CommandFrame(c)}
    BY <1>1 DEF StartCommand, TypeInv, ClientInv, DownInv, RunInv, AnswerInv, SentOnce
  <2>2. run'[c].pc = "running" /\ run'[c].conn = client
    BY <1>0, <2>1 DEF RunState
  <2>3. \A d \in Calls : CancelFrame(d) # CommandFrame(c)
    BY DEF CancelFrame, CommandFrame
  <2> QED BY <1>0, <2>1, <2>2, <2>3, OrphanQuiet DEF Working
<1>2. CASE CancelCommand(c)
  <2>1. /\ client \in Conns /\ CommandFrame(c) \notin down[client] /\ up' = up
        /\ \A k \in Conns \ {client} : down'[k] = down[k]
        /\ down'[client] = down[client] \ {CancelFrame(c)}
        /\ run'[c] = [run[c] EXCEPT !.cancelled =
                          @ \/ (run[c].pc = "running" /\ run[c].conn = client)]
    BY <1>2 DEF CancelCommand, TypeInv, ClientInv, DownInv, RunInv
  <2>2. /\ run'[c].pc = run[c].pc /\ run'[c].conn = run[c].conn
        /\ run[c].cancelled \/ (run[c].pc = "running" /\ run[c].conn = client) => run'[c].cancelled
    BY <1>0, <2>1 DEF RunState
  <2>3. \A d \in Calls \ {c} : CancelFrame(d) # CancelFrame(c)
    BY DEF CancelFrame
  <2>4. \A k \in Conns : Working(c, k)' => Working(c, k) /\ k # client
    BY <2>1, <2>2 DEF Working
  <2>5. ASSUME NEW d \in Calls, NEW k \in Conns, Working(d, k)'
        PROVE  /\ Working(d, k)
               /\ CancelFrame(d) \in down[k] => CancelFrame(d) \in down'[k]
    <3>1. CASE d = c
      BY <2>1, <2>4, <2>5, <3>1
    <3>2. CASE d # c
      <4>1. Working(d, k)
        BY <1>0, <2>1, <2>5, <3>2 DEF Working
      <4> QED BY <2>1, <2>3, <3>2, <4>1
    <3> QED BY <3>1, <3>2
  <2> QED BY <1>0, <2>1, <2>2, <2>5, OrphanQuiet
<1>3. CASE Apply(c)
  <2>1. down' = down /\ up' = up /\ run'[c] = [run[c] EXCEPT !.applied = TRUE]
    BY <1>3 DEF Apply, TypeInv, RunInv
  <2>2. run'[c].pc = run[c].pc /\ run'[c].conn = run[c].conn /\ run'[c].cancelled = run[c].cancelled
    BY <1>0, <2>1 DEF RunState
  <2> QED BY <1>0, <2>1, <2>2, OrphanQuiet DEF Working
<1>4. CASE Finish(c)
  <2>1. down' = down /\ run[c].pc = "running" /\ run'[c].pc = "ended"
    BY <1>4 DEF Finish, TypeInv, RunInv, RunState
  <2>2. \A k \in Conns : \A f \in up'[k] : f \in up[k] \/ f.call = c
    BY <1>4 DEF Finish, ResultFrame, TypeInv, UpInv
  <2> QED BY <1>0, <2>1, <2>2, OrphanQuiet DEF Working
<1> QED BY <1>1, <1>2, <1>3, <1>4 DEF DeviceStep

\* What the gateway has not sent the device does not work on.
LEMMA UnsentIdle ==
  ASSUME AnswerInv, NEW c \in Calls, Unsent(c)
  PROVE  call[c].box = None /\ run[c].pc = "none" /\ \A k \in Conns : ~ Working(c, k)
  BY DEF AnswerInv, CallsFresh, Working

LEMMA UnsentOrphan ==
  ASSUME TypeInv, AnswerInv, SessionInv, OrphanInv, NEW c \in Calls,
         CheckEnabled(c) \/ Forward(c) \/ RouteLocal(c) \/ LeaveUnsent(c)
  PROVE  OrphanInv'
<1>0. /\ conn' = conn /\ run' = run /\ up' = up /\ down' = down
      /\ call[c].pc \in {"arrived", "enabled"} /\ call[c] \in CallState /\ call[c].gw \in Gateways
      /\ \A d \in Calls \ {c} : call'[d] = call[d]
  BY DEF CheckEnabled, Forward, RouteLocal, LeaveUnsent, EndCall, conns, TypeInv, CallInv, CallPlaced
<1>1. call[c].box = None /\ \A k \in Conns : ~ Working(c, k)'
  BY <1>0, UnsentIdle DEF Unsent, Working
<1>2. PICK e : call' = [call EXCEPT ![c] = e]
               /\ \/ e.pc \in {"ended", "enabled", "arrived"} /\ e.box = None
                  \/ /\ e.pc = "routed" /\ e.box = None /\ e.conn = sessions[call[c].gw]
                     /\ sessions[call[c].gw] # None /\ e.gw = call[c].gw
  <2>1. \A r : EndedWith(c, r).pc = "ended" /\ EndedWith(c, r).box = None
    BY DEF EndedWith, IdleCall
  <2>2. CASE CheckEnabled(c)
    <3> DEFINE e == [call[c] EXCEPT !.pc = "enabled"]
    <3>1. e.pc = "enabled" /\ e.box = None
      BY <1>0, <1>1 DEF CallState
    <3>2. call' = [call EXCEPT ![c] = e] \/ call' = [call EXCEPT ![c] = EndedWith(c, "error")]
      BY <2>2 DEF CheckEnabled, EndCall, TypeInv, CallInv
    <3> HIDE DEF e
    <3> QED BY <2>1, <3>1, <3>2
  <2>3. CASE Forward(c)
    <3> DEFINE e == [call[c] EXCEPT !.pc = "arrived", !.gw = directory.gw]
    <3>1. e.pc = "arrived" /\ e.box = None /\ call' = [call EXCEPT ![c] = e]
      BY <1>0, <1>1, <2>3 DEF Forward, CallState
    <3> HIDE DEF e
    <3> QED BY <3>1
  <2>4. CASE RouteLocal(c)
    <3> DEFINE e == [call[c] EXCEPT !.pc = "routed", !.conn = sessions[call[c].gw]]
    <3>1. e.pc = "routed" /\ e.box = None /\ e.conn = sessions[call[c].gw] /\ e.gw = call[c].gw
      BY <1>0, <1>1 DEF CallState
    <3>2. \/ call' = [call EXCEPT ![c] = e] /\ sessions[call[c].gw] # None
          \/ call' = [call EXCEPT ![c] = EndedWith(c, "error")]
      BY <2>4 DEF RouteLocal, EndCall
    <3> HIDE DEF e
    <3> QED BY <2>1, <3>1, <3>2
  <2>5. CASE LeaveUnsent(c)
    BY <2>1, <2>5 DEF LeaveUnsent, EndCall
  <2> QED BY <2>2, <2>3, <2>4, <2>5
<1>3. call'[c] = e
  BY <1>2 DEF TypeInv, CallInv
<1>4. Settled(c)'
  BY <1>0, <1>2, <1>3 DEF Settled, SessionInv, RegisteredHere, TypeInv, SessionsInv
<1> QED BY <1>0, <1>1, <1>2, <1>3, <1>4, OrphanCall

LEMMA SendOrphan ==
  ASSUME TypeInv, AnswerInv, OrphanInv, NEW c \in Calls, SendCommand(c) PROVE OrphanInv'
<1> DEFINE k == call[c].conn
<1>0. /\ conn' = conn /\ run' = run /\ up' = up /\ call[c].pc = "routed" /\ call[c] \in CallState
      /\ \A d \in Calls \ {c} : call'[d] = call[d]
  BY DEF SendCommand, EndCall, conns, TypeInv, CallInv, CallPlaced
<1>1. call[c].box = None /\ run[c].pc = "none" /\ \A j \in Conns : ~ Working(c, j)
  BY <1>0, UnsentIdle DEF Unsent
<1>2. k \in Conns /\ (conn[k].link => conn[k].gw = call[c].gw)
  BY <1>0 DEF OrphanInv, Settled
<1>3. CASE conn[k].link
  <2>1. /\ down' = [down EXCEPT ![k] = @ \cup {CommandFrame(c)}]
        /\ call'[c] = [call[c] EXCEPT !.pc = "waiting"]
    BY <1>3 DEF SendCommand, TypeInv, CallInv
  <2>2. /\ call'[c].pc = "waiting" /\ call'[c].box = None
        /\ call'[c].conn = k /\ call'[c].gw = call[c].gw
    BY <1>0, <1>1, <2>1 DEF CallState
  <2>3. \A j \in Conns : down[j] \subseteq down'[j] /\ down'[j] \subseteq down[j] \cup {CommandFrame(c)}
    BY <2>1 DEF TypeInv, DownInv
  <2>4. \A d \in Calls \ {c} : CommandFrame(d) # CommandFrame(c)
    BY DEF CommandFrame
  <2>5. Settled(c)'
    BY <1>0, <1>2, <2>2 DEF Settled
  <2>6. \A j \in Conns : Working(c, j)' => Wanted(c, j)'
    <3>1. \A j \in Conns \ {k} : down'[j] = down[j]
      BY <2>1 DEF TypeInv, DownInv
    <3> QED BY <1>0, <1>1, <2>2, <3>1 DEF Working, Wanted
  <2> QED BY <1>0, <2>2, <2>3, <2>4, <2>5, <2>6, OrphanCall
<1>4. CASE ~ conn[k].link
  <2>1. down' = down
    BY <1>4 DEF SendCommand
  <2>2. \/ call'[c] = [call[c] EXCEPT !.pc = "waiting"]
        \/ call'[c] = EndedWith(c, "error")
    BY DEF SendCommand, EndCall, TypeInv, CallInv
  <2>3. /\ call'[c].box = None
        /\ call'[c].pc = "ended" \/ call'[c].conn = k
    <3>1. CASE call'[c] = [call[c] EXCEPT !.pc = "waiting"]
      BY <1>0, <1>1, <3>1 DEF CallState
    <3>2. CASE call'[c] = EndedWith(c, "error")
      BY <3>2 DEF EndedWith, IdleCall
    <3> QED BY <2>2, <3>1, <3>2
  <2>4. Settled(c)'
    BY <1>0, <1>2, <1>4, <2>3 DEF Settled
  <2>5. \A j \in Conns : ~ Working(c, j)'
    BY <1>0, <1>1, <2>1 DEF Working
  <2> QED BY <1>0, <2>1, <2>3, <2>4, <2>5, OrphanCall
<1> QED BY <1>3, <1>4

\* A call that ends with a result leaves nothing behind; one that leaves without
\* sends the cancellation after its command.
LEMMA EndOrphan ==
  ASSUME TypeInv, AnswerInv, OrphanInv, NEW c \in Calls, TakeResult(c) \/ Leave(c)
  PROVE  OrphanInv'
<1>0. /\ conn' = conn /\ run' = run /\ up' = up /\ call[c].pc = "waiting"
      /\ \A d \in Calls \ {c} : call'[d] = call[d]
  BY DEF TakeResult, Leave, EndCall, conns, TypeInv, CallInv
<1>1. call'[c].pc = "ended" /\ call'[c].box = None
  <2>1. \A r : EndedWith(c, r).pc = "ended" /\ EndedWith(c, r).box = None
    BY DEF EndedWith, IdleCall
  <2>2. \E r : call'[c] = EndedWith(c, r)
    BY DEF TakeResult, Leave, EndCall, TypeInv, CallInv
  <2> QED BY <2>1, <2>2
<1>2. Settled(c)'
  BY <1>1 DEF Settled
<1>3. CASE TakeResult(c)
  <2>1. down' = down /\ run[c].pc = "ended"
    BY <1>3 DEF TakeResult, OrphanInv, AnswersEnded
  <2>2. \A k \in Conns : ~ Working(c, k)'
    BY <1>0, <2>1 DEF Working, AnswerInv, SentOnce
  <2> QED BY <1>0, <1>1, <1>2, <2>1, <2>2, OrphanCall
<1>4. CASE Leave(c)
  <2>1. /\ call[c].conn \in Conns /\ down' = SendCancel(c)
        /\ \A d \in Calls : CommandFrame(d) # CancelFrame(c)
    BY <1>0, <1>4 DEF Leave, OrphanInv, Settled, CommandFrame, CancelFrame
  <2>2. /\ \A k \in Conns : down[k] \subseteq down'[k] /\ down'[k] \subseteq down[k] \cup {CancelFrame(c)}
        /\ conn[call[c].conn].link => CancelFrame(c) \in down'[call[c].conn]
    BY <2>1 DEF SendCancel, TypeInv, DownInv
  <2>3. \A k \in Conns : conn[k].link /\ Working(c, k)' => Wanted(c, k)'
    <3> SUFFICES ASSUME NEW k \in Conns, conn[k].link, Working(c, k)'
                 PROVE  CancelFrame(c) \in down'[k]
      BY DEF Wanted
    <3>1. Working(c, k)
      BY <1>0, <2>1, <2>2 DEF Working
    <3> QED BY <2>2, <3>1 DEF OrphanInv, WorkWanted, Wanted
  <2> QED BY <1>0, <1>1, <1>2, <2>1, <2>2, <2>3, OrphanCall
<1> QED BY <1>3, <1>4

LEMMA CallerOrphan ==
  ASSUME TypeInv, OrphanInv, NEW c \in Calls, CallerCrashes(c) PROVE OrphanInv'
<1>1. /\ conn' = conn /\ run' = run /\ up' = up /\ down' = down
      /\ \A d \in Calls \ {c} : call'[d] = call[d]
      /\ call'[c] = [call[c] EXCEPT !.result = "crashed"]
  BY DEF CallerCrashes, conns, TypeInv, CallInv
<1>2. /\ call'[c].pc = call[c].pc /\ call'[c].conn = call[c].conn
      /\ call'[c].gw = call[c].gw /\ call'[c].box = call[c].box
  BY <1>1 DEF TypeInv, CallInv, CallPlaced, CallState
<1> QED BY <1>1, <1>2, OrphanQuiet DEF Working

LEMMA RequestOrphan ==
  ASSUME TypeInv, AnswerInv, OrphanInv, NEW t \in Tasks, Request(t) PROVE OrphanInv'
<1>1. task[t].attempts \in Nat /\ task[t].attempts < MaxAttempts /\ MaxAttempts \in Nat
  BY TunnelAssumption DEF Request, TypeInv, TaskInv
<1>2. PICK c \in Calls : c = <<t, task[t].attempts + 1>>
  <2>1. <<t, task[t].attempts + 1>> \in Calls
    BY <1>1 DEF Calls
  <2> QED BY <2>1
<1>3. PICK g \in Gateways : call' = [call EXCEPT ![c] = [@ EXCEPT !.pc = "arrived", !.gw = g]]
  BY <1>2 DEF Request
<1>4. call[c].pc = "idle"
  BY <1>1, <1>2 DEF AnswerInv, CallsFresh
<1>5. /\ conn' = conn /\ run' = run /\ up' = up /\ down' = down
      /\ \A d \in Calls \ {c} : call'[d] = call[d]
      /\ call'[c] = [call[c] EXCEPT !.pc = "arrived", !.gw = g]
  BY <1>3 DEF Request, conns, TypeInv, CallInv
<1>6. call[c].box = None /\ \A k \in Conns : ~ Working(c, k)'
  BY <1>4, <1>5, UnsentIdle DEF Unsent, Working
<1>7. call'[c].pc = "arrived" /\ call'[c].box = None
  BY <1>5, <1>6 DEF TypeInv, CallInv, CallPlaced, CallState
<1>8. Settled(c)'
  BY <1>7 DEF Settled
<1> QED BY <1>5, <1>6, <1>7, <1>8, OrphanCall

LEMMA finishTaskOrphan ==
  ASSUME TypeInv, OrphanInv, NEW t \in Tasks, finishTask(t) PROVE OrphanInv'
<1>1. conn' = conn /\ run' = run /\ up' = up /\ down' = down /\ call' = call
  BY DEF finishTask, conns
<1> QED BY <1>1, OrphanQuiet DEF Working

LEMMA OrphanStep == TypeInv /\ AnswerInv /\ SessionInv /\ OrphanInv /\ [Next]_vars => OrphanInv'
<1> SUFFICES ASSUME TypeInv, AnswerInv, SessionInv, OrphanInv, [Next]_vars PROVE OrphanInv'
  OBVIOUS
<1>1. CASE \E k \in Conns : Dial(k) \/ Handshake(k) \/ Refresh(k) \/ Exit(k) \/ LinkBreaks(k)
  BY <1>1, DialOrphan, ConnOrphan
<1>2. CASE \E k \in Conns : \E f \in up[k] : DispatchResult(k, f)
  BY <1>2, DispatchOrphan
<1>3. CASE RecordExpires \/ ClientNotices \/ ClientRestarts \/ Revoke
  BY <1>3, SurroundingsOrphan
<1>4. CASE \E g \in Gateways : GatewayRestarts(g)
  BY <1>4, GatewayRestartOrphan
<1>5. CASE \E c \in Calls : GatewayStep(c) \/ DeviceStep(c) \/ CallerCrashes(c)
  BY <1>5, UnsentOrphan, SendOrphan, EndOrphan, DeviceOrphan, CallerOrphan DEF GatewayStep
<1>6. CASE \E t \in Tasks : Request(t) \/ finishTask(t)
  BY <1>6, RequestOrphan, finishTaskOrphan
<1>7. CASE UNCHANGED vars
  <2>1. conn' = conn /\ run' = run /\ up' = up /\ down' = down /\ call' = call
    BY <1>7 DEF vars, conns
  <2> QED BY <2>1, OrphanQuiet DEF Working
<1> QED BY <1>1, <1>2, <1>3, <1>4, <1>5, <1>6, <1>7 DEF Next

\* A command nobody waits for any more is cancelled, or its cancellation is on the
\* way, as long as its connection holds (the deferred cancel of commandRequest),
\* however sessions, gateways, the client and the callers come and go.
THEOREM OrphansCorrect == Spec => []NoOrphans
<1>1. Spec => [](TypeInv /\ AnswerInv /\ SessionInv)
  BY InitType, TypeStep, AnswerInit, AnswerStep, SessionInit, SessionStep, PTL DEF Spec
<1>2. Init => OrphanInv
  BY OrphanInit
<1>3. OrphanInv => NoOrphans
  BY DEF OrphanInv, WorkWanted, Working, Wanted, NoOrphans
<1> QED BY <1>1, <1>2, <1>3, OrphanStep, PTL DEF Spec
=============================================================================
