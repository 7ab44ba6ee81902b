------------------------------ MODULE SelfHosted ------------------------------
(***************************************************************************)
(* The self-hosted nodes of one owner: how a device gets its credential    *)
(* (enrolment token over the tunnel, or browser approval and polling), how *)
(* its reports make the node ready and are written to the event log, how   *)
(* instances are admitted under the node's quota, and how nodes are        *)
(* revoked.                                                                *)
(*                                                                         *)
(* A step is one transaction or one statement outside of any; a creation   *)
(* holds the lock of its node row between two steps of its transaction.    *)
(* Module Tunnel has the sessions themselves and their commands, module    *)
(* TaskQueue what a revocation does to tasks.  CPU and memory are one      *)
(* resource, an instance takes one unit of it.                             *)
(***************************************************************************)
EXTENDS Integers, FiniteSets

CONSTANTS
    Tokens,      \* rows of xcloud_control_enrollment_tokens
    Pairings,    \* rows of xcloud_control_authorizations
    Clients,     \* servers that run the device client
    Sessions,    \* goroutines of the gateways that serve a connection
    Devices,     \* a device and its node are created together
    Instances,
    Requests,    \* requests of the owner that are more than one step
    Detected,    \* what a server may have of the resource
    Installed,   \* what it has at first
    Quotas,      \* what the owner asks for
    MaxFaults,   \* bound: broken links, failing requests and deployments, changes of a server
    None

Grants == Tokens \cup Pairings
Reports == {"ready", "notready", "incomplete"}

ASSUME SelfHostedAssumption ==
    /\ Detected \subseteq Nat \ {0} /\ Installed \in Detected /\ Quotas \subseteq Nat
    /\ Tokens \cap Pairings = {} /\ MaxFaults \in Nat /\ IsFiniteSet(Instances)
    /\ None \notin Grants \cup Requests \cup Clients /\ None \notin Devices /\ None \notin Reports

VARIABLES
    grant,     \* status of tokens and authorizations
    node,      \* rows of xcloud_control_devices and xcloud_nodes
    lock,      \* the transaction that holds the lock of a node row
    log,       \* the last row of xcloud_selfhosted_readiness_events per node
    client,    \* what a server has in its configuration file, and its state
    session,
    instance,  \* rows of xcloud_instances
    request,
    excess,    \* nodes filled beyond their quota other than by a creation
    faults

vars == <<grant, node, lock, log, client, session, instance, request, excess, faults>>
-----------------------------------------------------------------------------
NodeRow ==
    [status : {"none", "enabled", "revoked"}, from : Grants \cup {None}, ready : BOOLEAN,
     online : BOOLEAN, detected : Nat, quota : Nat, mode : {"auto", "manual"}]

ClientState ==
    [grant : Grants, device : Devices \cup {None}, report : Reports, has : Detected]

\* report is the ping being written, from a frame of its device; current is
\* whether sessions.values has this session for the device.
SessionState ==
    [pc : {"off", "enrolled", "live", "written", "insert", "dropping", "last"},
     client : Clients \cup {None}, device : Devices \cup {None}, link : BOOLEAN,
     current : BOOLEAN, report : Reports \cup {None}]

RequestState ==
    [pc : {"idle", "admit", "locked", "quota"}, node : Devices \cup {None}, quota : Nat]

TypeOK ==
    /\ grant \in [Grants -> {"none", "pending", "used", "delivered", "revoked", "expired"}]
    /\ node \in [Devices -> NodeRow]
    /\ \A d \in Devices : \E has \in Detected : node[d].quota <= has
    /\ lock \in [Devices -> Requests \cup {None}]
    /\ \A d \in Devices : lock[d] # None => request[lock[d]] = [pc |-> "locked", node |-> d, quota |-> 0]
    /\ log \in [Devices -> Reports \cup {"none", "disconnected", "revoked"}]
    /\ client \in [Clients -> ClientState]
    /\ session \in [Sessions -> SessionState]
    /\ instance \in [Instances ->
                       [status : {"none", "deploying", "running", "deployment_failed", "destroyed"},
                        node : Devices \cup {None}]]
    /\ request \in [Requests -> RequestState]
    /\ excess \subseteq Devices
    /\ faults \in 0..MaxFaults

NoSession == [pc |-> "off", client |-> None, device |-> None, link |-> FALSE,
              current |-> FALSE, report |-> None]
NoRequest == [pc |-> "idle", node |-> None, quota |-> 0]

\* The configuration files of the servers name a token, or they ask with the
\* poll token of an authorization; it may have been copied from one to another.
Init ==
    /\ grant = [g \in Grants |-> "none"]
    /\ node = [d \in Devices |-> [status |-> "none", from |-> None, ready |-> FALSE, online |-> FALSE,
                                  detected |-> 0, quota |-> 0, mode |-> "auto"]]
    /\ lock = [d \in Devices |-> None]
    /\ log = [d \in Devices |-> "none"]
    /\ \E g \in Grants : client = [c \in Clients |-> [grant |-> g, device |-> None, report |-> "ready",
                                                     has |-> Installed]]
    /\ session = [s \in Sessions |-> NoSession]
    /\ instance = [i \in Instances |-> [status |-> "none", node |-> None]]
    /\ request = [r \in Requests |-> NoRequest]
    /\ excess = {}
    /\ faults = 0

Fault == faults < MaxFaults /\ faults' = faults + 1
-----------------------------------------------------------------------------
(* Tokens, approval, enrolment.                                            *)

Unused == {d \in Devices : node[d].status = "none"}
NextDevice == CHOOSE d \in Unused : TRUE
Free == {s \in Sessions : session[s].pc = "off"}
NextSession == CHOOSE s \in Free : TRUE

\* INSERT of a device, its route and its node.
Created(d, g) == [node EXCEPT ![d].status = "enabled", ![d].from = g]

\* controlEnrollmentTokenCreate, controlAuthorizationCreate, for those that a
\* server uses.
CreateGrant(g) ==
    /\ grant[g] = "none" /\ \E c \in Clients : client[c].grant = g
    /\ grant' = [grant EXCEPT ![g] = "pending"]
    /\ UNCHANGED <<node, lock, log, client, session, instance, request, excess, faults>>

controlEnrollmentTokenRevoke(g) ==
    /\ g \in Tokens /\ grant[g] = "pending"
    /\ Fault
    /\ grant' = [grant EXCEPT ![g] = "revoked"]
    /\ UNCHANGED <<node, lock, log, client, session, instance, request, excess>>

\* Ten minutes have passed; an authorization has to be collected in them, too.
GrantExpires(g) ==
    /\ grant[g] = "pending" \/ (g \in Pairings /\ grant[g] = "used")
    /\ Fault
    /\ grant' = [grant EXCEPT ![g] = "expired"]
    /\ UNCHANGED <<node, lock, log, client, session, instance, request, excess>>

controlAuthorizationApprove(g) ==
    /\ g \in Pairings /\ grant[g] = "pending" /\ Unused # {}
    /\ grant' = [grant EXCEPT ![g] = "used"]
    /\ node' = Created(NextDevice, g)
    /\ UNCHANGED <<lock, log, client, session, instance, request, excess, faults>>

\* delivered_at is set and issued_credential erased.
Delivered(g) == [grant EXCEPT ![g] = "delivered"]

\* The answer with the credential may be lost.
controlAuthorizationPoll(c) ==
    LET g == client[c].grant IN
    /\ g \in Pairings /\ grant[g] = "used" /\ client[c].device = None
    /\ grant' = Delivered(g)
    /\ \/ client' = [client EXCEPT ![c].device = CHOOSE d \in Devices : node[d].from = g]
          /\ UNCHANGED faults
       \/ Fault /\ UNCHANGED client
    /\ UNCHANGED <<node, lock, log, session, instance, request, excess>>

\* A mistake: a token that was used is accepted.
NotRevoked(g) == grant[g] \in {"pending", "used"}

TokenValid(g) == grant[g] = "pending"

Linked(c) == \E s \in Sessions : session[s].client = c /\ session[s].link

\* enroll: the transaction of the gateway; its answer is the first config frame.
enroll(c, s) ==
    LET g == client[c].grant IN
    /\ g \in Tokens /\ client[c].device = None /\ ~ Linked(c)
    /\ Free # {} /\ s = NextSession /\ Unused # {} /\ TokenValid(g)
    /\ grant' = [grant EXCEPT ![g] = "used"]
    /\ node' = Created(NextDevice, g)
    /\ session' = [session EXCEPT ![s] = [NoSession EXCEPT !.pc = "enrolled", !.client = c,
                                                           !.device = NextDevice, !.link = TRUE]]
    /\ UNCHANGED <<lock, log, client, instance, request, excess, faults>>

\* putSession: the session takes the place of an older one, which is closed.
Registered(s, x) ==
    [t \in Sessions |->
        IF t = s THEN [x EXCEPT !.pc = "live", !.current = TRUE]
        ELSE IF session[t].device = x.device THEN [session[t] EXCEPT !.current = FALSE, !.link = FALSE]
        ELSE session[t]]

\* The rest of connect after an enrolment: the session is registered and the
\* client saves what sendConfig brings.
ClientSaves(s) ==
    /\ session[s].pc = "enrolled" /\ session[s].link
    /\ session' = Registered(s, session[s])
    /\ client' = [client EXCEPT ![session[s].client].device = session[s].device]
    /\ UNCHANGED <<grant, node, lock, log, instance, request, excess, faults>>

\* connect with a credential.
connect(c, s) ==
    LET d == client[c].device IN
    /\ d # None /\ node[d].status = "enabled" /\ ~ Linked(c) /\ Free # {} /\ s = NextSession
    /\ session' = Registered(s, [NoSession EXCEPT !.client = c, !.device = d, !.link = TRUE])
    /\ UNCHANGED <<grant, node, lock, log, client, instance, request, excess, faults>>
-----------------------------------------------------------------------------
(* Reports and the event log.                                              *)

\* reportStatus: at once and every 15 seconds.
reportStatus(s) ==
    /\ session[s].pc = "live" /\ session[s].link /\ session[s].report = None
    /\ session' = [session EXCEPT ![s].report = client[session[s].client].report]
    /\ UNCHANGED <<grant, node, lock, log, client, instance, request, excess, faults>>

\* A mistake: a quarter more than there is.
QuarterMore(has) == (has * 10) \div 8

\* FLOOR(detected * 0.8)
AutoQuota(has) == (has * 8) \div 10

Used(d) == Cardinality({i \in Instances : instance[i].node = d /\
                                           instance[i].status \in {"deploying", "running"}})

Reported(row, report, has) ==
    IF report = "incomplete" THEN [row EXCEPT !.ready = FALSE]
    ELSE [row EXCEPT !.ready = report = "ready", !.online = TRUE, !.detected = has,
                     !.quota = IF row.mode = "auto" \/ row.quota <= 0 THEN AutoQuota(has) ELSE @]

\* updateSelfHostedHeartbeat: the UPDATE of the node, also of a revoked one.
updateSelfHostedHeartbeat(s) ==
    LET d == session[s].device
        row == Reported(node[d], session[s].report, client[session[s].client].has) IN
    /\ session[s].pc = "live" /\ session[s].report # None /\ lock[d] = None
    /\ node' = [node EXCEPT ![d] = row]
    /\ excess' = IF Used(d) > row.quota THEN excess \cup {d} ELSE excess
    /\ session' = [session EXCEPT ![s].pc = "written"]
    /\ UNCHANGED <<grant, lock, log, client, instance, request, faults>>

\* A mistake: what counts is whether the node was ready, not what the log says.
NewStatus(d, entry) == (entry = "ready") # node[d].ready

\* Different from the last row of the log.
NewEntry(d, entry) == log[d] # entry

\* recordSelfHostedReadinessEvent: SELECT ...
ReadLog(s) ==
    LET x == session[s]
        next == CASE x.pc = "written"  -> IF NewEntry(x.device, x.report) THEN "insert" ELSE "live"
                  [] x.pc = "dropping" -> IF NewEntry(x.device, "disconnected") THEN "last" ELSE "off" IN
    /\ x.pc \in {"written", "dropping"}
    /\ session' = [session EXCEPT ![s] = IF next = "off" THEN NoSession
                     ELSE [x EXCEPT !.pc = next, !.report = IF next = "live" THEN None ELSE @]]
    /\ UNCHANGED <<grant, node, lock, log, client, instance, request, excess, faults>>

\* ... and INSERT.
InsertLog(s) ==
    LET x == session[s] IN
    /\ x.pc \in {"insert", "last"}
    /\ log' = [log EXCEPT ![x.device] = IF x.pc = "insert" THEN x.report ELSE "disconnected"]
    /\ session' = [session EXCEPT ![s] = IF x.pc = "last" THEN NoSession
                                         ELSE [x EXCEPT !.pc = "live", !.report = None]]
    /\ UNCHANGED <<grant, node, lock, client, instance, request, excess, faults>>

\* A mistake: a session that was replaced ends unnoticed.
OnlyCurrent(s) == session[s].current

EndRecorded(s) == TRUE

\* A link breaks, which each end notices for itself; frames may be lost.
LinkBreaks(s) ==
    /\ session[s].link
    /\ Fault
    /\ session' = [session EXCEPT ![s].link = FALSE]
    /\ UNCHANGED <<grant, node, lock, log, client, instance, request, excess>>

\* refreshSession closes the connection of a device that was revoked.
RevokedCloses(s) ==
    /\ session[s].link /\ session[s].pc # "enrolled" /\ node[session[s].device].status = "revoked"
    /\ session' = [session EXCEPT ![s].link = FALSE]
    /\ UNCHANGED <<grant, node, lock, log, client, instance, request, excess, faults>>

\* The read loop ends, after or without a ping it still had; a handshake that
\* fails leaves no trace.
dropSession(s) ==
    /\ session[s].pc \in {"enrolled", "live"} /\ ~ session[s].link
    /\ session' = [session EXCEPT ![s] =
                     IF @.pc = "enrolled" \/ ~ EndRecorded(s) THEN NoSession
                     ELSE [@ EXCEPT !.pc = "dropping", !.report = None]]
    /\ UNCHANGED <<grant, node, lock, log, client, instance, request, excess, faults>>

\* nodeHeartbeatTTL, 90 seconds, without a report that says something.
HeartbeatStale(d) ==
    /\ node[d].online
    /\ ~ \E s \in Sessions :
         /\ session[s].device = d
         /\ \/ session[s].report \in {"ready", "notready"}
            \/ /\ session[s].pc = "live" /\ session[s].link
               /\ client[session[s].client].report # "incomplete"
    /\ node' = [node EXCEPT ![d].online = FALSE]
    /\ UNCHANGED <<grant, lock, log, client, session, instance, request, excess, faults>>

\* A server's environment, or its size.
ServerChanges(c) ==
    /\ Fault
    /\ \/ \E report \in Reports : client' = [client EXCEPT ![c].report = report]
       \/ \E has \in Detected : client' = [client EXCEPT ![c].has = has]
    /\ UNCHANGED <<grant, node, lock, log, session, instance, request, excess>>
-----------------------------------------------------------------------------
(* Requests of the owner.                                                  *)

Idle(r) == request[r].pc = "idle"
Begin(r, pc, d, q) == request' = [request EXCEPT ![r] = [pc |-> pc, node |-> d, quota |-> q]]
End(r) == request' = [request EXCEPT ![r] = NoRequest]

\* createSelfHostedInstance: what it asks of the node before its transaction.
CreateChecks(r, d) ==
    /\ Idle(r)
    /\ node[d].status = "enabled" /\ node[d].online /\ node[d].ready
    /\ Begin(r, "admit", d, 0)
    /\ UNCHANGED <<grant, node, lock, log, client, session, instance, excess, faults>>

\* A mistake: the row is read without its lock.
NotLocked(r, d) == lock

\* SELECT ... FOR UPDATE
RowLocked(r, d) == [lock EXCEPT ![d] = r]

Spare == {i \in Instances : instance[i].status = "none"}
Locking == {r \in Requests : request[r].pc = "locked"}

\* The quota is compared under the lock of the row; enabled is not read again.
CreateLocks(r) ==
    LET d == request[r].node IN
    /\ request[r].pc = "admit" /\ lock[d] = None
    /\ IF Used(d) + 1 <= node[d].quota /\ Cardinality(Spare) > Cardinality(Locking)
         THEN request' = [request EXCEPT ![r].pc = "locked"] /\ lock' = RowLocked(r, d)
         ELSE End(r) /\ UNCHANGED lock
    /\ UNCHANGED <<grant, node, log, client, session, instance, excess, faults>>

Unlocked(r) == [d \in Devices |-> IF lock[d] = r THEN None ELSE lock[d]]

CreateCommits(r) ==
    /\ request[r].pc = "locked"
    /\ LET i == CHOOSE i \in Spare : TRUE IN
        instance' = [instance EXCEPT ![i] = [status |-> "deploying", node |-> request[r].node]]
    /\ lock' = Unlocked(r)
    /\ End(r)
    /\ UNCHANGED <<grant, node, log, client, session, excess, faults>>

\* A statement fails, the browser or the server goes away.
RequestFails(r) ==
    /\ ~ Idle(r)
    /\ Fault
    /\ lock' = Unlocked(r)
    /\ End(r)
    /\ UNCHANGED <<grant, node, log, client, session, instance, excess>>

\* updateSelfHostedNodeQuota: read and check ...
QuotaChecks(r, d, q) ==
    /\ Idle(r)
    /\ node[d].status = "enabled" /\ node[d].detected > 0
    /\ 0 < q /\ q <= node[d].detected /\ q >= Used(d)
    /\ Begin(r, "quota", d, q)
    /\ UNCHANGED <<grant, node, lock, log, client, session, instance, excess, faults>>

\* ... and write, whatever happened since.
QuotaWrites(r) ==
    LET d == request[r].node IN
    /\ request[r].pc = "quota" /\ lock[d] = None
    /\ node' = [node EXCEPT ![d].quota = request[r].quota, ![d].mode = "manual"]
    /\ excess' = IF Used(d) > request[r].quota THEN excess \cup {d} ELSE excess
    /\ End(r)
    /\ UNCHANGED <<grant, lock, log, client, session, instance, faults>>

\* revokeSelfHostedDevice for a node.
Revoked(d) == [node EXCEPT ![d].status = "revoked", ![d].ready = FALSE]

controlSelfHostedNodeRevoke(d) ==
    /\ node[d].status = "enabled" /\ lock[d] = None
    /\ node' = Revoked(d)
    /\ log' = [log EXCEPT ![d] = "revoked"]
    /\ UNCHANGED <<grant, lock, client, session, instance, request, excess, faults>>

\* Module Lifecycle: a deployment ends, an instance is destroyed.
InstanceEnds(i) ==
    /\ instance[i].status \in {"deploying", "running"}
    /\ \/ instance[i].status = "deploying" /\ UNCHANGED faults
          /\ instance' = [instance EXCEPT ![i].status = "running"]
       \/ Fault /\ instance' = [instance EXCEPT ![i].status =
                      IF @ = "deploying" THEN "deployment_failed" ELSE "destroyed"]
    /\ UNCHANGED <<grant, node, lock, log, client, session, request, excess>>

\* queueDeploymentRetry looks neither at the quota nor at creations under way.
Admitted(d) == IF lock[d] = None THEN 0 ELSE 1

queueDeploymentRetry(i) ==
    LET d == instance[i].node IN
    /\ instance[i].status = "deployment_failed"
    /\ instance' = [instance EXCEPT ![i].status = "deploying"]
    /\ excess' = IF Used(d) + Admitted(d) + 1 > node[d].quota THEN excess \cup {d} ELSE excess
    /\ UNCHANGED <<grant, node, lock, log, client, session, request, faults>>
-----------------------------------------------------------------------------
Enrolment ==
    \/ \E g \in Grants :
        \/ CreateGrant(g) \/ controlEnrollmentTokenRevoke(g) \/ GrantExpires(g)
        \/ controlAuthorizationApprove(g)
    \/ \E c \in Clients :
        \/ controlAuthorizationPoll(c) \/ ServerChanges(c)
        \/ \E s \in Sessions : enroll(c, s) \/ connect(c, s)

Gateway(s) ==
    \/ ClientSaves(s) \/ reportStatus(s) \/ updateSelfHostedHeartbeat(s)
    \/ ReadLog(s) \/ InsertLog(s) \/ RevokedCloses(s) \/ dropSession(s)

Decided(r) == CreateLocks(r) \/ CreateCommits(r) \/ QuotaWrites(r)

Owner ==
    \/ \E r \in Requests :
        \/ Decided(r) \/ RequestFails(r)
        \/ \E d \in Devices : CreateChecks(r, d) \/ \E q \in Quotas : QuotaChecks(r, d, q)
    \/ \E d \in Devices : controlSelfHostedNodeRevoke(d)
    \/ \E i \in Instances : InstanceEnds(i) \/ queueDeploymentRetry(i)

Next ==
    \/ Enrolment
    \/ \E s \in Sessions : Gateway(s) \/ LinkBreaks(s)
    \/ \E d \in Devices : HeartbeatStale(d)
    \/ Owner

Spec == Init /\ [][Next]_vars

\* The client dials again and reports every 15 seconds, the goroutines of a
\* gateway run, a transaction ends, and time passes.
Fairness ==
    /\ \A c \in Clients : WF_vars(\E s \in Sessions : connect(c, s))
    /\ \A s \in Sessions : WF_vars(Gateway(s))
    /\ \A d \in Devices : WF_vars(HeartbeatStale(d))
    /\ \A r \in Requests : WF_vars(Decided(r))

FairSpec == Spec /\ Fairness
-----------------------------------------------------------------------------
(* Properties.                                                             *)

\* enroll, controlAuthorizationApprove, controlAuthorizationPoll: a token or an
\* approval makes one device, whoever uses it how often, and at most one
\* server has the credential of a device.
OneIdentity ==
    \A d, e \in Devices :
        /\ node[d].from # None /\ node[d].from = node[e].from => d = e
        /\ \A c, b \in Clients :
             client[c].device = d /\ client[b].device = d => c = b

\* createSelfHostedInstance: creations never fill a node beyond its quota, not
\* two at a time, nor beside a report that lowers it or a request to change it.
QuotaKept == \A d \in Devices : Used(d) > node[d].quota => d \in excess

Serves(s, d) == session[s].device = d /\ session[s].link /\ session[s].pc # "enrolled"

\* updateSelfHostedHeartbeat, recordSelfHostedReadinessEvent: when the server
\* of a node that was not revoked is well for good, the node becomes online
\* and ready, and the log says so at last, although older connections of the
\* device may end at any time.
ReadyReported ==
    \A d \in Devices, c \in Clients :
        <>[](client[c].device = d /\ client[c].report = "ready" /\ node[d].status = "enabled")
            => <>[](node[d].ready /\ node[d].online /\ log[d] = "ready")

\* dropSession, nodeHeartbeatTTL: when no connection of a device is left, be
\* it revoked or away, its node goes offline and the log ends with something else.
LossReported ==
    \A d \in Devices :
        <>[](~ \E s \in Sessions : Serves(s, d))
            => <>[](~ node[d].online /\ log[d] # "ready")
-----------------------------------------------------------------------------
(* What does not hold: see README.                                         *)

\* control_tunnel.go: a revoked node is unavailable for all scheduling.
RevokedStaysOut ==
    [][\A d \in Devices : node[d].status = "revoked" =>
         /\ Used(d)' <= Used(d)
         /\ node'[d].ready => node[d].ready]_vars

\* A device that was created comes to be known to a server.
NoStranded ==
    \A d \in Devices : node[d].status = "enabled" ~>
        (node[d].status = "revoked" \/ \E c \in Clients : client[c].device = d)
=============================================================================
