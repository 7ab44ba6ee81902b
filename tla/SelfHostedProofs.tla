--------------------------- MODULE SelfHostedProofs ---------------------------
(***************************************************************************)
(* Proofs about SelfHosted: types, and one identity per token or approval, *)
(* for any tokens, approvals, servers, connections, devices and faults.    *)
(***************************************************************************)
EXTENDS SelfHosted, FiniteSetTheorems, TLAPS

\* Types, variable by variable, with what makes them inductive: a session, an
\* instance and a request that are in use know their device, an entry that is
\* being written is a report, and a quota is bounded by the size of a server.
Bounded(q) == \E has \in Detected : q <= has

GrantT == grant \in [Grants -> {"none", "pending", "used", "delivered", "revoked", "expired"}]

RowT(r) == r \in NodeRow /\ r.detected \in Detected \cup {0} /\ Bounded(r.quota)
NodeT == node \in [Devices -> NodeRow] /\ \A d \in Devices : RowT(node[d])

LogT == log \in [Devices -> Reports \cup {"none", "disconnected", "revoked"}]
ClientT == client \in [Clients -> ClientState]

PlaceT(x) ==
    /\ x.pc # "off" => x.device \in Devices /\ x.client \in Clients
    /\ x.pc \in {"written", "insert"} => x.report \in Reports
SessionT == session \in [Sessions -> SessionState] /\ \A s \in Sessions : PlaceT(session[s])

InstanceStatuses == {"none", "deploying", "running", "deployment_failed", "destroyed"}
InstanceT ==
    /\ instance \in [Instances -> [status : InstanceStatuses, node : Devices \cup {None}]]
    /\ \A i \in Instances : instance[i].status # "none" => instance[i].node \in Devices

AskT(x) ==
    /\ x.pc # "idle" => x.node \in Devices
    /\ x.pc \in {"admit", "locked"} => x.quota = 0
    /\ Bounded(x.quota)
RequestT == request \in [Requests -> RequestState] /\ \A r \in Requests : AskT(request[r])

LockT ==
    /\ lock \in [Devices -> Requests \cup {None}]
    /\ \A d \in Devices : lock[d] # None => request[lock[d]] = [pc |-> "locked", node |-> d, quota |-> 0]

ExcessT == excess \subseteq Devices
FaultsT == faults \in 0..MaxFaults

\* One identity.  A device comes from one grant that is no longer pending; one
\* that is approved and not collected has its device.
Origin ==
    /\ \A d \in Devices : node[d].status = "none" => node[d].from = None
    /\ \A d \in Devices : node[d].from # None => grant[node[d].from] \notin {"none", "pending"}
    /\ \A d, e \in Devices : node[d].from # None /\ node[d].from = node[e].from => d = e
    /\ \A g \in Pairings : grant[g] = "used" => \E d \in Devices : node[d].from = g

\* What a server knows was created, and collected if it was approved; no two
\* servers know the same.
Holders ==
    /\ \A c \in Clients : client[c].device # None =>
         /\ node[client[c].device].from \in Grants
         /\ node[client[c].device].from \in Pairings => grant[node[client[c].device].from] = "delivered"
    /\ \A c, b \in Clients : client[c].device # None /\ client[c].device = client[b].device => c = b

\* An enrolment that is not saved yet is that of a token, and the only one who
\* has its device.
Pending ==
    /\ \A s \in Sessions : session[s].pc = "enrolled" =>
         /\ node[session[s].device].from \in Tokens
         /\ \A c \in Clients : client[c].device # session[s].device
    /\ \A s, t \in Sessions :
         session[s].pc = "enrolled" /\ session[t].pc = "enrolled" /\ session[s].device = session[t].device
           => s = t

Types == GrantT /\ NodeT /\ LogT /\ ClientT /\ SessionT /\ InstanceT /\ RequestT /\ LockT /\ ExcessT /\ FaultsT
Identity == Origin /\ Holders /\ Pending
Inv == Types /\ Identity

LEMMA InvTypes == Inv => TypeOK
  BY DEF Inv, Types, TypeOK, GrantT, NodeT, RowT, Bounded, LogT, ClientT, SessionT, InstanceT,
     InstanceStatuses, RequestT, LockT, ExcessT, FaultsT

LEMMA InvIdentity == Inv => OneIdentity
  BY SelfHostedAssumption DEF SelfHostedAssumption, Inv, Identity, Origin, Holders, OneIdentity

LEMMA InitInv == Init => Inv
<1> SUFFICES ASSUME Init PROVE Inv
  OBVIOUS
<1> USE SelfHostedAssumption DEF SelfHostedAssumption, Init
<1>1. GrantT /\ LogT /\ InstanceT /\ LockT /\ ExcessT /\ FaultsT
  BY DEF GrantT, LogT, InstanceT, InstanceStatuses, LockT, ExcessT, FaultsT
<1>2. NodeT
  BY DEF NodeT, RowT, NodeRow, Bounded
<1>3. ClientT
  BY DEF ClientT, ClientState, Reports
<1>4. SessionT
  BY DEF SessionT, SessionState, NoSession, PlaceT
<1>5. RequestT
  BY DEF RequestT, RequestState, NoRequest, AskT, Bounded
<1>6. Origin
  BY DEF Origin, Grants
<1>7. Holders /\ Pending
  BY DEF Holders, Pending, NoSession
<1> QED
  BY <1>1, <1>2, <1>3, <1>4, <1>5, <1>6, <1>7 DEF Inv, Types, Identity

LEMMA FaultT == ASSUME FaultsT, Fault PROVE FaultsT'
  BY SelfHostedAssumption DEF FaultsT, Fault, SelfHostedAssumption
-----------------------------------------------------------------------------
(* Steps that change one entry of one variable.                            *)

LEMMA NodeSet ==
  ASSUME NodeT, NEW d \in Devices, NEW r, RowT(r), node' = [node EXCEPT ![d] = r]
  PROVE  NodeT'
  BY DEF NodeT, RowT, NodeRow, Bounded

LEMMA SessionSet ==
  ASSUME SessionT, NEW s \in Sessions, NEW x, x \in SessionState, PlaceT(x),
         session' = [session EXCEPT ![s] = x]
  PROVE  SessionT'
  BY DEF SessionT, SessionState, PlaceT

\* A request that is not in its transaction begins, goes on or ends.
LEMMA RequestSet ==
  ASSUME RequestT, LockT, NEW r \in Requests, NEW x, x \in RequestState, AskT(x),
         request[r].pc # "locked", request' = [request EXCEPT ![r] = x], lock' = lock
  PROVE  RequestT' /\ LockT'
<1>1. RequestT'
  BY DEF RequestT, RequestState, AskT, Bounded
<1>2. r # None
  BY SelfHostedAssumption DEF SelfHostedAssumption
<1>3. ASSUME NEW d \in Devices, lock[d] = r PROVE FALSE
  <2>1. request[r] = [pc |-> "locked", node |-> d, quota |-> 0]
    BY <1>2, <1>3 DEF LockT
  <2> QED
    BY <2>1
<1>4. LockT'
  BY <1>3 DEF LockT, RequestT
<1> QED
  BY <1>1, <1>4

\* What identities rest on: where devices come from, who knows them, and
\* which enrolments are under way.
LEMMA IdentityKept ==
  ASSUME Identity, NodeT, SessionT, ClientT,
         grant' = grant,
         \A d \in Devices : /\ node'[d].from = node[d].from
                            /\ node'[d].status = "none" => node[d].status = "none",
         \A c \in Clients : client'[c].device = client[c].device,
         \A s \in Sessions : session'[s].pc = "enrolled" =>
            session[s].pc = "enrolled" /\ session'[s].device = session[s].device
  PROVE  Identity'
<1>1. \A c \in Clients : client[c].device # None => client[c].device \in Devices
  BY DEF ClientT, ClientState
<1>2. \A s \in Sessions : session[s].pc = "enrolled" => session[s].device \in Devices
  BY DEF SessionT, PlaceT
<1>3. Origin'
  BY DEF Identity, Origin
<1>4. Holders'
  BY <1>1 DEF Identity, Holders
<1>5. Pending'
  BY <1>2 DEF Identity, Pending
<1> QED
  BY <1>3, <1>4, <1>5 DEF Identity

\* A grant that no device has been made of, or that is final, changes.
LEMMA IdentityGrant ==
  ASSUME Identity, GrantT, NEW g \in Grants, NEW x,
         grant' = [grant EXCEPT ![g] = x],
         grant[g] # "delivered" /\ x # "used",
         grant[g] \in {"none", "pending"} \/ x \notin {"none", "pending"},
         UNCHANGED <<node, client, session>>
  PROVE  Identity'
<1>1. \A h \in Grants : grant'[h] = IF h = g THEN x ELSE grant[h]
  BY DEF GrantT
<1>2. Origin'
  BY <1>1 DEF Identity, Origin, Grants, NodeT, NodeRow
<1>3. Holders'
  BY <1>1 DEF Identity, Holders, Grants
<1>4. Pending'
  BY DEF Identity, Pending
<1> QED
  BY <1>2, <1>3, <1>4 DEF Identity
-----------------------------------------------------------------------------
(* Enrolment.                                                              *)

LEMMA Stutter == Inv /\ UNCHANGED vars => Inv'
<1> SUFFICES ASSUME Inv, UNCHANGED vars PROVE Inv'
  OBVIOUS
<1>1. Types'
  BY DEF vars, Inv, Types, GrantT, NodeT, RowT, NodeRow, Bounded, LogT, ClientT, SessionT, PlaceT,
     InstanceT, RequestT, AskT, LockT, ExcessT, FaultsT
<1>2. Identity'
  BY IdentityKept DEF vars, Inv, Types
<1> QED
  BY <1>1, <1>2 DEF Inv

LEMMA GrantStep ==
  ASSUME Inv, NEW g \in Grants,
         CreateGrant(g) \/ controlEnrollmentTokenRevoke(g) \/ GrantExpires(g)
  PROVE  Inv'
<1> USE DEF Inv, Types
<1>1. GrantT'
  BY DEF GrantT, CreateGrant, controlEnrollmentTokenRevoke, GrantExpires
<1>2. FaultsT'
  BY FaultT DEF FaultsT, CreateGrant, controlEnrollmentTokenRevoke, GrantExpires
<1>3. UNCHANGED <<node, lock, log, client, session, instance, request, excess>>
  BY DEF CreateGrant, controlEnrollmentTokenRevoke, GrantExpires
<1>4. NodeT' /\ LogT' /\ ClientT' /\ SessionT' /\ InstanceT' /\ RequestT' /\ LockT' /\ ExcessT'
  BY <1>3 DEF NodeT, RowT, NodeRow, Bounded, LogT, ClientT, SessionT, PlaceT, InstanceT,
     RequestT, AskT, LockT, ExcessT
<1>5. Identity'
  BY <1>3, IdentityGrant DEF CreateGrant, controlEnrollmentTokenRevoke, GrantExpires
<1> QED
  BY <1>1, <1>2, <1>4, <1>5

\* A device and its node are made of a grant.
LEMMA DeviceMade ==
  ASSUME GrantT, NodeT, NEW g \in Grants, NEW d \in Devices,
         grant' = [grant EXCEPT ![g] = "used"], node' = Created(d, g)
  PROVE  /\ GrantT' /\ NodeT'
         /\ \A h \in Grants : grant'[h] = IF h = g THEN "used" ELSE grant[h]
         /\ node'[d].from = g /\ node'[d].status = "enabled"
         /\ \A e \in Devices : e # d => node'[e] = node[e]
<1>1. node[d] \in NodeRow /\ RowT(node[d])
  BY DEF NodeT
<1> DEFINE r == [[node[d] EXCEPT !.status = "enabled"] EXCEPT !.from = g]
<1>2. node' = [node EXCEPT ![d] = r]
  BY DEF Created
<1>3. RowT(r) /\ r.from = g /\ r.status = "enabled"
  BY <1>1 DEF RowT, NodeRow
<1> HIDE DEF r
<1>4. NodeT'
  BY <1>2, <1>3, NodeSet
<1>5. GrantT' /\ \A h \in Grants : grant'[h] = IF h = g THEN "used" ELSE grant[h]
  BY DEF GrantT
<1>6. node'[d] = r /\ \A e \in Devices : e # d => node'[e] = node[e]
  BY <1>2 DEF NodeT
<1> QED
  BY <1>3, <1>4, <1>5, <1>6

LEMMA OriginMade ==
  ASSUME Inv, NEW g \in Grants, grant[g] = "pending", NEW d \in Devices, node[d].status = "none",
         grant' = [grant EXCEPT ![g] = "used"], node' = Created(d, g), client' = client
  PROVE  /\ Origin' /\ Holders'
         /\ \A c \in Clients : client[c].device # d
         /\ \A s \in Sessions : session[s].pc = "enrolled" => session[s].device # d
<1> USE SelfHostedAssumption DEF SelfHostedAssumption, Inv, Types, Identity
<1>1. None \notin Grants /\ node[d].from = None
  BY DEF Origin
<1>2. \A e \in Devices : node[e].from # g
  BY <1>1 DEF Origin
<1>3. \A e \in Devices : node[e].from \in Grants \cup {None}
  BY DEF NodeT, NodeRow
<1>4. /\ \A h \in Grants : grant'[h] = IF h = g THEN "used" ELSE grant[h]
      /\ node'[d].from = g /\ node'[d].status = "enabled"
      /\ \A e \in Devices : e # d => node'[e] = node[e]
  BY DeviceMade
<1>5. Origin'
  <2>1. \A e \in Devices : node'[e].status = "none" => node'[e].from = None
    BY <1>4 DEF Origin
  <2>2. \A e \in Devices : node'[e].from # None => grant'[node'[e].from] \notin {"none", "pending"}
    BY <1>3, <1>4 DEF Origin
  <2>3. \A e, f \in Devices : node'[e].from # None /\ node'[e].from = node'[f].from => e = f
    BY <1>2, <1>4 DEF Origin
  <2>4. \A h \in Pairings : grant'[h] = "used" => \E e \in Devices : node'[e].from = h
    BY <1>1, <1>4 DEF Origin, Grants
  <2> QED
    BY <2>1, <2>2, <2>3, <2>4 DEF Origin
<1>6. \A c \in Clients : client[c].device # d
  BY <1>1 DEF Holders
<1>7. Holders'
  <2>1. \A c \in Clients : client[c].device # None => client[c].device \in Devices
    BY DEF ClientT, ClientState
  <2>2. \A c \in Clients : client[c].device # None =>
         /\ node'[client[c].device].from \in Grants
         /\ node'[client[c].device].from \in Pairings => grant'[node'[client[c].device].from] = "delivered"
    BY <1>4, <1>6, <2>1 DEF Holders
  <2> QED
    BY <2>2 DEF Holders
<1>8. \A s \in Sessions : session[s].pc = "enrolled" => session[s].device # d
  BY <1>1 DEF Pending, Grants
<1> QED
  BY <1>5, <1>6, <1>7, <1>8

LEMMA NextUnused == Unused # {} => NextDevice \in Devices /\ node[NextDevice].status = "none"
  BY DEF Unused, NextDevice

LEMMA ApproveStep ==
  ASSUME Inv, NEW g \in Grants, controlAuthorizationApprove(g) PROVE Inv'
<1> USE DEF Inv, Types
<1>1. PICK d \in Devices : node[d].status = "none" /\ node' = Created(d, g)
  BY NextUnused DEF controlAuthorizationApprove
<1>2. /\ grant[g] = "pending" /\ grant' = [grant EXCEPT ![g] = "used"]
      /\ UNCHANGED <<lock, log, client, session, instance, request, excess, faults>>
  BY DEF controlAuthorizationApprove
<1>3. GrantT' /\ NodeT' /\ \A e \in Devices : e # d => node'[e] = node[e]
  BY <1>1, <1>2, DeviceMade
<1>4. LogT' /\ ClientT' /\ SessionT' /\ InstanceT' /\ RequestT' /\ LockT' /\ ExcessT' /\ FaultsT'
  BY <1>2 DEF LogT, ClientT, SessionT, PlaceT, InstanceT, RequestT, AskT, Bounded, LockT, ExcessT, FaultsT
<1>5. /\ Origin' /\ Holders'
      /\ \A s \in Sessions : session[s].pc = "enrolled" => session[s].device # d
  BY <1>1, <1>2, OriginMade
<1>6. Pending'
  BY <1>2, <1>3, <1>5 DEF Identity, Pending, SessionT, PlaceT
<1> QED
  BY <1>3, <1>4, <1>5, <1>6 DEF Identity

\* A server comes to know the device d.
LEMMA ClientSet ==
  ASSUME ClientT, NEW c \in Clients, NEW d \in Devices, client' = [client EXCEPT ![c].device = d]
  PROVE  /\ ClientT' /\ client'[c].device = d
         /\ \A b \in Clients : b # c => client'[b] = client[b]
  BY DEF ClientT, ClientState

LEMMA PollStep ==
  ASSUME Inv, NEW c \in Clients, controlAuthorizationPoll(c) PROVE Inv'
<1> USE DEF Inv, Types, Identity
<1> DEFINE g == client[c].grant
<1>1. /\ g \in Pairings /\ g \in Grants /\ grant[g] = "used"
      /\ grant' = [grant EXCEPT ![g] = "delivered"]
      /\ UNCHANGED <<node, lock, log, session, instance, request, excess>>
  BY DEF controlAuthorizationPoll, Delivered, Grants
<1>2. GrantT' /\ \A h \in Grants : grant'[h] = IF h = g THEN "delivered" ELSE grant[h]
  BY <1>1 DEF GrantT
<1>3. NodeT' /\ LogT' /\ SessionT' /\ InstanceT' /\ RequestT' /\ LockT' /\ ExcessT'
  BY <1>1 DEF NodeT, RowT, NodeRow, Bounded, LogT, SessionT, PlaceT, InstanceT, RequestT, AskT, LockT, ExcessT
<1>4. FaultsT'
  BY FaultT DEF FaultsT, controlAuthorizationPoll
<1>5. CASE client' = client
  <2>1. Identity'
    BY <1>1, <1>5, IdentityGrant
  <2> QED
    BY <1>2, <1>3, <1>4, <1>5, <2>1 DEF ClientT
<1>6. CASE client' # client
  <2> DEFINE d == CHOOSE e \in Devices : node[e].from = g
  <2>1. d \in Devices /\ node[d].from = g
    BY <1>1 DEF Origin
  <2>2. client' = [client EXCEPT ![c].device = d]
    BY <1>6 DEF controlAuthorizationPoll
  <2> HIDE DEF d
  <2>3. ClientT' /\ client'[c].device = d /\ \A b \in Clients : b # c => client'[b] = client[b]
    BY <2>1, <2>2, ClientSet
  <2>4. \A b \in Clients : client[b].device # d
    BY <1>1, <2>1, SelfHostedAssumption DEF Holders, SelfHostedAssumption
  <2>5. Origin'
    BY <1>1, <1>2 DEF Origin, NodeT, NodeRow, Grants
  <2>6. Holders'
    <3>1. \A b \in Clients : client'[b].device # None =>
            /\ node[client'[b].device].from \in Grants
            /\ node[client'[b].device].from \in Pairings => grant'[node[client'[b].device].from] = "delivered"
      BY <1>1, <1>2, <2>1, <2>3 DEF Holders
    <3> QED
      BY <1>1, <2>3, <2>4, <3>1 DEF Holders
  <2>7. Pending'
    <3>1. \A s \in Sessions : session[s].pc = "enrolled" => session[s].device # d
      BY <1>1, <2>1, SelfHostedAssumption DEF Pending, SelfHostedAssumption
    <3> QED
      BY <1>1, <2>3, <3>1 DEF Pending
  <2> QED
    BY <1>2, <1>3, <1>4, <2>3, <2>5, <2>6, <2>7
<1> QED
  BY <1>5, <1>6

LEMMA EnrollStep ==
  ASSUME Inv, NEW c \in Clients, NEW s \in Sessions, enroll(c, s) PROVE Inv'
<1> USE DEF Inv, Types
<1> DEFINE g == client[c].grant
           d == NextDevice
           x == [[[[NoSession EXCEPT !.pc = "enrolled"] EXCEPT !.client = c] EXCEPT !.device = d] EXCEPT !.link = TRUE]
<1>1. /\ g \in Tokens /\ g \in Grants /\ grant[g] = "pending"
      /\ d \in Devices /\ node[d].status = "none"
      /\ grant' = [grant EXCEPT ![g] = "used"] /\ node' = Created(d, g)
      /\ UNCHANGED <<lock, log, client, instance, request, excess, faults>>
  BY NextUnused DEF enroll, TokenValid, Grants
<1>2. [NoSession EXCEPT !.pc = "enrolled", !.client = c, !.device = d, !.link = TRUE] = x
  OBVIOUS
<1>3. session' = [session EXCEPT ![s] = x]
  BY <1>2 DEF enroll
<1>4. /\ x \in SessionState /\ PlaceT(x) /\ x.pc = "enrolled" /\ x.device = d
  BY <1>1 DEF NoSession, SessionState, PlaceT
<1> HIDE DEF x, d
<1>5. /\ SessionT' /\ session'[s].pc = "enrolled" /\ session'[s].device = d
      /\ \A t \in Sessions : t # s => session'[t] = session[t]
  BY <1>3, <1>4, SessionSet DEF SessionT
<1>6. /\ GrantT' /\ NodeT' /\ node'[d].from = g
      /\ \A e \in Devices : e # d => node'[e] = node[e]
  BY <1>1, DeviceMade
<1>7. LogT' /\ ClientT' /\ InstanceT' /\ RequestT' /\ LockT' /\ ExcessT' /\ FaultsT'
  BY <1>1 DEF LogT, ClientT, InstanceT, RequestT, AskT, Bounded, LockT, ExcessT, FaultsT
<1>8. /\ Origin' /\ Holders'
      /\ \A b \in Clients : client[b].device # d
      /\ \A t \in Sessions : session[t].pc = "enrolled" => session[t].device # d
  BY <1>1, OriginMade
<1>9. Pending'
  <2>1. \A t \in Sessions : session'[t].pc = "enrolled" /\ t # s =>
          session[t].pc = "enrolled" /\ session'[t].device = session[t].device
            /\ session[t].device \in Devices /\ session[t].device # d
    BY <1>5, <1>8 DEF SessionT, PlaceT
  <2>2. \A t \in Sessions : session'[t].pc = "enrolled" =>
          /\ node'[session'[t].device].from \in Tokens
          /\ \A b \in Clients : client'[b].device # session'[t].device
    BY <1>1, <1>5, <1>6, <1>8, <2>1 DEF Identity, Pending
  <2>3. \A t, u \in Sessions :
          session'[t].pc = "enrolled" /\ session'[u].pc = "enrolled" /\ session'[t].device = session'[u].device
            => t = u
    BY <1>5, <2>1 DEF Identity, Pending
  <2> QED
    BY <2>2, <2>3 DEF Pending
<1> QED
  BY <1>5, <1>6, <1>7, <1>8, <1>9 DEF Identity

\* putSession leaves enrolments alone but for the one that it ends.
LEMMA RegisteredSession ==
  ASSUME SessionT, NEW s \in Sessions, NEW x, x \in SessionState,
         x.device \in Devices, x.client \in Clients, session' = Registered(s, x)
  PROVE  /\ SessionT'
         /\ \A t \in Sessions : session'[t].pc = "enrolled" =>
              t # s /\ session[t].pc = "enrolled" /\ session'[t].device = session[t].device
<1> DEFINE y == [[x EXCEPT !.pc = "live"] EXCEPT !.current = TRUE]
           Out(t) == [[session[t] EXCEPT !.current = FALSE] EXCEPT !.link = FALSE]
<1>1. [x EXCEPT !.pc = "live", !.current = TRUE] = y
  OBVIOUS
<1>2. \A t \in Sessions : [session[t] EXCEPT !.current = FALSE, !.link = FALSE] = Out(t)
  OBVIOUS
<1>3. y \in SessionState /\ PlaceT(y) /\ y.pc = "live"
  BY DEF SessionState, PlaceT
<1>4. \A t \in Sessions : /\ Out(t) \in SessionState /\ PlaceT(Out(t))
                          /\ Out(t).pc = session[t].pc /\ Out(t).device = session[t].device
  BY DEF SessionT, SessionState, PlaceT
<1>5. session' = [t \in Sessions |-> IF t = s THEN y
                    ELSE IF session[t].device = x.device THEN Out(t) ELSE session[t]]
  BY <1>1, <1>2 DEF Registered
<1> HIDE DEF y, Out
<1> QED
  BY <1>3, <1>4, <1>5 DEF SessionT

LEMMA ClientSavesStep ==
  ASSUME Inv, NEW s \in Sessions, ClientSaves(s) PROVE Inv'
<1> USE DEF Inv, Types
<1> DEFINE c == session[s].client
           d == session[s].device
<1>1. /\ session[s].pc = "enrolled" /\ session' = Registered(s, session[s])
      /\ client' = [client EXCEPT ![c].device = d]
      /\ UNCHANGED <<grant, node, lock, log, instance, request, excess, faults>>
  BY DEF ClientSaves
<1>2. session[s] \in SessionState /\ d \in Devices /\ c \in Clients
  BY <1>1 DEF SessionT, PlaceT
<1>3. ClientT' /\ client'[c].device = d /\ \A b \in Clients : b # c => client'[b] = client[b]
  BY <1>1, <1>2, ClientSet
<1>4. /\ SessionT'
      /\ \A t \in Sessions : session'[t].pc = "enrolled" =>
           t # s /\ session[t].pc = "enrolled" /\ session'[t].device = session[t].device
  BY <1>1, <1>2, RegisteredSession
<1>5. GrantT' /\ NodeT' /\ LogT' /\ InstanceT' /\ RequestT' /\ LockT' /\ ExcessT' /\ FaultsT'
  BY <1>1 DEF GrantT, NodeT, RowT, NodeRow, Bounded, LogT, InstanceT, RequestT, AskT, LockT, ExcessT, FaultsT
<1>6. node[d].from \in Tokens /\ \A b \in Clients : client[b].device # d
  BY <1>1 DEF Identity, Pending
<1>7. Origin'
  BY <1>1 DEF Identity, Origin
<1>8. Holders'
  <2>1. node[d].from \in Grants /\ node[d].from \notin Pairings
    BY <1>6, SelfHostedAssumption DEF SelfHostedAssumption, Grants
  <2>2. \A b \in Clients : client'[b].device # None =>
          /\ node[client'[b].device].from \in Grants
          /\ node[client'[b].device].from \in Pairings => grant[node[client'[b].device].from] = "delivered"
    BY <1>3, <2>1 DEF Identity, Holders
  <2> QED
    BY <1>1, <1>3, <1>6, <2>2 DEF Identity, Holders
<1>9. Pending'
  BY <1>1, <1>3, <1>4 DEF Identity, Pending
<1> QED
  BY <1>3, <1>4, <1>5, <1>7, <1>8, <1>9 DEF Identity

LEMMA ConnectStep ==
  ASSUME Inv, NEW c \in Clients, NEW s \in Sessions, connect(c, s) PROVE Inv'
<1> USE DEF Inv, Types
<1> DEFINE d == client[c].device
           x == [[[NoSession EXCEPT !.client = c] EXCEPT !.device = d] EXCEPT !.link = TRUE]
<1>1. d \in Devices /\ UNCHANGED <<grant, node, lock, log, client, instance, request, excess, faults>>
  BY DEF connect, ClientT, ClientState
<1>2. [NoSession EXCEPT !.client = c, !.device = d, !.link = TRUE] = x
  OBVIOUS
<1>3. session' = Registered(s, x)
  BY <1>2 DEF connect
<1>4. x \in SessionState /\ x.device = d /\ x.client = c
  BY <1>1 DEF NoSession, SessionState
<1> HIDE DEF x
<1>5. /\ SessionT'
      /\ \A t \in Sessions : session'[t].pc = "enrolled" =>
           t # s /\ session[t].pc = "enrolled" /\ session'[t].device = session[t].device
  BY <1>1, <1>3, <1>4, RegisteredSession
<1>6. /\ GrantT' /\ NodeT' /\ LogT' /\ ClientT' /\ InstanceT' /\ RequestT' /\ LockT' /\ ExcessT' /\ FaultsT'
  BY <1>1 DEF GrantT, NodeT, RowT, NodeRow, Bounded, LogT, ClientT, InstanceT, RequestT, AskT, LockT, ExcessT, FaultsT
<1>7. Identity'
  BY <1>1, <1>5, IdentityKept
<1> QED
  BY <1>5, <1>6, <1>7
-----------------------------------------------------------------------------
(* Reports, the log, the end of connections.                               *)

\* A session goes on, or ends; it does not enrol.
LEMMA SessionGoesOn ==
  ASSUME Inv, NEW s \in Sessions, NEW x, x \in SessionState, PlaceT(x),
         x.pc = "enrolled" => session[s].pc = "enrolled" /\ x.device = session[s].device,
         session' = [session EXCEPT ![s] = x], LogT', FaultsT',
         UNCHANGED <<grant, node, lock, client, instance, request, excess>>
  PROVE  Inv'
<1> USE DEF Inv, Types
<1>1. SessionT'
  BY SessionSet
<1>2. \A t \in Sessions : session'[t].pc = "enrolled" =>
        session[t].pc = "enrolled" /\ session'[t].device = session[t].device
  BY DEF SessionT
<1>3. GrantT' /\ NodeT' /\ ClientT' /\ InstanceT' /\ RequestT' /\ LockT' /\ ExcessT'
  BY DEF GrantT, NodeT, RowT, NodeRow, Bounded, ClientT, InstanceT, RequestT, AskT, LockT, ExcessT
<1>4. Identity'
  BY <1>2, IdentityKept
<1> QED
  BY <1>1, <1>3, <1>4

LEMMA NoSessionT == NoSession \in SessionState /\ PlaceT(NoSession)
  BY DEF NoSession, SessionState, PlaceT

LEMMA ReportStep ==
  ASSUME Inv, NEW s \in Sessions, reportStatus(s) PROVE Inv'
<1> USE DEF Inv, Types
<1> DEFINE x == [session[s] EXCEPT !.report = client[session[s].client].report]
<1>1. /\ session[s].pc = "live" /\ session' = [session EXCEPT ![s] = x]
      /\ UNCHANGED <<grant, node, lock, log, client, instance, request, excess, faults>>
  BY DEF reportStatus
<1>2. session[s] \in SessionState /\ PlaceT(session[s]) /\ client[session[s].client].report \in Reports
  BY <1>1 DEF SessionT, PlaceT, ClientT, ClientState
<1>3. x \in SessionState /\ PlaceT(x) /\ x.pc = "live"
  BY <1>1, <1>2 DEF SessionState, PlaceT
<1> HIDE DEF x
<1> QED
  BY <1>1, <1>3, SessionGoesOn DEF LogT, FaultsT

\* AutoQuota never exceeds what the server has.
LEMMA AutoBounded ==
  ASSUME NEW has \in Detected
  PROVE  AutoQuota(has) \in Nat /\ Bounded(AutoQuota(has))
<1>1. has \in Nat
  BY SelfHostedAssumption DEF SelfHostedAssumption
<1>2. AutoQuota(has) \in Nat /\ AutoQuota(has) <= has
  BY <1>1 DEF AutoQuota
<1> QED
  BY <1>2 DEF Bounded

LEMMA ReportedRow ==
  ASSUME NEW r, RowT(r), NEW report, NEW has \in Detected
  PROVE  /\ RowT(Reported(r, report, has))
         /\ Reported(r, report, has).from = r.from
         /\ Reported(r, report, has).status = r.status
<1>1. CASE report = "incomplete"
  BY <1>1 DEF Reported, RowT, NodeRow
<1>2. CASE report # "incomplete"
  <2> DEFINE q == IF r.mode = "auto" \/ r.quota <= 0 THEN AutoQuota(has) ELSE r.quota
             x == [[[[r EXCEPT !.ready = (report = "ready")] EXCEPT !.online = TRUE]
                      EXCEPT !.detected = has] EXCEPT !.quota = q]
  <2>1. [r EXCEPT !.ready = (report = "ready"), !.online = TRUE, !.detected = has, !.quota = q] = x
    OBVIOUS
  <2>2. Reported(r, report, has) = x
    BY <1>2, <2>1 DEF Reported
  <2>3. q \in Nat /\ Bounded(q)
    BY AutoBounded DEF RowT, NodeRow
  <2>4. has \in Nat
    BY SelfHostedAssumption DEF SelfHostedAssumption
  <2> HIDE DEF q
  <2>5. x \in NodeRow /\ x.detected = has /\ x.quota = q /\ x.from = r.from /\ x.status = r.status
    BY <2>3, <2>4 DEF RowT, NodeRow
  <2> HIDE DEF x
  <2> QED
    BY <2>2, <2>3, <2>5 DEF RowT
<1> QED
  BY <1>1, <1>2

LEMMA HeartbeatStep ==
  ASSUME Inv, NEW s \in Sessions, updateSelfHostedHeartbeat(s) PROVE Inv'
<1> USE DEF Inv, Types
<1> DEFINE d == session[s].device
           has == client[session[s].client].has
           row == Reported(node[d], session[s].report, has)
           x == [session[s] EXCEPT !.pc = "written"]
<1>1. /\ session[s].pc = "live" /\ session[s].report # None
      /\ node' = [node EXCEPT ![d] = row] /\ session' = [session EXCEPT ![s] = x]
      /\ excess' \in {excess, excess \cup {d}}
      /\ UNCHANGED <<grant, lock, log, client, instance, request, faults>>
  BY DEF updateSelfHostedHeartbeat
<1>2. /\ session[s] \in SessionState /\ PlaceT(session[s]) /\ d \in Devices /\ has \in Detected
      /\ session[s].report \in Reports
  BY <1>1 DEF SessionT, SessionState, PlaceT, ClientT, ClientState
<1>3. RowT(row) /\ row.from = node[d].from /\ row.status = node[d].status
  BY <1>2, ReportedRow DEF NodeT
<1>4. x \in SessionState /\ PlaceT(x) /\ x.pc = "written"
  BY <1>1, <1>2 DEF SessionState, PlaceT
<1> HIDE DEF x, row, has
<1>5. NodeT' /\ SessionT'
  BY <1>1, <1>2, <1>3, <1>4, NodeSet, SessionSet
<1>6. ExcessT'
  BY <1>1, <1>2 DEF ExcessT
<1>7. GrantT' /\ LogT' /\ ClientT' /\ InstanceT' /\ RequestT' /\ LockT' /\ FaultsT'
  BY <1>1 DEF GrantT, LogT, ClientT, InstanceT, RequestT, AskT, Bounded, LockT, FaultsT
<1>8. \A e \in Devices : node'[e].from = node[e].from /\ node'[e].status = node[e].status
  BY <1>1, <1>3 DEF NodeT
<1>9. \A t \in Sessions : session'[t].pc = "enrolled" =>
        session[t].pc = "enrolled" /\ session'[t].device = session[t].device
  BY <1>1, <1>4 DEF SessionT
<1>10. Identity'
  BY <1>1, <1>8, <1>9, IdentityKept
<1> QED
  BY <1>5, <1>6, <1>7, <1>10

LEMMA ReadLogStep ==
  ASSUME Inv, NEW s \in Sessions, ReadLog(s) PROVE Inv'
<1> USE DEF Inv, Types
<1> DEFINE x == session[s]
<1>1. /\ x \in SessionState /\ PlaceT(x) /\ x.pc \in {"written", "dropping"}
      /\ UNCHANGED <<grant, node, lock, log, client, instance, request, excess, faults>>
  BY DEF ReadLog, SessionT
<1>2. PICK y : session' = [session EXCEPT ![s] = y]
                /\ \/ y = NoSession
                   \/ y = [[x EXCEPT !.pc = "insert"] EXCEPT !.report = x.report] /\ x.pc = "written"
                   \/ y = [[x EXCEPT !.pc = "live"] EXCEPT !.report = None] /\ x.pc = "written"
                   \/ y = [[x EXCEPT !.pc = "last"] EXCEPT !.report = x.report] /\ x.pc = "dropping"
  <2>1. \A pc, report : [x EXCEPT !.pc = pc, !.report = report]
                          = [[x EXCEPT !.pc = pc] EXCEPT !.report = report]
    OBVIOUS
  <2> DEFINE next == CASE x.pc = "written"  -> IF NewEntry(x.device, x.report) THEN "insert" ELSE "live"
                       [] x.pc = "dropping" -> IF NewEntry(x.device, "disconnected") THEN "last" ELSE "off"
             report == IF next = "live" THEN None ELSE x.report
             y == IF next = "off" THEN NoSession ELSE [[x EXCEPT !.pc = next] EXCEPT !.report = report]
  <2>2. session' = [session EXCEPT ![s] = y]
    BY <2>1 DEF ReadLog
  <2>3. \/ x.pc = "written" /\ next = "insert"
        \/ x.pc = "written" /\ next = "live"
        \/ x.pc = "dropping" /\ next = "last"
        \/ x.pc = "dropping" /\ next = "off"
    BY <1>1
  <2> QED
    BY <2>2, <2>3
<1>3. y \in SessionState /\ PlaceT(y) /\ y.pc # "enrolled"
  BY <1>1, <1>2, NoSessionT DEF SessionState, PlaceT, NoSession
<1> QED
  BY <1>1, <1>2, <1>3, SessionGoesOn DEF LogT, FaultsT

LEMMA InsertLogStep ==
  ASSUME Inv, NEW s \in Sessions, InsertLog(s) PROVE Inv'
<1> USE DEF Inv, Types
<1> DEFINE x == session[s]
           y == [[x EXCEPT !.pc = "live"] EXCEPT !.report = None]
<1>1. /\ x \in SessionState /\ PlaceT(x) /\ x.pc \in {"insert", "last"}
      /\ log' = [log EXCEPT ![x.device] = IF x.pc = "insert" THEN x.report ELSE "disconnected"]
      /\ UNCHANGED <<grant, node, lock, client, instance, request, excess, faults>>
  BY DEF InsertLog, SessionT
<1>2. [x EXCEPT !.pc = "live", !.report = None] = y
  OBVIOUS
<1>3. session' = [session EXCEPT ![s] = IF x.pc = "last" THEN NoSession ELSE y]
  BY <1>2 DEF InsertLog
<1>4. y \in SessionState /\ PlaceT(y) /\ y.pc = "live"
  BY <1>1 DEF SessionState, PlaceT
<1>5. LogT'
  BY <1>1 DEF LogT, PlaceT
<1>6. NoSession.pc # "enrolled"
  BY DEF NoSession
<1> HIDE DEF y
<1> QED
  BY <1>1, <1>3, <1>4, <1>5, <1>6, NoSessionT, SessionGoesOn DEF FaultsT

LEMMA CloseStep ==
  ASSUME Inv, NEW s \in Sessions, LinkBreaks(s) \/ RevokedCloses(s) PROVE Inv'
<1> USE DEF Inv, Types
<1> DEFINE x == [session[s] EXCEPT !.link = FALSE]
<1>1. /\ session' = [session EXCEPT ![s] = x]
      /\ UNCHANGED <<grant, node, lock, log, client, instance, request, excess>>
  BY DEF LinkBreaks, RevokedCloses
<1>2. session[s] \in SessionState /\ PlaceT(session[s])
  BY DEF SessionT
<1>3. x \in SessionState /\ PlaceT(x) /\ x.pc = session[s].pc /\ x.device = session[s].device
  BY <1>2 DEF SessionState, PlaceT
<1>4. LogT' /\ FaultsT'
  BY <1>1, FaultT DEF LogT, FaultsT, LinkBreaks, RevokedCloses
<1> HIDE DEF x
<1> QED
  BY <1>1, <1>3, <1>4, SessionGoesOn

LEMMA DropStep ==
  ASSUME Inv, NEW s \in Sessions, dropSession(s) PROVE Inv'
<1> USE DEF Inv, Types
<1> DEFINE x == session[s]
           y == [[x EXCEPT !.pc = "dropping"] EXCEPT !.report = None]
<1>1. /\ x \in SessionState /\ PlaceT(x) /\ x.pc \in {"enrolled", "live"}
      /\ UNCHANGED <<grant, node, lock, log, client, instance, request, excess, faults>>
  BY DEF dropSession, SessionT
<1>2. [x EXCEPT !.pc = "dropping", !.report = None] = y
  OBVIOUS
<1>3. \E z \in {NoSession, y} : session' = [session EXCEPT ![s] = z]
  BY <1>2 DEF dropSession
<1>4. y \in SessionState /\ PlaceT(y) /\ y.pc = "dropping"
  BY <1>1 DEF SessionState, PlaceT
<1>5. NoSession.pc # "enrolled"
  BY DEF NoSession
<1> HIDE DEF y
<1> QED
  BY <1>1, <1>3, <1>4, <1>5, NoSessionT, SessionGoesOn DEF LogT, FaultsT

\* A row of a node is written: its origin stays, and it is not unmade.
LEMMA NodeWritten ==
  ASSUME Inv, NEW d \in Devices, NEW r, RowT(r), r.from = node[d].from,
         r.status = "none" => node[d].status = "none",
         node' = [node EXCEPT ![d] = r], LogT', ExcessT', RequestT', LockT',
         UNCHANGED <<grant, client, session, instance, faults>>
  PROVE  Inv'
<1> USE DEF Inv, Types
<1>1. NodeT'
  BY NodeSet
<1>2. \A e \in Devices : /\ node'[e].from = node[e].from
                         /\ node'[e].status = "none" => node[e].status = "none"
  BY DEF NodeT
<1>3. GrantT' /\ ClientT' /\ SessionT' /\ InstanceT' /\ FaultsT'
  BY DEF GrantT, ClientT, SessionT, PlaceT, InstanceT, FaultsT
<1>4. Identity'
  BY <1>2, IdentityKept
<1> QED
  BY <1>1, <1>3, <1>4

LEMMA StaleStep ==
  ASSUME Inv, NEW d \in Devices, HeartbeatStale(d) PROVE Inv'
<1> USE DEF Inv, Types
<1> DEFINE r == [node[d] EXCEPT !.online = FALSE]
<1>1. /\ node' = [node EXCEPT ![d] = r]
      /\ UNCHANGED <<grant, lock, log, client, session, instance, request, excess, faults>>
  BY DEF HeartbeatStale
<1>2. RowT(r) /\ r.from = node[d].from /\ r.status = node[d].status
  BY DEF NodeT, RowT, NodeRow
<1>3. LogT' /\ ExcessT' /\ RequestT' /\ LockT'
  BY <1>1 DEF LogT, ExcessT, RequestT, AskT, Bounded, LockT
<1> HIDE DEF r
<1> QED
  BY <1>1, <1>2, <1>3, NodeWritten

LEMMA ServerStep ==
  ASSUME Inv, NEW c \in Clients, ServerChanges(c) PROVE Inv'
<1> USE DEF Inv, Types
<1>1. UNCHANGED <<grant, node, lock, log, session, instance, request, excess>>
  BY DEF ServerChanges
<1>2. ClientT' /\ \A b \in Clients : client'[b].device = client[b].device
  BY DEF ServerChanges, ClientT, ClientState
<1>3. FaultsT'
  BY FaultT DEF ServerChanges
<1>4. GrantT' /\ NodeT' /\ LogT' /\ SessionT' /\ InstanceT' /\ RequestT' /\ LockT' /\ ExcessT'
  BY <1>1 DEF GrantT, NodeT, RowT, NodeRow, Bounded, LogT, SessionT, PlaceT, InstanceT, RequestT,
     AskT, LockT, ExcessT
<1>5. Identity'
  BY <1>1, <1>2, IdentityKept
<1> QED
  BY <1>2, <1>3, <1>4, <1>5
-----------------------------------------------------------------------------
(* Requests of the owner.                                                  *)

LEMMA RequestMoves ==
  ASSUME Inv, RequestT', LockT', InstanceT', FaultsT',
         UNCHANGED <<grant, node, log, client, session, excess>>
  PROVE  Inv'
<1> USE DEF Inv, Types
<1>1. GrantT' /\ NodeT' /\ LogT' /\ ClientT' /\ SessionT' /\ ExcessT'
  BY DEF GrantT, NodeT, RowT, NodeRow, Bounded, LogT, ClientT, SessionT, PlaceT, ExcessT
<1>2. Identity'
  BY IdentityKept
<1> QED
  BY <1>1, <1>2

LEMMA ZeroBounded == Bounded(0)
  BY SelfHostedAssumption DEF SelfHostedAssumption, Bounded

LEMMA NoRequestT == NoRequest \in RequestState /\ AskT(NoRequest) /\ NoRequest.pc = "idle"
  BY ZeroBounded DEF NoRequest, RequestState, AskT

LEMMA CreateChecksStep ==
  ASSUME Inv, NEW r \in Requests, NEW d \in Devices, CreateChecks(r, d) PROVE Inv'
<1> USE DEF Inv, Types
<1> DEFINE x == [pc |-> "admit", node |-> d, quota |-> 0]
<1>1. /\ request[r].pc = "idle" /\ request' = [request EXCEPT ![r] = x]
      /\ UNCHANGED <<grant, node, lock, log, client, session, instance, excess, faults>>
  BY DEF CreateChecks, Idle, Begin
<1>2. x \in RequestState /\ AskT(x)
  BY ZeroBounded DEF RequestState, AskT
<1> HIDE DEF x
<1>3. RequestT' /\ LockT'
  BY <1>1, <1>2, RequestSet
<1> QED
  BY <1>1, <1>3, RequestMoves DEF InstanceT, FaultsT

LEMMA QuotaChecksStep ==
  ASSUME Inv, NEW r \in Requests, NEW d \in Devices, NEW q \in Quotas, QuotaChecks(r, d, q) PROVE Inv'
<1> USE DEF Inv, Types
<1> DEFINE x == [pc |-> "quota", node |-> d, quota |-> q]
<1>1. /\ request[r].pc = "idle" /\ request' = [request EXCEPT ![r] = x]
      /\ 0 < q /\ q <= node[d].detected
      /\ UNCHANGED <<grant, node, lock, log, client, session, instance, excess, faults>>
  BY DEF QuotaChecks, Idle, Begin
<1>2. q \in Nat /\ Bounded(q)
  <2>1. q \in Nat /\ Detected \subseteq Nat
    BY SelfHostedAssumption DEF SelfHostedAssumption
  <2>2. node[d].detected \in Detected \cup {0}
    BY DEF NodeT, RowT
  <2>3. node[d].detected \in Detected
    BY <1>1, <2>1, <2>2
  <2> QED
    BY <1>1, <2>1, <2>3 DEF Bounded
<1>3. x \in RequestState /\ AskT(x)
  BY <1>2 DEF RequestState, AskT
<1> HIDE DEF x
<1>4. RequestT' /\ LockT'
  BY <1>1, <1>3, RequestSet
<1> QED
  BY <1>1, <1>4, RequestMoves DEF InstanceT, FaultsT

LEMMA CreateLocksStep ==
  ASSUME Inv, NEW r \in Requests, CreateLocks(r) PROVE Inv'
<1> USE DEF Inv, Types
<1> DEFINE d == request[r].node
<1>1. /\ request[r].pc = "admit" /\ lock[d] = None
      /\ UNCHANGED <<grant, node, log, client, session, instance, excess, faults>>
  BY DEF CreateLocks
<1>2. /\ request[r] \in RequestState /\ AskT(request[r]) /\ d \in Devices /\ request[r].quota = 0
  BY <1>1 DEF RequestT, AskT
<1>3. CASE lock' = lock /\ request' = [request EXCEPT ![r] = NoRequest]
  <2>1. RequestT' /\ LockT'
    BY <1>1, <1>3, NoRequestT, RequestSet
  <2> QED
    BY <1>1, <2>1, RequestMoves DEF InstanceT, FaultsT
<1>4. CASE lock' = [lock EXCEPT ![d] = r] /\ request' = [request EXCEPT ![r].pc = "locked"]
  <2> DEFINE x == [pc |-> "locked", node |-> d, quota |-> 0]
  <2>1. [request[r] EXCEPT !.pc = "locked"] = x
    BY <1>2 DEF RequestState
  <2>2. request' = [request EXCEPT ![r] = x]
    BY <1>4, <2>1
  <2>3. x \in RequestState /\ AskT(x)
    BY <1>2, ZeroBounded DEF RequestState, AskT
  <2>4. \A e \in Devices : lock[e] # None => lock[e] # r
    <3> SUFFICES ASSUME NEW e \in Devices, lock[e] # None, lock[e] = r PROVE FALSE
      OBVIOUS
    <3>1. request[r] = [pc |-> "locked", node |-> e, quota |-> 0]
      BY DEF LockT
    <3> QED
      BY <1>1, <3>1
  <2> HIDE DEF x
  <2>5. RequestT' /\ request'[r] = x /\ \A t \in Requests : t # r => request'[t] = request[t]
    BY <2>2, <2>3 DEF RequestT, RequestState, AskT, Bounded
  <2>6. LockT'
    <3>1. lock' \in [Devices -> Requests \cup {None}]
      BY <1>4 DEF LockT
    <3>2. ASSUME NEW e \in Devices, lock'[e] # None
          PROVE  request'[lock'[e]] = [pc |-> "locked", node |-> e, quota |-> 0]
      <4>1. CASE e = d
        BY <1>2, <1>4, <2>5, <4>1 DEF LockT, x
      <4>2. CASE e # d
        <5>1. lock'[e] = lock[e] /\ lock[e] \in Requests
          BY <1>4, <3>2, <4>2 DEF LockT
        <5> QED
          BY <2>4, <2>5, <3>2, <5>1 DEF LockT
      <4> QED
        BY <4>1, <4>2
    <3> QED
      BY <3>1, <3>2 DEF LockT
  <2> QED
    BY <1>1, <2>5, <2>6, RequestMoves DEF InstanceT, FaultsT
<1> QED
  BY <1>3, <1>4 DEF CreateLocks, RowLocked, End

\* The transaction of a request is over.
LEMMA UnlockedT ==
  ASSUME RequestT, LockT, NEW r \in Requests, lock' = Unlocked(r), End(r)
  PROVE  RequestT' /\ LockT'
<1>1. /\ RequestT' /\ \A t \in Requests : t # r => request'[t] = request[t]
  BY NoRequestT DEF End, RequestT, RequestState, AskT, Bounded
<1>2. lock' \in [Devices -> Requests \cup {None}]
  BY DEF Unlocked, LockT
<1>3. \A e \in Devices : lock'[e] # None => lock'[e] = lock[e] /\ lock[e] # r
  BY DEF Unlocked
<1> QED
  BY <1>1, <1>2, <1>3 DEF LockT

LEMMA CreateCommitsStep ==
  ASSUME Inv, NEW r \in Requests, CreateCommits(r) PROVE Inv'
<1> USE DEF Inv, Types
<1> DEFINE x == [status |-> "deploying", node |-> request[r].node]
<1>1. /\ request[r].pc = "locked" /\ lock' = Unlocked(r) /\ End(r)
      /\ UNCHANGED <<grant, node, log, client, session, excess, faults>>
  BY DEF CreateCommits
<1>2. PICK i : instance' = [instance EXCEPT ![i] = x]
  BY DEF CreateCommits
<1>3. request[r].node \in Devices
  BY <1>1 DEF RequestT, AskT
<1>4. InstanceT'
  BY <1>2, <1>3 DEF InstanceT, InstanceStatuses
<1>5. RequestT' /\ LockT'
  BY <1>1, UnlockedT
<1> QED
  BY <1>1, <1>4, <1>5, RequestMoves DEF FaultsT

LEMMA RequestFailsStep ==
  ASSUME Inv, NEW r \in Requests, RequestFails(r) PROVE Inv'
<1> USE DEF Inv, Types
<1>1. /\ lock' = Unlocked(r) /\ End(r) /\ Fault
      /\ UNCHANGED <<grant, node, log, client, session, instance, excess>>
  BY DEF RequestFails
<1>2. RequestT' /\ LockT' /\ FaultsT'
  BY <1>1, UnlockedT, FaultT
<1> QED
  BY <1>1, <1>2, RequestMoves DEF InstanceT

LEMMA QuotaWritesStep ==
  ASSUME Inv, NEW r \in Requests, QuotaWrites(r) PROVE Inv'
<1> USE DEF Inv, Types
<1> DEFINE d == request[r].node
           x == [[node[d] EXCEPT !.quota = request[r].quota] EXCEPT !.mode = "manual"]
<1>1. /\ request[r].pc = "quota" /\ request' = [request EXCEPT ![r] = NoRequest]
      /\ node' = [node EXCEPT ![d] = x] /\ excess' \in {excess, excess \cup {d}}
      /\ UNCHANGED <<grant, lock, log, client, session, instance, faults>>
  BY DEF QuotaWrites, End
<1>2. request[r] \in RequestState /\ d \in Devices /\ Bounded(request[r].quota)
  BY <1>1 DEF RequestT, AskT
<1>3. RowT(x) /\ x.from = node[d].from /\ x.status = node[d].status
  BY <1>2 DEF NodeT, RowT, NodeRow, RequestState
<1>4. RequestT' /\ LockT'
  BY <1>1, NoRequestT, RequestSet
<1>5. LogT' /\ ExcessT'
  BY <1>1, <1>2 DEF LogT, ExcessT
<1> HIDE DEF x
<1> QED
  BY <1>1, <1>2, <1>3, <1>4, <1>5, NodeWritten

LEMMA RevokeStep ==
  ASSUME Inv, NEW d \in Devices, controlSelfHostedNodeRevoke(d) PROVE Inv'
<1> USE DEF Inv, Types
<1> DEFINE x == [[node[d] EXCEPT !.status = "revoked"] EXCEPT !.ready = FALSE]
<1>1. /\ node' = [node EXCEPT ![d] = x] /\ log' = [log EXCEPT ![d] = "revoked"]
      /\ UNCHANGED <<grant, lock, client, session, instance, request, excess, faults>>
  BY DEF controlSelfHostedNodeRevoke, Revoked
<1>2. RowT(x) /\ x.from = node[d].from /\ x.status = "revoked"
  BY DEF NodeT, RowT, NodeRow
<1>3. LogT' /\ ExcessT' /\ RequestT' /\ LockT'
  BY <1>1 DEF LogT, ExcessT, RequestT, AskT, Bounded, LockT
<1> HIDE DEF x
<1> QED
  BY <1>1, <1>2, <1>3, NodeWritten

LEMMA InstanceStep ==
  ASSUME Inv, NEW i \in Instances, InstanceEnds(i) \/ queueDeploymentRetry(i) PROVE Inv'
<1> USE DEF Inv, Types
<1>1. /\ UNCHANGED <<grant, node, lock, log, client, session, request>>
      /\ instance[i].status # "none"
      /\ instance[i].node \in Devices
  BY DEF InstanceEnds, queueDeploymentRetry, InstanceT
<1>2. InstanceT'
  BY <1>1 DEF InstanceEnds, queueDeploymentRetry, InstanceT, InstanceStatuses
<1>3. FaultsT'
  BY FaultT DEF InstanceEnds, queueDeploymentRetry, FaultsT
<1>4. ExcessT'
  BY <1>1 DEF InstanceEnds, queueDeploymentRetry, ExcessT
<1>5. GrantT' /\ NodeT' /\ LogT' /\ ClientT' /\ SessionT' /\ RequestT' /\ LockT'
  BY <1>1 DEF GrantT, NodeT, RowT, NodeRow, Bounded, LogT, ClientT, SessionT, PlaceT, RequestT, AskT, LockT
<1>6. Identity'
  BY <1>1, IdentityKept
<1> QED
  BY <1>2, <1>3, <1>4, <1>5, <1>6
-----------------------------------------------------------------------------
LEMMA NextInv == Inv /\ [Next]_vars => Inv'
<1> SUFFICES ASSUME Inv, [Next]_vars PROVE Inv'
  OBVIOUS
<1>1. CASE UNCHANGED vars
  BY <1>1, Stutter
<1>2. CASE Enrolment
  BY <1>2, GrantStep, ApproveStep, PollStep, ServerStep, EnrollStep, ConnectStep DEF Enrolment
<1>3. CASE \E s \in Sessions : Gateway(s) \/ LinkBreaks(s)
  BY <1>3, ClientSavesStep, ReportStep, HeartbeatStep, ReadLogStep, InsertLogStep, CloseStep, DropStep
     DEF Gateway
<1>4. CASE \E d \in Devices : HeartbeatStale(d)
  BY <1>4, StaleStep
<1>5. CASE Owner
  BY <1>5, CreateLocksStep, CreateCommitsStep, QuotaWritesStep, RequestFailsStep, CreateChecksStep,
     QuotaChecksStep, RevokeStep, InstanceStep DEF Owner, Decided
<1> QED
  BY <1>1, <1>2, <1>3, <1>4, <1>5 DEF Next

\* Every reachable state is well typed: a node row is locked by the request that
\* is in its transaction, and no quota is more than a server may have.
THEOREM TypeCorrect == Spec => []TypeOK
<1> QED
  BY InitInv, NextInv, InvTypes, PTL DEF Spec

\* enroll, controlAuthorizationApprove, controlAuthorizationPoll: however often
\* and by whomever a token or an approval is used, and whatever is lost, it
\* makes one device, whose credential at most one server has.
THEOREM IdentityCorrect == Spec => []OneIdentity
<1> QED
  BY InitInv, NextInv, InvIdentity, PTL DEF Spec
-----------------------------------------------------------------------------
(* The quota.  A creation that has its node row locked is counted before its   *)
(* instance exists, and the lock is held as long as the request needs it.  *)

Room(d) == d \in excess \/ Used(d) + Admitted(d) <= node[d].quota
Holds == \A r \in Requests : request[r].pc = "locked" => lock[request[r].node] = r
Admission == (\A d \in Devices : Room(d)) /\ Holds

Using(d) == {i \in Instances : instance[i].node = d /\ instance[i].status \in {"deploying", "running"}}

LEMMA UsedIs ==
  ASSUME NEW d \in Devices
  PROVE  Used(d) = Cardinality(Using(d)) /\ IsFiniteSet(Using(d)) /\ Used(d) \in Nat
<1>1. IsFiniteSet(Using(d))
  BY SelfHostedAssumption, FS_Subset DEF SelfHostedAssumption, Using
<1>2. Used(d) = Cardinality(Using(d))
  BY DEF Used, Using
<1> QED
  BY <1>1, <1>2, FS_CardinalityType

LEMMA UsedIsNext ==
  ASSUME NEW d \in Devices
  PROVE  Used(d)' = Cardinality(Using(d)') /\ IsFiniteSet(Using(d)') /\ Used(d)' \in Nat
<1>1. IsFiniteSet(Using(d)')
  BY SelfHostedAssumption, FS_Subset DEF SelfHostedAssumption, Using
<1>2. Used(d)' = Cardinality(Using(d)')
  BY DEF Used, Using
<1> QED
  BY <1>1, <1>2, FS_CardinalityType

\* No more instances use the node, or one more.
LEMMA UsedLess ==
  ASSUME NEW d \in Devices, Using(d)' \subseteq Using(d) PROVE Used(d)' <= Used(d)
  BY UsedIs, UsedIsNext, FS_Subset

LEMMA UsedMore ==
  ASSUME NEW d \in Devices, NEW i, Using(d)' \subseteq Using(d) \cup {i} PROVE Used(d)' <= Used(d) + 1
<1>1. /\ IsFiniteSet(Using(d) \cup {i})
      /\ Cardinality(Using(d) \cup {i}) <= Cardinality(Using(d)) + 1
      /\ Cardinality(Using(d) \cup {i}) \in Nat
  BY UsedIs, FS_AddElement, FS_CardinalityType
<1>2. Cardinality(Using(d)') <= Cardinality(Using(d) \cup {i})
  BY <1>1, FS_Subset
<1> QED
  BY <1>1, <1>2, UsedIs, UsedIsNext

LEMMA UsedSame == ASSUME instance' = instance, NEW d \in Devices PROVE Used(d)' = Used(d)
  BY DEF Used

LEMMA QuotaNat == ASSUME NodeT, NEW d \in Devices PROVE node[d].quota \in Nat
  BY DEF NodeT, NodeRow

\* Most steps change nothing that admission depends on.
LEMMA AdmissionKept ==
  ASSUME Admission, UNCHANGED <<lock, instance, excess>>,
         \A d \in Devices : node'[d].quota = node[d].quota,
         \A r \in Requests : request'[r].pc = "locked" => request'[r] = request[r]
  PROVE  Admission'
<1>1. \A d \in Devices : Used(d)' = Used(d) /\ Admitted(d)' = Admitted(d)
  BY UsedSame DEF Admitted
<1>2. \A d \in Devices : Room(d)'
  BY <1>1 DEF Admission, Room
<1>3. Holds'
  BY DEF Admission, Holds
<1> QED
  BY <1>2, <1>3 DEF Admission

\* The quota of an unlocked row is written, and noted if it is exceeded.
LEMMA AdmissionWritten ==
  ASSUME Inv, Admission, NEW d \in Devices, lock[d] = None, NEW q \in Nat, node'[d].quota = q,
         \A e \in Devices : e # d => node'[e] = node[e],
         excess' = (IF Used(d) > q THEN excess \cup {d} ELSE excess),
         UNCHANGED <<lock, instance>>,
         \A r \in Requests : request'[r].pc = "locked" => request'[r] = request[r]
  PROVE  Admission'
<1>1. \A e \in Devices : Used(e)' = Used(e) /\ Admitted(e)' = Admitted(e) /\ Used(e) \in Nat
  BY UsedSame, UsedIs DEF Admitted
<1>2. Admitted(d) = 0
  BY DEF Admitted
<1>3. Room(d)'
  BY <1>1, <1>2 DEF Room
<1>4. \A e \in Devices : e # d => Room(e)'
  BY <1>1 DEF Admission, Room
<1>5. Holds'
  BY DEF Admission, Holds
<1> QED
  BY <1>3, <1>4, <1>5 DEF Admission

LEMMA HeartbeatAdmission ==
  ASSUME Inv, Admission, NEW s \in Sessions, updateSelfHostedHeartbeat(s) PROVE Admission'
<1> USE DEF Inv, Types
<1> DEFINE d == session[s].device
           has == client[session[s].client].has
           row == Reported(node[d], session[s].report, has)
<1>1. /\ session[s].pc = "live" /\ lock[d] = None /\ node' = [node EXCEPT ![d] = row]
      /\ excess' = (IF Used(d) > row.quota THEN excess \cup {d} ELSE excess)
      /\ UNCHANGED <<lock, instance, request>>
  BY DEF updateSelfHostedHeartbeat
<1>2. d \in Devices /\ has \in Detected
  BY <1>1 DEF SessionT, PlaceT, ClientT, ClientState
<1>3. row.quota \in Nat
  BY <1>2, ReportedRow DEF NodeT, RowT, NodeRow
<1>4. node'[d].quota = row.quota /\ \A e \in Devices : e # d => node'[e] = node[e]
  BY <1>1, <1>2 DEF NodeT
<1> HIDE DEF row, has
<1> QED
  BY <1>1, <1>2, <1>3, <1>4, AdmissionWritten

LEMMA QuotaWritesAdmission ==
  ASSUME Inv, Admission, NEW r \in Requests, QuotaWrites(r) PROVE Admission'
<1> USE DEF Inv, Types
<1> DEFINE d == request[r].node
           q == request[r].quota
           x == [[node[d] EXCEPT !.quota = q] EXCEPT !.mode = "manual"]
<1>1. /\ request[r].pc = "quota" /\ lock[d] = None /\ node' = [node EXCEPT ![d] = x]
      /\ request' = [request EXCEPT ![r] = NoRequest]
      /\ excess' = (IF Used(d) > q THEN excess \cup {d} ELSE excess)
      /\ UNCHANGED <<lock, instance>>
  BY DEF QuotaWrites, End
<1>2. d \in Devices /\ q \in Nat
  BY <1>1 DEF RequestT, AskT, RequestState
<1>3. x.quota = q
  BY <1>2 DEF NodeT, NodeRow
<1> HIDE DEF x
<1>4. node'[d].quota = q /\ \A e \in Devices : e # d => node'[e] = node[e]
  BY <1>1, <1>2, <1>3 DEF NodeT
<1>5. \A t \in Requests : request'[t].pc = "locked" => request'[t] = request[t]
  BY <1>1, NoRequestT DEF RequestT
<1> HIDE DEF d, q
<1> QED
  BY <1>1, <1>2, <1>4, <1>5, AdmissionWritten

LEMMA CreateLocksAdmission ==
  ASSUME Inv, Admission, NEW r \in Requests, CreateLocks(r) PROVE Admission'
<1> USE DEF Inv, Types
<1>0. request[r].pc = "admit" /\ UNCHANGED <<node, instance, excess>>
  BY DEF CreateLocks
<1>2. PICK d \in Devices : d = request[r].node
  BY <1>0 DEF RequestT, AskT
<1>1. /\ request[r].pc = "admit" /\ lock[d] = None /\ UNCHANGED <<node, instance, excess>>
  BY <1>0, <1>2 DEF CreateLocks
<1>3. CASE lock' = lock /\ request' = [request EXCEPT ![r] = NoRequest]
  <2>1. \A t \in Requests : request'[t].pc = "locked" => request'[t] = request[t]
    BY <1>3, NoRequestT DEF RequestT
  <2> QED
    BY <1>1, <1>3, <2>1, AdmissionKept
<1>4. CASE /\ lock' = [lock EXCEPT ![d] = r] /\ request' = [request EXCEPT ![r].pc = "locked"]
           /\ Used(d) + 1 <= node[d].quota
  <2>1. \A e \in Devices : Used(e)' = Used(e)
    BY <1>1, UsedSame
  <2>2. lock'[d] = r /\ \A e \in Devices : e # d => lock'[e] = lock[e]
    BY <1>2, <1>4 DEF LockT
  <2>3. Room(d)'
    BY <1>1, <1>4, <2>1, <2>2, SelfHostedAssumption DEF Room, Admitted, SelfHostedAssumption
  <2>4. \A e \in Devices : e # d => Room(e)'
    BY <1>1, <2>1, <2>2 DEF Admission, Room, Admitted
  <2>5. /\ request'[r].node = d
        /\ \A t \in Requests : t # r => request'[t] = request[t]
    BY <1>2, <1>4 DEF RequestT, RequestState
  <2>6. \A t \in Requests : request[t].pc = "locked" => request[t].node \in Devices /\ t # None
    BY SelfHostedAssumption DEF RequestT, AskT, SelfHostedAssumption
  <2>7. Holds'
    BY <1>1, <2>2, <2>5, <2>6 DEF Admission, Holds
  <2> QED
    BY <2>3, <2>4, <2>7 DEF Admission
<1> QED
  BY <1>2, <1>3, <1>4 DEF CreateLocks, RowLocked, End

\* A transaction ends: its instance, if any, is what it was admitted for.
LEMMA UnlockedAdmission ==
  ASSUME Inv, Admission, NEW r \in Requests, lock' = Unlocked(r), End(r), UNCHANGED <<node, excess>>,
         \A d \in Devices : Used(d)' + Admitted(d)' <= Used(d) + Admitted(d)
  PROVE  Admission'
<1> USE DEF Inv, Types
<1>1. \A d \in Devices : /\ Used(d) \in Nat /\ Used(d)' \in Nat /\ node[d].quota \in Nat
                         /\ Admitted(d) \in Nat /\ Admitted(d)' \in Nat
  BY UsedIs, UsedIsNext, QuotaNat DEF Admitted
<1>2. \A d \in Devices : Room(d)'
  BY <1>1 DEF Admission, Room
<1>3. request'[r].pc = "idle" /\ \A t \in Requests : t # r => request'[t] = request[t]
  BY NoRequestT DEF End, RequestT
<1>4. \A t \in Requests : request[t].pc = "locked" => request[t].node \in Devices
  BY DEF RequestT, AskT
<1>5. \A t \in Requests, d \in Devices : t # r /\ lock[d] = t => lock'[d] = t
  BY DEF Unlocked
<1>6. Holds'
  BY <1>3, <1>4, <1>5 DEF Admission, Holds
<1> QED
  BY <1>2, <1>6 DEF Admission

LEMMA CreateCommitsAdmission ==
  ASSUME Inv, Admission, NEW r \in Requests, CreateCommits(r) PROVE Admission'
<1> USE DEF Inv, Types
<1>1. /\ request[r].pc = "locked" /\ lock' = Unlocked(r) /\ End(r) /\ UNCHANGED <<node, excess>>
  BY DEF CreateCommits
<1>0. PICK d \in Devices : d = request[r].node
  BY <1>1 DEF RequestT, AskT
<1>2. PICK i : instance' = [instance EXCEPT ![i] = [status |-> "deploying", node |-> d]]
  BY <1>0 DEF CreateCommits
<1>3. d \in Devices /\ lock[d] = r /\ r # None
  BY <1>0, <1>1, SelfHostedAssumption DEF RequestT, AskT, Admission, Holds, SelfHostedAssumption
<1>4. \A e \in Devices : Used(e) \in Nat /\ Used(e)' \in Nat
  BY UsedIs, UsedIsNext
<1>5. Used(d)' + Admitted(d)' <= Used(d) + Admitted(d)
  <2>1. Using(d)' \subseteq Using(d) \cup {i}
    BY <1>2 DEF Using, InstanceT
  <2>2. Used(d)' <= Used(d) + 1
    BY <1>3, <2>1, UsedMore
  <2>3. Admitted(d) = 1 /\ Admitted(d)' = 0
    BY <1>1, <1>3 DEF Admitted, Unlocked
  <2> QED
    BY <1>3, <1>4, <2>2, <2>3
<1>6. ASSUME NEW e \in Devices, e # d
      PROVE  Used(e)' + Admitted(e)' <= Used(e) + Admitted(e)
  <2>1. Using(e)' \subseteq Using(e)
    BY <1>2, <1>6 DEF Using, InstanceT
  <2>2. Used(e)' <= Used(e)
    BY <2>1, UsedLess
  <2>3. Admitted(e) \in {0, 1} /\ Admitted(e)' \in {0, 1} /\ Admitted(e)' <= Admitted(e)
    BY <1>1 DEF Admitted, Unlocked
  <2> QED
    BY <1>4, <2>2, <2>3
<1> QED
  BY <1>1, <1>5, <1>6, UnlockedAdmission

LEMMA RequestFailsAdmission ==
  ASSUME Inv, Admission, NEW r \in Requests, RequestFails(r) PROVE Admission'
<1>1. lock' = Unlocked(r) /\ End(r) /\ UNCHANGED <<node, instance, excess>>
  BY DEF RequestFails
<1>2. ASSUME NEW d \in Devices PROVE Used(d)' + Admitted(d)' <= Used(d) + Admitted(d)
  <2>1. Used(d)' = Used(d) /\ Used(d) \in Nat
    BY <1>1, UsedSame, UsedIs
  <2>2. Admitted(d) \in {0, 1} /\ Admitted(d)' \in {0, 1} /\ Admitted(d)' <= Admitted(d)
    BY <1>1 DEF Admitted, Unlocked
  <2> QED
    BY <2>1, <2>2
<1> QED
  BY <1>1, <1>2, UnlockedAdmission

LEMMA InstanceAdmission ==
  ASSUME Inv, Admission, NEW i \in Instances, InstanceEnds(i) \/ queueDeploymentRetry(i)
  PROVE  Admission'
<1> USE DEF Inv, Types
<1>1. UNCHANGED <<node, lock, request>> /\ Holds'
  BY DEF InstanceEnds, queueDeploymentRetry, Admission, Holds
<1>2. \A d \in Devices : /\ Admitted(d)' = Admitted(d) /\ Admitted(d) \in Nat
                         /\ Used(d) \in Nat /\ Used(d)' \in Nat /\ node[d].quota \in Nat
  BY <1>1, UsedIs, UsedIsNext, QuotaNat DEF Admitted
<1>3. CASE InstanceEnds(i)
  <2>1. \A d \in Devices : Using(d)' \subseteq Using(d)
    BY <1>3 DEF InstanceEnds, Using, InstanceT
  <2>2. \A d \in Devices : Used(d)' <= Used(d)
    BY <2>1, UsedLess
  <2>3. excess' = excess
    BY <1>3 DEF InstanceEnds
  <2> QED
    BY <1>1, <1>2, <2>2, <2>3 DEF Admission, Room
<1>4. CASE queueDeploymentRetry(i)
  <2>0. PICK d \in Devices : d = instance[i].node
    BY <1>4 DEF queueDeploymentRetry, InstanceT
  <2>1. \A e \in Devices : Using(e)' \subseteq Using(e) \cup {i}
    BY <1>4 DEF queueDeploymentRetry, Using, InstanceT
  <2>2. \A e \in Devices : e # d => Using(e)' \subseteq Using(e)
    BY <1>4, <2>0 DEF queueDeploymentRetry, Using, InstanceT
  <2>3. d \in Devices /\ excess' = (IF Used(d) + Admitted(d) + 1 > node[d].quota THEN excess \cup {d} ELSE excess)
    BY <1>4, <2>0 DEF queueDeploymentRetry, InstanceT
  <2>4. Used(d)' <= Used(d) + 1 /\ \A e \in Devices : e # d => Used(e)' <= Used(e)
    BY <2>1, <2>2, <2>3, UsedMore, UsedLess
  <2>5. Room(d)'
    BY <1>1, <1>2, <2>3, <2>4 DEF Admission, Room
  <2>6. \A e \in Devices : e # d => Room(e)'
    BY <1>1, <1>2, <2>3, <2>4 DEF Admission, Room
  <2> QED
    BY <1>1, <2>5, <2>6 DEF Admission
<1> QED
  BY <1>3, <1>4

\* A row that gets another status, or is marked as offline, keeps its quota.
LEMMA NodeAdmission ==
  ASSUME Inv, Admission,
         \/ \E g \in Grants : controlAuthorizationApprove(g)
         \/ \E c \in Clients, s \in Sessions : enroll(c, s)
         \/ \E d \in Devices : HeartbeatStale(d) \/ controlSelfHostedNodeRevoke(d)
  PROVE  Admission'
<1> USE DEF Inv, Types
<1>1. UNCHANGED <<lock, instance, request, excess>>
  BY DEF controlAuthorizationApprove, enroll, HeartbeatStale, controlSelfHostedNodeRevoke
<1>2. \A d \in Devices : node'[d].quota = node[d].quota
  <2>1. ASSUME NEW d, NEW r, r.quota = node[d].quota, node' = [node EXCEPT ![d] = r]
        PROVE  \A e \in Devices : node'[e].quota = node[e].quota
    BY <2>1 DEF NodeT
  <2>2. ASSUME NEW d \in Devices, NEW g, node' = Created(d, g)
        PROVE  \A e \in Devices : node'[e].quota = node[e].quota
    <3> DEFINE r == [[node[d] EXCEPT !.status = "enabled"] EXCEPT !.from = g]
    <3>1. node' = [node EXCEPT ![d] = r]
      BY <2>2 DEF Created
    <3>2. r.quota = node[d].quota
      BY DEF NodeT, NodeRow
    <3> HIDE DEF r
    <3> QED
      BY <2>1, <3>1, <3>2
  <2>3. ASSUME NEW d \in Devices, HeartbeatStale(d)
        PROVE  \A e \in Devices : node'[e].quota = node[e].quota
    <3> DEFINE r == [node[d] EXCEPT !.online = FALSE]
    <3>1. node' = [node EXCEPT ![d] = r]
      BY <2>3 DEF HeartbeatStale
    <3>2. r.quota = node[d].quota
      BY DEF NodeT, NodeRow
    <3> HIDE DEF r
    <3> QED
      BY <2>1, <3>1, <3>2
  <2>4. ASSUME NEW d \in Devices, controlSelfHostedNodeRevoke(d)
        PROVE  \A e \in Devices : node'[e].quota = node[e].quota
    <3> DEFINE r == [[node[d] EXCEPT !.status = "revoked"] EXCEPT !.ready = FALSE]
    <3>1. node' = [node EXCEPT ![d] = r]
      BY <2>4 DEF controlSelfHostedNodeRevoke, Revoked
    <3>2. r.quota = node[d].quota
      BY DEF NodeT, NodeRow
    <3> HIDE DEF r
    <3> QED
      BY <2>1, <3>1, <3>2
  <2> QED
    BY <2>2, <2>3, <2>4, NextUnused DEF controlAuthorizationApprove, enroll
<1> QED
  BY <1>1, <1>2, AdmissionKept

LEMMA ChecksAdmission ==
  ASSUME Inv, Admission, NEW r \in Requests, NEW d \in Devices,
         CreateChecks(r, d) \/ \E q \in Quotas : QuotaChecks(r, d, q)
  PROVE  Admission'
<1>1. UNCHANGED <<node, lock, instance, excess>>
  BY DEF CreateChecks, QuotaChecks
<1>2. \A t \in Requests : request'[t].pc = "locked" => request'[t] = request[t]
  BY DEF CreateChecks, QuotaChecks, Begin, Inv, Types, RequestT
<1> QED
  BY <1>1, <1>2, AdmissionKept

LEMMA NextAdmission == Inv /\ Admission /\ [Next]_vars => Admission'
<1> SUFFICES ASSUME Inv, Admission, [Next]_vars PROVE Admission'
  OBVIOUS
<1>1. CASE UNCHANGED <<node, lock, instance, request, excess>>
  BY <1>1, AdmissionKept
<1>2. CASE Enrolment
  <2>1. \/ UNCHANGED <<node, lock, instance, request, excess>>
        \/ \E g \in Grants : controlAuthorizationApprove(g)
        \/ \E c \in Clients, s \in Sessions : enroll(c, s)
    BY <1>2 DEF Enrolment, CreateGrant, controlEnrollmentTokenRevoke, GrantExpires,
       controlAuthorizationPoll, ServerChanges, connect
  <2> QED
    BY <1>1, <2>1, NodeAdmission
<1>3. CASE \E s \in Sessions : Gateway(s) \/ LinkBreaks(s)
  <2>1. \/ UNCHANGED <<node, lock, instance, request, excess>>
        \/ \E s \in Sessions : updateSelfHostedHeartbeat(s)
    BY <1>3 DEF Gateway, ClientSaves, reportStatus, ReadLog, InsertLog, RevokedCloses, dropSession, LinkBreaks
  <2> QED
    BY <1>1, <2>1, HeartbeatAdmission
<1>4. CASE \E d \in Devices : HeartbeatStale(d)
  BY <1>4, NodeAdmission
<1>5. CASE Owner
  BY <1>5, CreateLocksAdmission, CreateCommitsAdmission, QuotaWritesAdmission, RequestFailsAdmission,
     ChecksAdmission, NodeAdmission, InstanceAdmission DEF Owner, Decided
<1> QED
  BY <1>1, <1>2, <1>3, <1>4, <1>5 DEF Next, vars

LEMMA InitAdmission == Init => Admission
<1> SUFFICES ASSUME Init PROVE Admission
  OBVIOUS
<1>1. ASSUME NEW d \in Devices PROVE Room(d)
  <2>1. Using(d) = {}
    BY <1>1 DEF Init, Using
  <2>2. Used(d) = 0
    BY <2>1, UsedIs, FS_EmptySet
  <2> QED
    BY <2>2 DEF Init, Room, Admitted
<1>2. Holds
  BY DEF Init, Holds, NoRequest
<1> QED
  BY <1>1, <1>2 DEF Admission

\* createSelfHostedInstance: creations never fill a node beyond its quota, for
\* any requests, connections and reports between their steps.
THEOREM QuotaCorrect == Spec => []QuotaKept
<1>1. Inv /\ Admission => QuotaKept
  <2> SUFFICES ASSUME Inv, Admission, NEW d \in Devices, Used(d) > node[d].quota PROVE d \in excess
    BY DEF QuotaKept
  <2>1. Used(d) \in Nat /\ node[d].quota \in Nat /\ Admitted(d) \in Nat
    BY UsedIs, QuotaNat DEF Inv, Types, Admitted
  <2> QED
    BY <2>1 DEF Admission, Room
<1> QED
  BY <1>1, InitInv, NextInv, InitAdmission, NextAdmission, PTL DEF Spec
=============================================================================
