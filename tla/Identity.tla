------------------------------ MODULE Identity ------------------------------
(***************************************************************************)
(* Pairing of a device and the life of its credential: CLI processes that  *)
(* share one credential store pair and log out, users approve and revoke   *)
(* on the web, and the server keeps pairing requests, devices, credentials *)
(* and access tokens.                                                      *)
(*                                                                         *)
(* Every method of IdentityRepository is one transaction on locked rows,   *)
(* so one step.  Between the steps of a command everything else may        *)
(* happen.  The clock is the set `overdue`; a request carries the time at  *)
(* which it reached the server, so it may still be served as in time when  *)
(* its pairing has become overdue meanwhile: `late` is read on arrival.    *)
(* So is the session of a web request, and nothing else depends on it: a   *)
(* user who decides or revokes had a session at some earlier time.         *)
(***************************************************************************)
EXTENDS Naturals, FiniteSets

CONSTANTS
  Users,
  Commands,     \* processes of the CLI on one machine
  Pairings,     \* ids of pairing_requests
  Devices,      \* ids of devices
  MaxAttempts,  \* MAX_PAIRING_ASSOCIATION_ATTEMPTS
  None

Statuses == {"pending", "approved", "denied", "consumed", "expired", "revoked"}

\* Rows of pairing_requests and devices; what the web asks for.
PairingRows == [status : Statuses, attempts : 0..MaxAttempts,
                approver : Users \cup {None}, device : Devices \cup {None}]
DeviceRows  == [user : Users, revoked : BOOLEAN]
Decisions   == [op : {"approved", "denied"}, pairing : Pairings, late : BOOLEAN]
Revokes     == [op : {"revoke"}, device : Devices]

ASSUME IdentityAssumption ==
  /\ MaxAttempts \in Nat \ {0}
  /\ None \notin Users \cup Pairings \cup Devices
  /\ None \notin PairingRows \cup DeviceRows \cup Decisions \cup Revokes

VARIABLES
  pairing,      \* pairing_requests; None: not created
  overdue,      \* pairings whose expires_at has passed
  device,       \* devices: user and revoked_at; None: not created
  credentials,  \* devices whose device_credentials row is not revoked
  tokens,       \* devices with a device_access_tokens row that is not revoked
  web,          \* the request each user has under way, its session resolved
  cli,          \* where each process of the CLI is
  store         \* the device whose credential the machine keeps

granted == <<device, credentials, tokens>>
vars    == <<pairing, overdue, granted, web, cli, store>>

Idle == [pc |-> "idle", pairing |-> None, device |-> None, late |-> FALSE]
At(c, pc) == cli[c].pc = pc
Goto(c, pc) == cli' = [cli EXCEPT ![c].pc = pc]
End(c) == cli' = [cli EXCEPT ![c] = Idle]

Open(p) == pairing[p].status \in {"pending", "approved"}
Become(p, s) == pairing' = [pairing EXCEPT ![p].status = s]
Locked(p) == pairing[p].status = "revoked" /\ pairing[p].attempts >= MaxAttempts
Live(d) == ~device[d].revoked /\ d \in credentials

-----------------------------------------------------------------------------
\* The server

\* consumePairing of an approved pairing.
Consume(p, d) ==
  /\ device[d] = None
  /\ device' = [device EXCEPT ![d] = [user |-> pairing[p].approver, revoked |-> FALSE]]
  /\ credentials' = credentials \cup {d}
  /\ tokens' = tokens \cup {d}
  /\ pairing' = [pairing EXCEPT ![p].status = "consumed", ![p].device = d]

RevokeDevice(d, u) ==
  /\ device[d] /= None /\ device[d].user = u /\ ~device[d].revoked
  /\ device' = [device EXCEPT ![d].revoked = TRUE]
  /\ credentials' = credentials \ {d}
  /\ tokens' = tokens \ {d}
  /\ pairing' = [p \in Pairings |->
       IF pairing[p] /= None /\ pairing[p].device = d
         THEN [pairing[p] EXCEPT !.status = "revoked"] ELSE pairing[p]]

\* A status or consume call that does not carry the secret of its pairing.
Mismatch(p) ==
  /\ pairing[p] /= None /\ Open(p)
  /\ pairing' = [pairing EXCEPT
       ![p].attempts = @ + 1,
       ![p].status = IF pairing[p].attempts + 1 >= MaxAttempts THEN "revoked" ELSE @]
  /\ UNCHANGED <<overdue, granted, web, cli, store>>

\* The clock reaches expires_at.
Due(p) ==
  /\ pairing[p] /= None /\ p \notin overdue
  /\ overdue' = overdue \cup {p}
  /\ UNCHANGED <<pairing, granted, web, cli, store>>

-----------------------------------------------------------------------------
\* `pair`

BeginPair(c) ==
  /\ At(c, "idle") /\ store = None
  /\ Goto(c, "create")
  /\ UNCHANGED <<pairing, overdue, granted, web, store>>

CreatePairing(c) ==
  /\ At(c, "create")
  /\ \E p \in Pairings :
       /\ pairing[p] = None
       /\ pairing' = [pairing EXCEPT ![p] =
            [status |-> "pending", attempts |-> 0, approver |-> None, device |-> None]]
       /\ cli' = [cli EXCEPT ![c] = [@ EXCEPT !.pc = "wait", !.pairing = p]]
  /\ UNCHANGED <<overdue, granted, web, store>>

\* The next poll, or the consume call after one that said "approved".
Send(c) ==
  /\ cli[c].pc \in {"wait", "approved"}
  /\ cli' = [cli EXCEPT ![c].pc = IF @ = "wait" THEN "poll" ELSE "consume",
                        ![c].late = cli[c].pairing \in overdue]
  /\ UNCHANGED <<pairing, overdue, granted, web, store>>

\* inspectPairing, and what the loop of `pair` does with its answer.
InspectPairing(c) ==
  LET p == cli[c].pairing IN
  /\ At(c, "poll")
  /\ \/ Open(p) /\ cli[c].late /\ Become(p, "expired") /\ End(c)
     \/ pairing[p].status = "pending" /\ ~cli[c].late
          /\ Goto(c, "wait") /\ UNCHANGED pairing
     \/ pairing[p].status = "approved" /\ ~cli[c].late
          /\ Goto(c, "approved") /\ UNCHANGED pairing
     \/ ~Open(p) /\ End(c) /\ UNCHANGED pairing
  /\ UNCHANGED <<overdue, granted, web, store>>

\* Mutant of ConsumePairing: trusts the poll that said "approved".
ConsumeAgain(c) ==
  LET p == cli[c].pairing IN
  /\ At(c, "consume")
  /\ \/ Open(p) /\ cli[c].late /\ Become(p, "expired") /\ End(c) /\ UNCHANGED granted
     \/ /\ ~cli[c].late
        /\ \E d \in Devices :
             Consume(p, d) /\ cli' = [cli EXCEPT ![c] = [Idle EXCEPT !.pc = "put", !.device = d]]
     \/ ~Open(p) /\ End(c) /\ UNCHANGED <<pairing, granted>>
  /\ UNCHANGED <<overdue, web, store>>

\* consumePairing, which checks again what the poll has seen.
ConsumePairing(c) ==
  LET p == cli[c].pairing IN
  /\ At(c, "consume")
  /\ \/ Open(p) /\ cli[c].late /\ Become(p, "expired") /\ End(c) /\ UNCHANGED granted
     \/ /\ pairing[p].status = "approved" /\ ~cli[c].late
        /\ \E d \in Devices :
             Consume(p, d) /\ cli' = [cli EXCEPT ![c] = [Idle EXCEPT !.pc = "put", !.device = d]]
     \/ ~Open(p) /\ End(c) /\ UNCHANGED <<pairing, granted>>
  /\ UNCHANGED <<overdue, web, store>>

PutCredential(c) ==
  /\ At(c, "put")
  /\ store' = cli[c].device
  /\ End(c)
  /\ UNCHANGED <<pairing, overdue, granted, web>>

-----------------------------------------------------------------------------
\* `auth logout`, and the access token every other command starts with

BeginLogout(c) ==
  /\ At(c, "idle") /\ store /= None
  /\ cli' = [cli EXCEPT ![c].pc = "leaving", ![c].device = store]
  /\ UNCHANGED <<pairing, overdue, granted, web, store>>

BeginCommand(c) ==
  /\ At(c, "idle") /\ store /= None
  /\ cli' = [cli EXCEPT ![c].pc = "access", ![c].device = store]
  /\ UNCHANGED <<pairing, overdue, granted, web, store>>

\* Mutant of IssueDeviceAccessToken: does not look at revoked_at.
IssueToAnyone(c) ==
  LET d == cli[c].device IN
  /\ cli[c].pc \in {"leaving", "access"}
  /\ tokens' = tokens \cup {d}
  /\ IF At(c, "leaving") THEN Goto(c, "resolve") ELSE End(c)
  /\ UNCHANGED <<pairing, overdue, device, credentials, web, store>>

\* A revoked device gets no token; `auth logout` then only cleans up.
IssueDeviceAccessToken(c) ==
  LET d == cli[c].device IN
  /\ cli[c].pc \in {"leaving", "access"}
  /\ \/ /\ Live(d)
        /\ tokens' = tokens \cup {d}
        /\ IF At(c, "leaving") THEN Goto(c, "resolve") ELSE End(c)
     \/ /\ ~Live(d)
        /\ IF At(c, "leaving") THEN Goto(c, "clean") ELSE End(c)
        /\ UNCHANGED tokens
  /\ UNCHANGED <<pairing, overdue, device, credentials, web, store>>

\* resolveAccessToken for the call that revokes: a token that was revoked, or
\* that has expired, is as good as a revoked device to `auth logout`.
ResolveAccessToken(c) ==
  /\ At(c, "resolve")
  /\ \/ cli[c].device \in tokens /\ Goto(c, "revoke")
     \/ Goto(c, "clean")
  /\ UNCHANGED <<pairing, overdue, granted, web, store>>

\* Where another process was faster the call is a 404, and the command fails.
RevokeCurrentDevice(c) ==
  LET d == cli[c].device IN
  /\ At(c, "revoke")
  /\ \/ RevokeDevice(d, device[d].user) /\ Goto(c, "clean")
     \/ device[d].revoked /\ End(c) /\ UNCHANGED <<pairing, granted>>
  /\ UNCHANGED <<overdue, web, store>>

DeleteCredential(c) ==
  /\ At(c, "clean")
  /\ store' = None
  /\ End(c)
  /\ UNCHANGED <<pairing, overdue, granted, web>>

\* The process stops, its call fails, or `pair` has waited long enough.
Fail(c) ==
  /\ ~At(c, "idle")
  /\ End(c)
  /\ UNCHANGED <<pairing, overdue, granted, web, store>>

-----------------------------------------------------------------------------
\* The web

AskDecision(u, p, verdict) ==
  /\ web[u] = None /\ pairing[p] /= None
  /\ web' = [web EXCEPT ![u] = [op |-> verdict, pairing |-> p, late |-> p \in overdue]]
  /\ UNCHANGED <<pairing, overdue, granted, cli, store>>

AskRevoke(u, d) ==
  /\ web[u] = None /\ device[d] /= None
  /\ web' = [web EXCEPT ![u] = [op |-> "revoke", device |-> d]]
  /\ UNCHANGED <<pairing, overdue, granted, cli, store>>

\* Mutant of DecidePairing: decides again what is no longer pending.
DecideAgain(u) ==
  LET p == web[u].pairing IN
  /\ web[u] \in Decisions
  /\ \/ ~web[u].late /\ pairing' = [pairing EXCEPT
                              ![p].status = web[u].op,
                              ![p].approver = IF web[u].op = "approved" THEN u ELSE None]
     \/ web[u].late /\ pairing[p].status = "pending" /\ Become(p, "expired")
     \/ web[u].late /\ pairing[p].status /= "pending" /\ UNCHANGED pairing
  /\ web' = [web EXCEPT ![u] = None]
  /\ UNCHANGED <<overdue, granted, cli, store>>

DecidePairing(u) ==
  LET p == web[u].pairing IN
  /\ web[u] \in Decisions
  /\ \/ /\ pairing[p].status = "pending" /\ ~web[u].late
        /\ pairing' = [pairing EXCEPT
             ![p].status = web[u].op,
             ![p].approver = IF web[u].op = "approved" THEN u ELSE None]
     \/ pairing[p].status = "pending" /\ web[u].late /\ Become(p, "expired")
     \/ pairing[p].status /= "pending" /\ UNCHANGED pairing
  /\ web' = [web EXCEPT ![u] = None]
  /\ UNCHANGED <<overdue, granted, cli, store>>

RevokeOnWeb(u) ==
  LET d == web[u].device IN
  /\ web[u] \in Revokes
  /\ \/ RevokeDevice(d, u)
     \/ (device[d].user /= u \/ device[d].revoked) /\ UNCHANGED <<pairing, granted>>
  /\ web' = [web EXCEPT ![u] = None]
  /\ UNCHANGED <<overdue, cli, store>>

\* findPairingByCode first expires every pending pairing that is overdue.
ExpirePairings ==
  /\ \E p \in overdue : pairing[p].status = "pending"
  /\ pairing' = [p \in Pairings |->
       IF p \in overdue /\ pairing[p].status = "pending"
         THEN [pairing[p] EXCEPT !.status = "expired"] ELSE pairing[p]]
  /\ UNCHANGED <<overdue, granted, web, cli, store>>

-----------------------------------------------------------------------------
Init ==
  /\ pairing = [p \in Pairings |-> None]
  /\ overdue = {}
  /\ device = [d \in Devices |-> None]
  /\ credentials = {}
  /\ tokens = {}
  /\ web = [u \in Users |-> None]
  /\ cli = [c \in Commands |-> Idle]
  /\ store = None

Command(c) ==
  \/ BeginPair(c) \/ CreatePairing(c) \/ Send(c) \/ InspectPairing(c)
  \/ ConsumePairing(c) \/ PutCredential(c)
  \/ BeginLogout(c) \/ BeginCommand(c) \/ IssueDeviceAccessToken(c)
  \/ ResolveAccessToken(c) \/ RevokeCurrentDevice(c) \/ DeleteCredential(c)
  \/ Fail(c)

Web(u) ==
  \/ DecidePairing(u) \/ RevokeOnWeb(u)
  \/ \E p \in Pairings, verdict \in {"approved", "denied"} : AskDecision(u, p, verdict)
  \/ \E d \in Devices : AskRevoke(u, d)

Next ==
  \/ \E c \in Commands : Command(c)
  \/ \E u \in Users : Web(u)
  \/ \E p \in Pairings : Mismatch(p) \/ Due(p)
  \/ ExpirePairings

Spec == Init /\ [][Next]_vars

-----------------------------------------------------------------------------
\* Properties

TypeOK ==
  /\ pairing \in [Pairings -> {None} \cup PairingRows]
  /\ overdue \subseteq {p \in Pairings : pairing[p] /= None}
  /\ device \in [Devices -> {None} \cup DeviceRows]
  /\ credentials \subseteq Devices
  /\ tokens \subseteq Devices
  /\ web \in [Users -> {None} \cup Decisions \cup Revokes]
  /\ cli \in [Commands -> [pc : {"idle", "create", "wait", "poll", "approved", "consume",
                                 "put", "leaving", "access", "resolve", "revoke", "clean"},
                           pairing : Pairings \cup {None},
                           device : Devices \cup {None}, late : BOOLEAN]]
  /\ store \in Devices \cup {None}

\* A pairing yields at most one device and a device comes from exactly one
\* pairing, which the device's user approved and in time: polls, consume calls
\* of a stopped command, decisions and expiry may meet in any order, and calls
\* without the secret lock the pairing before they reach the limit
\* (consumePairing, verifyPairingAssociation; requirements.md, FR-004).
OneDeviceEach ==
  /\ \A d \in Devices : device[d] /= None =>
       \E p \in Pairings :
         /\ pairing[p] /= None
         /\ pairing[p].device = d
         /\ pairing[p].approver = device[d].user
         /\ pairing[p].status = IF device[d].revoked THEN "revoked" ELSE "consumed"
         /\ \A q \in Pairings \ {p} : pairing[q] /= None => pairing[q].device /= d
  /\ \A p \in Pairings : pairing[p] /= None =>
       /\ pairing[p].status = "consumed" => pairing[p].device /= None
       /\ pairing[p].attempts >= MaxAttempts => Locked(p) /\ pairing[p].device = None

\* Whoever revokes a device, the owner on the web or a command that logs out,
\* no credential and no access token of it stays valid, and none is issued to
\* a command that had read the credential before (revokeDevice,
\* issueDeviceAccessToken).
RevokedIsSilent ==
  \A d \in Devices : device[d] /= None /\ device[d].revoked =>
    d \notin credentials \cup tokens

Onward == {<<"pending", "approved">>, <<"pending", "denied">>, <<"pending", "expired">>,
           <<"pending", "pending">>, <<"pending", "revoked">>,
           <<"approved", "approved">>, <<"approved", "consumed">>,
           <<"approved", "expired">>, <<"approved", "revoked">>, <<"consumed", "revoked">>}

OnlyMovesOn(p) ==
  pairing[p] /= None /\ pairing'[p] /= pairing[p] =>
    /\ <<pairing[p].status, pairing'[p].status>> \in Onward
    /\ pairing[p].status /= "pending" => pairing'[p].approver = pairing[p].approver

\* A pairing never comes back from a final status and never changes the user
\* who approved it, however late a decision or a call is served
\* (decidePairing, inspectPairing, consumePairing, revokeDevice).
PairingOnlyMovesOn == [][\A p \in Pairings : OnlyMovesOn(p)]_vars
=============================================================================
