--------------------------- MODULE IdentityProofs ---------------------------
(***************************************************************************)
(* For any number of users, CLI processes, pairings and devices, and any   *)
(* limit on attempts: the rows are well typed, each device comes from one  *)
(* pairing and each pairing yields at most one device, a revoked device    *)
(* has neither a credential nor a token, and pairings only move on.        *)
(***************************************************************************)
EXTENDS Identity, TLAPS

Created(p) == p \in Pairings /\ pairing[p] /= None
Known(d)   == d \in Devices /\ device[d] /= None

\* What a process of the CLI works on exists, and so does what it keeps.
CliRefers ==
  /\ \A c \in Commands :
       /\ cli[c].pc \in {"wait", "poll", "approved", "consume"} => Created(cli[c].pairing)
       /\ cli[c].pc \in {"put", "leaving", "access", "resolve", "revoke", "clean"}
            => Known(cli[c].device)
  /\ store /= None => Known(store)

\* So does what a request from the web names.
WebRefers ==
  \A u \in Users :
    /\ web[u] \in Decisions => Created(web[u].pairing)
    /\ web[u] \in Revokes => Known(web[u].device)

\* The columns of a pairing agree with its status, and it names a device that
\* exists; so do credentials and tokens.
RowsAgree ==
  /\ \A p \in Pairings : pairing[p] /= None =>
       /\ pairing[p].status = "approved" => pairing[p].approver \in Users
       /\ pairing[p].device /= None =>
            pairing[p].status \in {"consumed", "revoked"} /\ Known(pairing[p].device)
  /\ \A d \in credentials \cup tokens : Known(d)

Processes ==
  [pc : {"idle", "create", "wait", "poll", "approved", "consume", "put", "leaving",
         "access", "resolve", "revoke", "clean"},
   pairing : Pairings \cup {None}, device : Devices \cup {None}, late : BOOLEAN]

TablesOK ==
  /\ pairing \in [Pairings -> {None} \cup PairingRows]
  /\ device \in [Devices -> {None} \cup DeviceRows]
  /\ credentials \subseteq Devices /\ tokens \subseteq Devices

ClientsOK ==
  /\ overdue \subseteq {p \in Pairings : pairing[p] /= None}
  /\ web \in [Users -> {None} \cup Decisions \cup Revokes]
  /\ cli \in [Commands -> Processes]
  /\ store \in Devices \cup {None}

\* The server's tables, and the clients that refer to them.
Server  == TablesOK /\ RowsAgree /\ OneDeviceEach /\ RevokedIsSilent
Clients == ClientsOK /\ CliRefers /\ WebRefers
Inv     == Server /\ Clients

-----------------------------------------------------------------------------
\* The server

\* A row of a pairing that moves on without a device.
Moves(row, next) ==
  /\ row \in PairingRows /\ next \in PairingRows
  /\ row.device = None /\ next.device = None
  /\ next.status /= "consumed"
  /\ next.status = "approved" => next.approver \in Users
  /\ next.attempts >= MaxAttempts => next.status = "revoked"

NewPairing == [status |-> "pending", attempts |-> 0, approver |-> None, device |-> None]

LEMMA NewPairingRow == NewPairing \in PairingRows /\ NewPairing /= None
  BY IdentityAssumption DEF NewPairing, PairingRows, Statuses

\* Steps that touch no device: a new pairing, or pairings that move on.
LEMMA PairingStep ==
  ASSUME Server, UNCHANGED granted, NEW f,
         pairing' = [p \in Pairings |-> f[p]],
         \A p \in Pairings :
           \/ f[p] = pairing[p]
           \/ pairing[p] /= None /\ Moves(pairing[p], f[p])
           \/ pairing[p] = None /\ f[p] = NewPairing
  PROVE  Server' /\ \A p \in Pairings : Created(p) => Created(p)'
<1> USE DEF Server, granted
<1>1. TablesOK' /\ \A p \in Pairings : Created(p) => Created(p)'
  BY NewPairingRow, IdentityAssumption DEF TablesOK, Moves, Created
<1>2. RowsAgree'
  BY NewPairingRow DEF RowsAgree, Moves, NewPairing, Known
<1>3. \A d \in Devices, p \in Pairings :
        pairing[p] /= None /\ pairing[p].device = d => pairing'[p] = pairing[p]
  BY IdentityAssumption DEF Moves
<1>4. \A d \in Devices, p \in Pairings :
        pairing'[p] /= None /\ pairing'[p].device = d =>
          pairing[p] /= None /\ pairing[p].device = d
  BY IdentityAssumption DEF Moves, NewPairing
<1>5. OneDeviceEach'
  <2>1. ASSUME NEW d \in Devices, device'[d] /= None
        PROVE  \E p \in Pairings :
                 /\ pairing'[p] /= None
                 /\ pairing'[p].device = d
                 /\ pairing'[p].approver = device'[d].user
                 /\ pairing'[p].status = IF device'[d].revoked THEN "revoked" ELSE "consumed"
                 /\ \A q \in Pairings \ {p} : pairing'[q] /= None => pairing'[q].device /= d
    BY <2>1, <1>3, <1>4 DEF OneDeviceEach
  <2>2. ASSUME NEW p \in Pairings, pairing'[p] /= None
        PROVE  /\ pairing'[p].status = "consumed" => pairing'[p].device /= None
               /\ pairing'[p].attempts >= MaxAttempts => Locked(p)' /\ pairing'[p].device = None
    BY <2>2, IdentityAssumption DEF OneDeviceEach, Moves, NewPairing, Locked
  <2> QED
    BY <2>1, <2>2 DEF OneDeviceEach
<1>6. RevokedIsSilent'
  BY DEF RevokedIsSilent
<1> QED
  BY <1>1, <1>2, <1>5, <1>6

\* One of them that moves on.
LEMMA MovingStep ==
  ASSUME Server, UNCHANGED granted, NEW p, Created(p), NEW next, Moves(pairing[p], next),
         pairing' = [pairing EXCEPT ![p] = next]
  PROVE  /\ Server'
         /\ \A q \in Pairings : Created(q) => Created(q)'
         /\ \A e \in Devices : Known(e) => Known(e)'
<1> DEFINE f == [pairing EXCEPT ![p] = next]
<1>1. pairing' = [q \in Pairings |-> f[q]]
  BY DEF Server, TablesOK
<1>2. \A q \in Pairings : f[q] = pairing[q] \/ (pairing[q] /= None /\ Moves(pairing[q], f[q]))
  BY DEF Server, TablesOK, Created
<1> HIDE DEF f
<1>3. Server' /\ \A q \in Pairings : Created(q) => Created(q)'
  BY <1>1, <1>2, PairingStep
<1> QED
  BY <1>3 DEF granted, Known

\* A pairing that is open has no device yet, and attempts left.
LEMMA OpenRow ==
  ASSUME Server, NEW p, Created(p), Open(p)
  PROVE  /\ pairing[p] \in PairingRows /\ pairing[p].device = None
         /\ ~(pairing[p].attempts >= MaxAttempts)
<1>1. pairing[p] \in PairingRows
  BY DEF Server, TablesOK, Created
<1>2. pairing[p].device = None
  BY DEF Server, RowsAgree, Created, Open
<1>3. ~(pairing[p].attempts >= MaxAttempts)
  BY DEF Server, OneDeviceEach, Created, Open, Locked
<1> QED
  BY <1>1, <1>2, <1>3

\* It may expire.
LEMMA ExpireStep ==
  ASSUME Server, UNCHANGED granted, NEW p, Created(p), Open(p), Become(p, "expired")
  PROVE  /\ Server'
         /\ \A q \in Pairings : Created(q) => Created(q)'
         /\ \A e \in Devices : Known(e) => Known(e)'
<1>1. pairing[p] \in PairingRows /\ pairing[p].device = None
      /\ ~(pairing[p].attempts >= MaxAttempts)
  BY OpenRow
<1>2. Moves(pairing[p], [pairing[p] EXCEPT !.status = "expired"])
  BY <1>1 DEF Moves, PairingRows, Statuses
<1>3. pairing' = [pairing EXCEPT ![p] = [pairing[p] EXCEPT !.status = "expired"]]
  BY DEF Become
<1> QED
  BY <1>2, <1>3, MovingStep

\* A pairing that was approved becomes a device of the user who approved it.
LEMMA ConsumeStep ==
  ASSUME Server, NEW p, Created(p), pairing[p].status = "approved",
         NEW d \in Devices, Consume(p, d)
  PROVE  /\ Server'
         /\ \A q \in Pairings : Created(q) => Created(q)'
         /\ \A e \in Devices : Known(e) => Known(e)'
         /\ Known(d)'
<1> DEFINE row == [user |-> pairing[p].approver, revoked |-> FALSE]
           next == [pairing[p] EXCEPT !.status = "consumed", !.device = d]
<1> USE DEF Server, Created
<1>1. pairing[p] \in PairingRows /\ pairing[p].approver \in Users /\ pairing[p].device = None
  BY DEF TablesOK, RowsAgree
<1>2. row \in DeviceRows /\ row /= None /\ row.user = pairing[p].approver /\ ~row.revoked
  <2>1. row \in DeviceRows /\ row.user = pairing[p].approver /\ ~row.revoked
    BY <1>1 DEF DeviceRows
  <2> HIDE DEF row
  <2> QED
    BY <2>1, IdentityAssumption
<1>3. /\ next \in PairingRows /\ next /= None
      /\ next.device = d /\ next.approver = pairing[p].approver /\ next.status = "consumed"
      /\ next.attempts = pairing[p].attempts
  <2>1. next \in PairingRows
    BY <1>1 DEF PairingRows, Statuses
  <2>2. /\ next.device = d /\ next.approver = pairing[p].approver
        /\ next.status = "consumed" /\ next.attempts = pairing[p].attempts
    BY <1>1 DEF PairingRows
  <2> HIDE DEF next
  <2> QED
    BY <2>1, <2>2, IdentityAssumption
<1>4. /\ device[d] = None
      /\ device' = [device EXCEPT ![d] = row]
      /\ pairing' = [pairing EXCEPT ![p] = next]
      /\ credentials' = credentials \cup {d} /\ tokens' = tokens \cup {d}
  BY DEF Consume, TablesOK
<1> HIDE DEF row, next
<1>5. TablesOK' /\ Known(d)'
  BY <1>2, <1>3, <1>4 DEF TablesOK, Known
<1>6. /\ \A q \in Pairings : Created(q) => Created(q)'
      /\ \A e \in Devices : Known(e) => Known(e)'
  BY <1>2, <1>3, <1>4 DEF TablesOK, Known
<1>7. RowsAgree'
  BY <1>2, <1>3, <1>4, <1>5, <1>6 DEF RowsAgree, TablesOK, Known
<1>8. \A q \in Pairings : pairing[q] /= None => pairing[q].device /= d
  BY <1>4, IdentityAssumption DEF RowsAgree, Known
<1>9. OneDeviceEach'
  <2>1. ASSUME NEW e \in Devices, device'[e] /= None
        PROVE  \E q \in Pairings :
                 /\ pairing'[q] /= None
                 /\ pairing'[q].device = e
                 /\ pairing'[q].approver = device'[e].user
                 /\ pairing'[q].status = IF device'[e].revoked THEN "revoked" ELSE "consumed"
                 /\ \A r \in Pairings \ {q} : pairing'[r] /= None => pairing'[r].device /= e
    <3>1. CASE e = d
      BY <3>1, <1>2, <1>3, <1>4, <1>8 DEF TablesOK
    <3>2. CASE e /= d
      <4>1. device[e] /= None /\ device'[e] = device[e]
        BY <2>1, <3>2, <1>4 DEF TablesOK
      <4>2. PICK q \in Pairings :
              /\ pairing[q] /= None
              /\ pairing[q].device = e
              /\ pairing[q].approver = device[e].user
              /\ pairing[q].status = IF device[e].revoked THEN "revoked" ELSE "consumed"
              /\ \A r \in Pairings \ {q} : pairing[r] /= None => pairing[r].device /= e
        BY <4>1 DEF OneDeviceEach
      <4>3. q /= p
        BY <4>2, <1>1, IdentityAssumption
      <4> QED
        BY <3>2, <4>1, <4>2, <4>3, <1>3, <1>4 DEF TablesOK
    <3> QED
      BY <3>1, <3>2
  <2>2. ASSUME NEW q \in Pairings, pairing'[q] /= None
        PROVE  /\ pairing'[q].status = "consumed" => pairing'[q].device /= None
               /\ pairing'[q].attempts >= MaxAttempts => Locked(q)' /\ pairing'[q].device = None
    <3>1. CASE q = p
      <4>1. ~(pairing[p].attempts >= MaxAttempts)
        BY DEF OneDeviceEach, Locked
      <4> QED
        BY <3>1, <4>1, <1>3, <1>4, IdentityAssumption DEF TablesOK
    <3>2. CASE q /= p
      BY <2>2, <3>2, <1>4 DEF OneDeviceEach, Locked, TablesOK
    <3> QED
      BY <3>1, <3>2
  <2> QED
    BY <2>1, <2>2 DEF OneDeviceEach
<1>10. RevokedIsSilent'
  BY <1>2, <1>4 DEF RevokedIsSilent, TablesOK
<1> QED
  BY <1>5, <1>6, <1>7, <1>9, <1>10

\* The device keeps its user; it is silent from the same step on.
LEMMA RevokeStep ==
  ASSUME Server, NEW d \in Devices, NEW u, RevokeDevice(d, u)
  PROVE  /\ Server'
         /\ \A q \in Pairings : Created(q) => Created(q)'
         /\ \A e \in Devices : Known(e) => Known(e)'
<1> DEFINE row == [device[d] EXCEPT !.revoked = TRUE]
           gone(q) == [pairing[q] EXCEPT !.status = "revoked"]
           Of(q) == pairing[q] /= None /\ pairing[q].device = d
<1> USE DEF Server
<1>1. device[d] \in DeviceRows /\ device[d] /= None
  BY DEF RevokeDevice, TablesOK
<1>2. row \in DeviceRows /\ row.user = device[d].user /\ row.revoked
  BY <1>1 DEF DeviceRows
<1>3. ASSUME NEW q \in Pairings, pairing[q] /= None
      PROVE  /\ gone(q) \in PairingRows
             /\ gone(q).status = "revoked" /\ gone(q).device = pairing[q].device
             /\ gone(q).approver = pairing[q].approver /\ gone(q).attempts = pairing[q].attempts
  <2>1. pairing[q] \in PairingRows
    BY <1>3 DEF TablesOK
  <2> QED
    BY <2>1 DEF PairingRows, Statuses
<1>4. /\ device' = [device EXCEPT ![d] = row]
      /\ pairing' = [q \in Pairings |-> IF Of(q) THEN gone(q) ELSE pairing[q]]
      /\ credentials' = credentials \ {d} /\ tokens' = tokens \ {d}
  BY DEF RevokeDevice, TablesOK
<1> HIDE DEF row, gone
<1>5. row /= None /\ \A q \in Pairings : pairing[q] /= None => gone(q) /= None
  BY <1>2, <1>3, IdentityAssumption
<1>6. TablesOK'
  BY <1>2, <1>3, <1>4 DEF TablesOK
<1>7. /\ \A q \in Pairings : Created(q) <=> Created(q)'
      /\ \A e \in Devices : Known(e) <=> Known(e)'
  BY <1>1, <1>4, <1>5 DEF Created, Known, TablesOK
<1>8. \A q \in Pairings : pairing'[q] /= None =>
        /\ pairing[q] /= None /\ pairing'[q].device = pairing[q].device
        /\ pairing'[q].approver = pairing[q].approver
        /\ pairing'[q].attempts = pairing[q].attempts
        /\ pairing'[q].status = IF Of(q) THEN "revoked" ELSE pairing[q].status
  BY <1>3, <1>4
<1>9. RowsAgree'
  <2>1. \A e \in Devices : Known(e) => Known(e)'
    BY <1>7
  <2>2. ASSUME NEW q \in Pairings, pairing'[q] /= None
        PROVE  /\ pairing'[q].status = "approved" => pairing'[q].approver \in Users
               /\ pairing'[q].device /= None =>
                    pairing'[q].status \in {"consumed", "revoked"} /\ Known(pairing[q].device)'
    BY <2>1, <2>2, <1>8 DEF RowsAgree, Known
  <2> QED
    BY <2>1, <2>2, <1>4 DEF RowsAgree, TablesOK
<1>10. OneDeviceEach'
  <2>1. ASSUME NEW e \in Devices, device'[e] /= None
        PROVE  \E q \in Pairings :
                 /\ pairing'[q] /= None
                 /\ pairing'[q].device = e
                 /\ pairing'[q].approver = device'[e].user
                 /\ pairing'[q].status = IF device'[e].revoked THEN "revoked" ELSE "consumed"
                 /\ \A r \in Pairings \ {q} : pairing'[r] /= None => pairing'[r].device /= e
    <3>1. device[e] /= None /\ device'[e].user = device[e].user
      BY <2>1, <1>1, <1>2, <1>4 DEF TablesOK
    <3>2. device'[e].revoked = IF e = d THEN TRUE ELSE device[e].revoked
      BY <1>2, <1>4 DEF TablesOK
    <3>3. PICK q \in Pairings :
            /\ pairing[q] /= None
            /\ pairing[q].device = e
            /\ pairing[q].approver = device[e].user
            /\ pairing[q].status = IF device[e].revoked THEN "revoked" ELSE "consumed"
            /\ \A r \in Pairings \ {q} : pairing[r] /= None => pairing[r].device /= e
      BY <3>1 DEF OneDeviceEach
    <3>4. pairing'[q] /= None
      BY <3>3, <1>7 DEF Created
    <3> QED
      BY <3>1, <3>2, <3>3, <3>4, <1>8
  <2>2. ASSUME NEW q \in Pairings, pairing'[q] /= None
        PROVE  /\ pairing'[q].status = "consumed" => pairing'[q].device /= None
               /\ pairing'[q].attempts >= MaxAttempts => Locked(q)' /\ pairing'[q].device = None
    BY <2>2, <1>8, IdentityAssumption DEF OneDeviceEach, Locked
  <2> QED
    BY <2>1, <2>2 DEF OneDeviceEach
<1>11. RevokedIsSilent'
  BY <1>1, <1>2, <1>4 DEF RevokedIsSilent, TablesOK
<1> QED
  BY <1>6, <1>7, <1>9, <1>10, <1>11

\* A token is issued to a live device, which is not revoked.
LEMMA IssueStep ==
  ASSUME Server, NEW d \in Devices, Known(d), Live(d), tokens' = tokens \cup {d},
         UNCHANGED <<pairing, device, credentials>>
  PROVE  Server'
<1> USE DEF Server
<1>1. TablesOK' /\ RowsAgree'
  BY DEF TablesOK, RowsAgree, Known
<1>2. OneDeviceEach'
  BY DEF OneDeviceEach, Locked
<1>3. RevokedIsSilent'
  BY DEF RevokedIsSilent, Live
<1> QED
  BY <1>1, <1>2, <1>3

LEMMA ServerAtRest ==
  ASSUME Server, UNCHANGED <<pairing, granted>>
  PROVE  /\ Server'
         /\ \A q \in Pairings : Created(q) => Created(q)'
         /\ \A e \in Devices : Known(e) => Known(e)'
  BY DEF Server, granted, TablesOK, RowsAgree, OneDeviceEach, RevokedIsSilent, Locked, Known, Created

-----------------------------------------------------------------------------
\* The clients

\* A process may go on to any place whose pairing and device are there.
Refers(r) ==
  /\ r.pc \in {"wait", "poll", "approved", "consume"} => Created(r.pairing)
  /\ r.pc \in {"put", "leaving", "access", "resolve", "revoke", "clean"} => Known(r.device)

LEMMA ProcessStep ==
  ASSUME Clients, NEW c \in Commands, NEW r \in Processes,
         cli' = [cli EXCEPT ![c] = r], Refers(r)', UNCHANGED <<overdue, web>>,
         store' \in Devices \cup {None}, store' /= None => Known(store'),
         \A q \in Pairings : Created(q) => Created(q)',
         \A e \in Devices : Known(e) => Known(e)'
  PROVE  Clients'
<1> USE DEF Clients
<1>1. ClientsOK'
  BY DEF ClientsOK, Created
<1>2. CliRefers'
  <2>1. ASSUME NEW x \in Commands PROVE Refers(cli[x])'
    <3>1. CASE x = c
      BY <3>1 DEF ClientsOK
    <3>2. CASE x /= c
      BY <3>2 DEF ClientsOK, CliRefers, Refers, Created, Known
    <3> QED
      BY <3>1, <3>2
  <2>2. store' /= None => Known(store)'
    BY DEF Known
  <2> QED
    BY <2>1, <2>2 DEF CliRefers, Refers
<1>3. WebRefers'
  BY DEF WebRefers, Created, Known
<1> QED
  BY <1>1, <1>2, <1>3

\* It may stay with its pairing and device.
LEMMA GotoStep ==
  ASSUME Clients, NEW c \in Commands,
         NEW pc \in {"create", "wait", "approved", "resolve", "revoke", "clean"},
         cli' = [cli EXCEPT ![c] = [cli[c] EXCEPT !.pc = pc]], UNCHANGED <<overdue, web, store>>,
         pc \in {"wait", "approved"} => Created(cli[c].pairing),
         pc \in {"resolve", "revoke", "clean"} => Known(cli[c].device),
         \A q \in Pairings : Created(q) => Created(q)',
         \A e \in Devices : Known(e) => Known(e)'
  PROVE  Clients'
<1> DEFINE r == [cli[c] EXCEPT !.pc = pc]
<1>1. cli[c] \in Processes /\ store \in Devices \cup {None} /\ (store /= None => Known(store))
  BY DEF Clients, ClientsOK, CliRefers
<1>2. r \in Processes /\ r.pc = pc /\ r.pairing = cli[c].pairing /\ r.device = cli[c].device
  BY <1>1 DEF Processes
<1>3. /\ r.pc \in {"wait", "poll", "approved", "consume"} => Created(r.pairing)
      /\ r.pc \in {"put", "leaving", "access", "resolve", "revoke", "clean"} => Known(r.device)
  BY <1>2
<1> HIDE DEF r
<1> QED
  BY <1>1, <1>2, <1>3, ProcessStep DEF Refers, Created, Known, r

\* Or be done.
LEMMA EndStep ==
  ASSUME Clients, NEW c \in Commands, End(c), UNCHANGED <<overdue, web>>,
         store' \in {store, None},
         \A q \in Pairings : Created(q) => Created(q)',
         \A e \in Devices : Known(e) => Known(e)'
  PROVE  Clients'
<1>1. Idle \in Processes /\ Idle.pc = "idle"
  BY DEF Idle, Processes
<1>2. store \in Devices \cup {None} /\ (store /= None => Known(store))
  BY DEF Clients, ClientsOK, CliRefers
<1> QED
  BY <1>1, <1>2, ProcessStep DEF End, Refers

\* A request from the web names what is there.
LEMMA RequestStep ==
  ASSUME Clients, NEW u \in Users, NEW r \in {None} \cup Decisions \cup Revokes,
         web' = [web EXCEPT ![u] = r], UNCHANGED <<overdue, cli, store>>,
         r \in Decisions => Created(r.pairing), r \in Revokes => Known(r.device),
         \A q \in Pairings : Created(q) => Created(q)',
         \A e \in Devices : Known(e) => Known(e)'
  PROVE  Clients'
<1> USE DEF Clients
<1>1. ClientsOK'
  BY DEF ClientsOK, Created
<1>2. CliRefers'
  BY DEF CliRefers, Created, Known
<1>3. WebRefers'
  BY DEF WebRefers, Created, Known, ClientsOK
<1> QED
  BY <1>1, <1>2, <1>3

LEMMA ClientsAtRest ==
  ASSUME Clients, UNCHANGED <<web, cli, store>>,
         overdue' \subseteq {p \in Pairings : Created(p)},
         \A q \in Pairings : Created(q) => Created(q)',
         \A e \in Devices : Known(e) => Known(e)'
  PROVE  Clients'
  BY DEF Clients, ClientsOK, CliRefers, WebRefers, Created, Known

-----------------------------------------------------------------------------
\* Commands

LEMMA PairCommand ==
  ASSUME Inv, NEW c \in Commands,
         \/ BeginPair(c) \/ CreatePairing(c) \/ Send(c) \/ InspectPairing(c)
         \/ ConsumePairing(c) \/ PutCredential(c)
  PROVE  Inv'
<1> USE DEF Inv
<1>0. cli[c] \in Processes /\ store \in Devices \cup {None} /\ (store /= None => Known(store))
  BY DEF Clients, ClientsOK, CliRefers
<1>1. CASE BeginPair(c)
  <2>1. cli' = [cli EXCEPT ![c] = [cli[c] EXCEPT !.pc = "create"]]
    BY <1>1 DEF BeginPair, Goto
  <2> QED
    BY <1>1, <2>1, ServerAtRest, GotoStep DEF BeginPair
<1>2. CASE CreatePairing(c)
  <2>1. PICK p \in Pairings :
          /\ pairing[p] = None
          /\ pairing' = [pairing EXCEPT ![p] = NewPairing]
          /\ cli' = [cli EXCEPT ![c] = [cli[c] EXCEPT !.pc = "wait", !.pairing = p]]
    BY <1>2 DEF CreatePairing, NewPairing
  <2>2. pairing' = [q \in Pairings |-> [pairing EXCEPT ![p] = NewPairing][q]]
    BY <2>1 DEF Server, TablesOK
  <2>3. Server' /\ \A q \in Pairings : Created(q) => Created(q)'
    BY <1>2, <2>1, <2>2, PairingStep DEF CreatePairing, Server, TablesOK
  <2>4. Created(p)' /\ \A e \in Devices : Known(e) => Known(e)'
    BY <1>2, <2>1, NewPairingRow DEF CreatePairing, granted, Created, Known, Server, TablesOK
  <2>5. [cli[c] EXCEPT !.pc = "wait", !.pairing = p] \in Processes
    BY <1>0 DEF Processes
  <2> QED
    BY <1>0, <1>2, <2>1, <2>3, <2>4, <2>5, ProcessStep DEF CreatePairing, Refers, Processes
<1>3. CASE Send(c)
  <2> DEFINE late == cli[c].pairing \in overdue
             pc == IF cli[c].pc = "wait" THEN "poll" ELSE "consume"
             next == [cli[c] EXCEPT !.pc = pc, !.late = late]
  <2>1. late \in BOOLEAN /\ pc \in {"poll", "consume"}
    OBVIOUS
  <2>2. cli' = [cli EXCEPT ![c] = next] /\ Created(cli[c].pairing)
    BY <1>3 DEF Send, Clients, ClientsOK, CliRefers
  <2> HIDE DEF late, pc
  <2>3. next \in Processes
    BY <1>0, <2>1, Zenon DEF Processes
  <2>4. next.pairing = cli[c].pairing /\ next.pc = pc
    BY <1>0, Zenon DEF Processes
  <2> HIDE DEF next
  <2>5. /\ Server' /\ \A q \in Pairings : Created(q) => Created(q)'
        /\ \A e \in Devices : Known(e) => Known(e)'
    BY <1>3, ServerAtRest DEF Send
  <2>6. PICK r \in Processes : r = next
    BY <2>3
  <2>7. Refers(r)'
    BY <2>1, <2>2, <2>4, <2>5, <2>6 DEF Refers, Created
  <2> QED
    BY <1>0, <1>3, <2>2, <2>5, <2>6, <2>7, ProcessStep DEF Send
<1>4. CASE InspectPairing(c)
  <2> DEFINE p == cli[c].pairing
  <2>1. Created(p)
    BY <1>4 DEF InspectPairing, At, Clients, CliRefers
  <2>2. \/ End(c)
        \/ \E pc \in {"wait", "approved"} : cli' = [cli EXCEPT ![c] = [cli[c] EXCEPT !.pc = pc]]
    BY <1>4 DEF InspectPairing, Goto
  <2>3. /\ Server' /\ \A q \in Pairings : Created(q) => Created(q)'
        /\ \A e \in Devices : Known(e) => Known(e)'
    BY <1>4, <2>1, ExpireStep, ServerAtRest DEF InspectPairing
  <2> HIDE DEF p
  <2> QED
    BY <1>4, <2>1, <2>2, <2>3, EndStep, GotoStep DEF InspectPairing, p
<1>5. CASE ConsumePairing(c)
  <2> DEFINE p == cli[c].pairing
  <2>1. Created(p)
    BY <1>5 DEF ConsumePairing, At, Clients, CliRefers
  <2>3. CASE Open(p) /\ Become(p, "expired") /\ UNCHANGED granted /\ End(c)
    BY <1>5, <2>1, <2>3, ExpireStep, EndStep DEF ConsumePairing
  <2>4. CASE UNCHANGED <<pairing, granted>> /\ End(c)
    BY <1>5, <2>4, ServerAtRest, EndStep DEF ConsumePairing
  <2>5. ASSUME NEW d \in Devices, pairing[p].status = "approved", Consume(p, d),
               cli' = [cli EXCEPT ![c] = [Idle EXCEPT !.pc = "put", !.device = d]]
        PROVE  Inv'
    <3> DEFINE r == [Idle EXCEPT !.pc = "put", !.device = d]
    <3>1. r \in Processes /\ r.pc = "put" /\ r.device = d
      BY DEF Idle, Processes
    <3>2. /\ Server' /\ Known(d)' /\ \A q \in Pairings : Created(q) => Created(q)'
          /\ \A e \in Devices : Known(e) => Known(e)'
      BY <2>1, <2>5, ConsumeStep
    <3> HIDE DEF r
    <3> QED
      BY <1>0, <1>5, <2>5, <3>1, <3>2, ProcessStep DEF ConsumePairing, Refers, r
  <2> QED
    BY <1>5, <2>3, <2>4, <2>5 DEF ConsumePairing
<1>6. CASE PutCredential(c)
  <2>1. Known(cli[c].device)
    BY <1>6 DEF PutCredential, At, Clients, CliRefers
  <2>2. Idle \in Processes /\ Idle.pc = "idle"
    BY DEF Idle, Processes
  <2> QED
    BY <1>6, <2>1, <2>2, ServerAtRest, ProcessStep DEF PutCredential, End, Refers, granted, Known
<1> QED
  BY <1>1, <1>2, <1>3, <1>4, <1>5, <1>6

LEMMA CredentialCommand ==
  ASSUME Inv, NEW c \in Commands,
         \/ BeginLogout(c) \/ BeginCommand(c) \/ IssueDeviceAccessToken(c)
         \/ ResolveAccessToken(c) \/ RevokeCurrentDevice(c) \/ DeleteCredential(c) \/ Fail(c)
  PROVE  Inv'
<1> USE DEF Inv
<1>0. cli[c] \in Processes /\ store \in Devices \cup {None} /\ (store /= None => Known(store))
  BY DEF Clients, ClientsOK, CliRefers
<1>3. CASE BeginLogout(c) \/ BeginCommand(c)
  <2>1. PICK pc \in {"leaving", "access"} :
          cli' = [cli EXCEPT ![c] = [cli[c] EXCEPT !.pc = pc, !.device = store]]
    BY <1>3 DEF BeginLogout, BeginCommand
  <2>2. Known(store)
    BY <1>0, <1>3 DEF BeginLogout, BeginCommand
  <2> DEFINE r == [cli[c] EXCEPT !.pc = pc, !.device = store]
  <2>3. r \in Processes /\ r.pc \in {"leaving", "access"} /\ r.device = store
    BY <1>0, <2>2 DEF Processes, Known
  <2> HIDE DEF r
  <2> QED
    BY <1>0, <1>3, <2>1, <2>2, <2>3, ServerAtRest, ProcessStep
    DEF BeginLogout, BeginCommand, Refers, granted, Known, r
<1>4. CASE IssueDeviceAccessToken(c)
  <2>1. Known(cli[c].device)
    BY <1>4 DEF IssueDeviceAccessToken, Clients, CliRefers
  <2>2. Server' /\ UNCHANGED <<pairing, device>>
    BY <1>4, <2>1, IssueStep, ServerAtRest DEF IssueDeviceAccessToken, Known, granted
  <2>3. \/ End(c)
        \/ \E pc \in {"resolve", "clean"} : cli' = [cli EXCEPT ![c] = [cli[c] EXCEPT !.pc = pc]]
    BY <1>4 DEF IssueDeviceAccessToken, Goto
  <2>4. /\ \A q \in Pairings : Created(q) => Created(q)'
        /\ \A e \in Devices : Known(e) => Known(e)'
    BY <2>2 DEF Created, Known
  <2> QED
    BY <1>4, <2>1, <2>2, <2>3, <2>4, EndStep, GotoStep DEF IssueDeviceAccessToken
<1>5. CASE ResolveAccessToken(c)
  <2>1. Known(cli[c].device)
    BY <1>5 DEF ResolveAccessToken, At, Clients, CliRefers
  <2>2. \E pc \in {"revoke", "clean"} : cli' = [cli EXCEPT ![c] = [cli[c] EXCEPT !.pc = pc]]
    BY <1>5 DEF ResolveAccessToken, Goto
  <2> QED
    BY <1>5, <2>1, <2>2, ServerAtRest, GotoStep DEF ResolveAccessToken
<1>6. CASE RevokeCurrentDevice(c)
  <2>1. Known(cli[c].device)
    BY <1>6 DEF RevokeCurrentDevice, At, Clients, CliRefers
  <2>2. /\ Server' /\ \A q \in Pairings : Created(q) => Created(q)'
        /\ \A e \in Devices : Known(e) => Known(e)'
    BY <1>6, <2>1, RevokeStep, ServerAtRest DEF RevokeCurrentDevice, Known
  <2>3. \/ End(c)
        \/ cli' = [cli EXCEPT ![c] = [cli[c] EXCEPT !.pc = "clean"]]
    BY <1>6 DEF RevokeCurrentDevice, Goto
  <2> QED
    BY <1>6, <2>1, <2>2, <2>3, EndStep, GotoStep DEF RevokeCurrentDevice
<1>7. CASE DeleteCredential(c) \/ Fail(c)
  BY <1>7, ServerAtRest, EndStep DEF DeleteCredential, Fail
<1> QED
  BY <1>3, <1>4, <1>5, <1>6, <1>7

-----------------------------------------------------------------------------
\* The web, calls without the secret, and time

LEMMA WebStep ==
  ASSUME Inv, NEW u \in Users, Web(u) PROVE Inv'
<1> USE DEF Inv
<1>1. CASE \E p \in Pairings, verdict \in {"approved", "denied"} : AskDecision(u, p, verdict)
  <2>1. PICK p \in Pairings, verdict \in {"approved", "denied"} : AskDecision(u, p, verdict)
    BY <1>1
  <2> DEFINE late == p \in overdue
             r == [op |-> verdict, pairing |-> p, late |-> late]
  <2>2. late \in BOOLEAN
    OBVIOUS
  <2>3. web' = [web EXCEPT ![u] = r] /\ Created(p)
    BY <2>1 DEF AskDecision, Created
  <2> HIDE DEF late
  <2>4. r \in Decisions /\ r \notin Revokes /\ r.pairing = p
    BY <2>2 DEF Decisions, Revokes
  <2> HIDE DEF r
  <2> QED
    BY <2>1, <2>3, <2>4, ServerAtRest, RequestStep DEF AskDecision
<1>2. CASE \E d \in Devices : AskRevoke(u, d)
  <2>1. PICK d \in Devices : AskRevoke(u, d)
    BY <1>2
  <2> DEFINE r == [op |-> "revoke", device |-> d]
  <2>2. web' = [web EXCEPT ![u] = r] /\ Known(d)
    BY <2>1 DEF AskRevoke, Known
  <2>3. r \in Revokes /\ r \notin Decisions /\ r.device = d
    BY DEF Decisions, Revokes
  <2> HIDE DEF r
  <2> QED
    BY <2>1, <2>2, <2>3, ServerAtRest, RequestStep DEF AskRevoke
<1>3. None \notin Decisions /\ None \notin Revokes
  BY IdentityAssumption
<1>4. CASE DecidePairing(u)
  <2> DEFINE p == web[u].pairing
             next == [pairing[p] EXCEPT
                        !.status = web[u].op,
                        !.approver = IF web[u].op = "approved" THEN u ELSE None]
  <2>1. Created(p) /\ web[u].op \in {"approved", "denied"}
    BY <1>4 DEF DecidePairing, Clients, WebRefers, Decisions
  <2>2. ASSUME pairing[p].status = "pending" PROVE Moves(pairing[p], next)
    <3>1. /\ pairing[p] \in PairingRows /\ pairing[p].device = None
          /\ ~(pairing[p].attempts >= MaxAttempts)
      BY <2>1, <2>2, OpenRow DEF Open
    <3> QED
      BY <2>1, <3>1 DEF Moves, PairingRows, Statuses
  <2>3. \/ pairing[p].status = "pending" /\ pairing' = [pairing EXCEPT ![p] = next]
        \/ pairing[p].status = "pending" /\ Become(p, "expired")
        \/ UNCHANGED pairing
    BY <1>4, <2>1 DEF DecidePairing, Created, Server, TablesOK
  <2> HIDE DEF p, next
  <2>4. /\ Server' /\ \A q \in Pairings : Created(q) => Created(q)'
        /\ \A e \in Devices : Known(e) => Known(e)'
    BY <1>4, <2>1, <2>2, <2>3, MovingStep, ExpireStep, ServerAtRest DEF DecidePairing, Open
  <2> QED
    BY <1>3, <1>4, <2>4, RequestStep DEF DecidePairing
<1>5. CASE RevokeOnWeb(u)
  <2>1. web[u].device \in Devices
    BY <1>5 DEF RevokeOnWeb, Clients, WebRefers, Known
  <2>2. /\ Server' /\ \A q \in Pairings : Created(q) => Created(q)'
        /\ \A e \in Devices : Known(e) => Known(e)'
    BY <1>5, <2>1, RevokeStep, ServerAtRest DEF RevokeOnWeb
  <2> QED
    BY <1>3, <1>5, <2>2, RequestStep DEF RevokeOnWeb
<1> QED
  BY <1>1, <1>2, <1>4, <1>5 DEF Web

LEMMA MismatchStep ==
  ASSUME Inv, NEW p \in Pairings, Mismatch(p) PROVE Inv'
<1> DEFINE n == pairing[p].attempts + 1
           s == IF n >= MaxAttempts THEN "revoked" ELSE pairing[p].status
           next == [pairing[p] EXCEPT !.attempts = n, !.status = s]
<1> USE DEF Inv
<1>1. Created(p) /\ Open(p)
  BY DEF Mismatch, Created
<1>2. /\ pairing[p] \in PairingRows /\ pairing[p].device = None
      /\ ~(pairing[p].attempts >= MaxAttempts)
  BY <1>1, OpenRow
<1>3. pairing' = [pairing EXCEPT ![p] = next]
  BY <1>1 DEF Mismatch, Created, Server, TablesOK
<1>4. n \in 0..MaxAttempts /\ s \in Statuses /\ (n >= MaxAttempts => s = "revoked")
      /\ s /= "consumed" /\ (s = "approved" => pairing[p].status = "approved")
  BY <1>1, <1>2, IdentityAssumption DEF PairingRows, Statuses, Open
<1>5. pairing[p].status = "approved" => pairing[p].approver \in Users
  BY <1>1 DEF Server, RowsAgree, Created
<1> HIDE DEF n, s
<1>6. Moves(pairing[p], next)
  BY <1>2, <1>4, <1>5 DEF Moves, PairingRows
<1> HIDE DEF next
<1>7. /\ Server' /\ \A q \in Pairings : Created(q) => Created(q)'
      /\ \A e \in Devices : Known(e) => Known(e)'
  BY <1>1, <1>3, <1>6, MovingStep DEF Mismatch
<1> QED
  BY <1>7, ClientsAtRest DEF Mismatch, Clients, ClientsOK, Created

LEMMA TimeStep ==
  ASSUME Inv, ExpirePairings \/ \E p \in Pairings : Due(p) PROVE Inv'
<1> USE DEF Inv
<1>1. CASE ExpirePairings
  <2> DEFINE Late(p) == p \in overdue /\ pairing[p].status = "pending"
             f == [p \in Pairings |->
                     IF Late(p) THEN [pairing[p] EXCEPT !.status = "expired"] ELSE pairing[p]]
  <2>1. ASSUME NEW p \in Pairings, Late(p)
        PROVE  pairing[p] /= None /\ Moves(pairing[p], f[p])
    <3>1. Created(p)
      BY <2>1 DEF Clients, ClientsOK, Created
    <3>2. /\ pairing[p] \in PairingRows /\ pairing[p].device = None
          /\ ~(pairing[p].attempts >= MaxAttempts)
      BY <2>1, <3>1, OpenRow DEF Open
    <3> QED
      BY <2>1, <3>1, <3>2 DEF Moves, PairingRows, Statuses, Created
  <2>2. \A p \in Pairings : f[p] = pairing[p] \/ (pairing[p] /= None /\ Moves(pairing[p], f[p]))
    BY <2>1
  <2>3. pairing' = [p \in Pairings |-> f[p]]
    BY <1>1 DEF ExpirePairings
  <2> HIDE DEF f
  <2>4. Server' /\ \A q \in Pairings : Created(q) => Created(q)'
    BY <1>1, <2>2, <2>3, PairingStep DEF ExpirePairings
  <2> QED
    BY <1>1, <2>4, ClientsAtRest DEF ExpirePairings, Clients, ClientsOK, Created, granted, Known
<1>2. CASE \E p \in Pairings : Due(p)
  BY <1>2, ServerAtRest, ClientsAtRest DEF Due, Clients, ClientsOK, Created
<1> QED
  BY <1>1, <1>2

-----------------------------------------------------------------------------
\* The specification

LEMMA InitInv == ASSUME Init PROVE Inv
<1>1. \A c \in Commands : cli[c] = Idle /\ Idle \in Processes /\ Idle.pc = "idle"
  BY DEF Init, Idle, Processes
<1>2. Server
  BY DEF Init, Server, TablesOK, RowsAgree, OneDeviceEach, RevokedIsSilent
<1>3. Clients
  BY <1>1, IdentityAssumption DEF Init, Clients, ClientsOK, CliRefers, WebRefers
<1> QED
  BY <1>2, <1>3 DEF Inv

LEMMA StepInv == ASSUME Inv, [Next]_vars PROVE Inv'
<1>1. CASE \E c \in Commands : Command(c)
  BY <1>1, PairCommand, CredentialCommand DEF Command
<1>2. CASE \E u \in Users : Web(u)
  BY <1>2, WebStep
<1>3. CASE \E p \in Pairings : Mismatch(p)
  BY <1>3, MismatchStep
<1>4. CASE ExpirePairings \/ \E p \in Pairings : Due(p)
  BY <1>4, TimeStep
<1>5. CASE UNCHANGED vars
  BY <1>5, ServerAtRest, ClientsAtRest DEF vars, Inv, Clients, ClientsOK, Created
<1> QED
  BY <1>1, <1>2, <1>3, <1>4, <1>5 DEF Next

LEMMA Invariance == Spec => []Inv
<1>1. Init => Inv
  BY InitInv
<1>2. Inv /\ [Next]_vars => Inv'
  BY StepInv
<1> QED
  BY <1>1, <1>2, PTL DEF Spec

\* Types and foreign keys hold in every reachable state.
THEOREM TypeCorrectness == Spec => []TypeOK
<1>1. Inv => TypeOK
  BY DEF Inv, Server, Clients, TablesOK, ClientsOK, Processes, TypeOK
<1> QED
  BY <1>1, Invariance, PTL

\* FR-004: each pairing yields at most one device and each device comes from
\* one pairing, which its user approved, whatever meets whatever.
THEOREM OneDevicePerPairing == Spec => []OneDeviceEach
<1>1. Inv => OneDeviceEach
  BY DEF Inv, Server
<1> QED
  BY <1>1, Invariance, PTL

\* A revoked device has neither a credential nor a token, ever after.
THEOREM RevocationSilences == Spec => []RevokedIsSilent
<1>1. Inv => RevokedIsSilent
  BY DEF Inv, Server
<1> QED
  BY <1>1, Invariance, PTL

LEMMA RevokedPairing ==
  ASSUME Inv, NEW d \in Devices, NEW u, RevokeDevice(d, u), NEW p \in Pairings PROVE OnlyMovesOn(p)
<1>1. CASE pairing[p] /= None /\ pairing[p].device = d
  <2>1. pairing[p] \in PairingRows /\ pairing[p].status \in {"consumed", "revoked"}
    BY <1>1, IdentityAssumption DEF Inv, Server, TablesOK, RowsAgree, RevokeDevice
  <2>2. pairing'[p] = [pairing[p] EXCEPT !.status = "revoked"]
    BY <1>1 DEF RevokeDevice
  <2>3. pairing[p].status = "revoked" => pairing'[p] = pairing[p]
    BY <2>1, <2>2 DEF PairingRows
  <2>4. pairing'[p].status = "revoked" /\ pairing'[p].approver = pairing[p].approver
    BY <2>1, <2>2 DEF PairingRows
  <2> QED
    BY <2>1, <2>3, <2>4 DEF OnlyMovesOn, Onward
<1>2. CASE ~(pairing[p] /= None /\ pairing[p].device = d)
  BY <1>2 DEF RevokeDevice, OnlyMovesOn
<1> QED
  BY <1>1, <1>2

\* Final statuses are final, and the user who approved stays, however late a
\* decision or a call is served.
THEOREM PairingsMoveOn == Spec => PairingOnlyMovesOn
<1>1. ASSUME Inv, [Next]_vars, NEW p \in Pairings PROVE OnlyMovesOn(p)
  <2>0. pairing[p] \in {None} \cup PairingRows /\ pairing = [q \in Pairings |-> pairing[q]]
    BY <1>1 DEF Inv, Server, TablesOK
  <2>1. CASE UNCHANGED pairing
    BY <2>1 DEF OnlyMovesOn, Onward
  <2>2. CASE \E c \in Commands : CreatePairing(c)
    BY <2>0, <2>2 DEF CreatePairing, OnlyMovesOn
  <2>3. CASE \E q \in Pairings : Open(q) /\ Become(q, "expired")
    <3>1. PICK q \in Pairings : Open(q) /\ Become(q, "expired")
      BY <2>3
    <3>2. CASE pairing[p] \in PairingRows /\ q = p
      <4>1. pairing'[p] = [pairing[p] EXCEPT !.status = "expired"]
        BY <2>0, <3>1, <3>2 DEF Become
      <4> QED
        BY <3>1, <3>2, <4>1 DEF Open, OnlyMovesOn, Onward, PairingRows
    <3>3. CASE pairing[p] = None \/ q /= p
      BY <2>0, <3>1, <3>3 DEF Become, OnlyMovesOn
    <3> QED
      BY <2>0, <3>2, <3>3
  <2>4. CASE \E c \in Commands : ConsumePairing(c)
    <3>1. PICK c \in Commands : ConsumePairing(c)
      BY <2>4
    <3>2. cli[c].pairing \in Pairings
      BY <1>1, <3>1 DEF ConsumePairing, At, Inv, Clients, CliRefers, Created
    <3>3. CASE \E d \in Devices : pairing[cli[c].pairing].status = "approved"
                                  /\ Consume(cli[c].pairing, d)
      <4>1. PICK d \in Devices : pairing[cli[c].pairing].status = "approved"
                                 /\ Consume(cli[c].pairing, d)
        BY <3>3
      <4>2. CASE pairing[p] \in PairingRows /\ cli[c].pairing = p
        <5>1. pairing'[p] = [pairing[p] EXCEPT !.status = "consumed", !.device = d]
          BY <2>0, <4>1, <4>2 DEF Consume
        <5>2. pairing'[p].status = "consumed" /\ pairing'[p].approver = pairing[p].approver
          BY <4>2, <5>1 DEF PairingRows
        <5> QED
          BY <4>1, <4>2, <5>2 DEF OnlyMovesOn, Onward
      <4>3. CASE pairing[p] = None \/ cli[c].pairing /= p
        BY <2>0, <4>1, <4>3 DEF Consume, OnlyMovesOn
      <4> QED
        BY <2>0, <4>2, <4>3
    <3> QED
      BY <2>1, <2>3, <3>1, <3>2, <3>3 DEF ConsumePairing
  <2>5. CASE \E c \in Commands : RevokeCurrentDevice(c)
    <3>1. PICK c \in Commands : RevokeCurrentDevice(c)
      BY <2>5
    <3>2. cli[c].device \in Devices
      BY <1>1, <3>1 DEF RevokeCurrentDevice, At, Inv, Clients, CliRefers, Known
    <3> QED
      BY <1>1, <2>1, <3>1, <3>2, RevokedPairing DEF RevokeCurrentDevice
  <2>6. CASE \E u \in Users : DecidePairing(u)
    <3>1. PICK u \in Users : DecidePairing(u)
      BY <2>6
    <3> DEFINE q == web[u].pairing
               next == [pairing[q] EXCEPT
                          !.status = web[u].op,
                          !.approver = IF web[u].op = "approved" THEN u ELSE None]
    <3>2. q \in Pairings /\ web[u].op \in {"approved", "denied"}
      BY <3>1 DEF DecidePairing, Decisions
    <3>3. CASE pairing[q].status = "pending" /\ pairing' = [pairing EXCEPT ![q] = next]
      <4>1. CASE pairing[p] \in PairingRows /\ q = p
        <5>1. pairing'[p].status \in {"approved", "denied"}
          BY <2>0, <3>2, <3>3, <4>1 DEF PairingRows
        <5> QED
          BY <3>3, <4>1, <5>1 DEF OnlyMovesOn, Onward
      <4>2. CASE pairing[p] = None \/ q /= p
        BY <2>0, <3>3, <4>2 DEF OnlyMovesOn
      <4> QED
        BY <2>0, <4>1, <4>2
    <3>4. CASE pairing[q].status = "pending" /\ Become(q, "expired")
      BY <2>3, <3>2, <3>4 DEF Open
    <3> QED
      BY <2>0, <2>1, <3>1, <3>3, <3>4 DEF DecidePairing
  <2>7. CASE \E u \in Users : RevokeOnWeb(u)
    <3>1. PICK u \in Users : RevokeOnWeb(u)
      BY <2>7
    <3>2. web[u].device \in Devices
      BY <3>1 DEF RevokeOnWeb, Revokes
    <3> QED
      BY <1>1, <2>1, <3>1, <3>2, RevokedPairing DEF RevokeOnWeb
  <2>8. CASE \E q \in Pairings : Mismatch(q)
    BY <2>0, <2>8 DEF Mismatch, Open, OnlyMovesOn, Onward, PairingRows
  <2>9. CASE ExpirePairings
    BY <2>0, <2>9 DEF ExpirePairings, OnlyMovesOn, Onward, PairingRows
  <2>10. CASE \E c \in Commands : InspectPairing(c)
    BY <1>1, <2>1, <2>3, <2>10 DEF InspectPairing, At, Inv, Clients, CliRefers, Created
  <2> QED
    BY <1>1, <2>1, <2>2, <2>3, <2>4, <2>5, <2>6, <2>7, <2>8, <2>9, <2>10
    DEF Next, Command, Web, BeginPair, Send, PutCredential, BeginLogout, BeginCommand,
        IssueDeviceAccessToken, ResolveAccessToken, DeleteCredential, Fail, AskDecision,
        AskRevoke, Due, vars
<1>2. Inv /\ [Next]_vars => [\A p \in Pairings : OnlyMovesOn(p)]_vars
  BY <1>1
<1> QED
  BY <1>2, Invariance, PTL DEF Spec, PairingOnlyMovesOn
=============================================================================
