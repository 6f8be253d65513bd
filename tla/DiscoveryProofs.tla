---------------------------- MODULE DiscoveryProofs ----------------------------
(***************************************************************************)
(* Proofs about Discovery, for any number of agents, services, passwords   *)
(* and concurrent calls of administrators.                                 *)
(***************************************************************************)
EXTENDS Discovery, FiniteSetTheorems, TLAPS

-----------------------------------------------------------------------------
(* The inductive invariant                                                 *)

\* connected_ref_id, once set, is a stored connection of the service.
RefsInv ==
    \A s \in Services :
       /\ service[s].ref # 0 =>
             /\ service[s].ref \in DOMAIN connection
             /\ connection[service[s].ref].service = s
       /\ service[s].status = "connected" => service[s].ref # 0

\* Passwords only change to later ones, so one that was accepted stays in the past.
StoredInv ==
    \A k \in DOMAIN connection :
       connection[k].service \in Directories =>
          connection[k].stored <= password[connection[k].service]

\* A call is about services only while it is open, a decision about one of them.
OnInv ==
    \A u \in Admins :
       /\ call[u].pc = "idle" => call[u].on = {}
       /\ call[u].pc \in {"bind", "decide"} => \A s, t \in call[u].on : s = t

\* What a call loaded is an earlier state of the tables: a connected_ref_id is never
\* cleared, a connection is neither deleted nor given to another service.
LoadedInv ==
    \A u \in Admins :
       /\ call[u].pc \in {"bind", "decide"} =>
             \A s \in call[u].on : call[u].read.ref # 0 => service[s].ref # 0
       /\ \A k \in DOMAIN call[u].loaded :
             k \in DOMAIN connection /\ call[u].loaded[k].service = connection[k].service

\* A decision to connect is about a password that was accepted, and updates a
\* connection of the same service.
BoundInv ==
    \A u \in Admins :
       call[u].pc = "decide" /\ call[u].next = "connected" =>
          \A s \in call[u].on :
             /\ call[u].row # 0 => /\ call[u].row \in DOMAIN call[u].loaded
                                   /\ call[u].loaded[call[u].row].service = s
             /\ s \in Directories => call[u].entered <= password[s]

\* A verification only touches connections it loaded, of services it is about.
VerifyingInv ==
    \A u \in Admins :
       call[u].pc = "verify" =>
          \A k \in call[u].todo \cup call[u].tried :
             k \in DOMAIN call[u].loaded /\ call[u].loaded[k].service \in call[u].on

CallsInv == OnInv /\ LoadedInv /\ BoundInv /\ VerifyingInv

\* While a service has only had one call at a time, what the open call loaded of
\* its connection is what is stored.
SoloInv ==
    \A s \in Services \ raced :
       /\ \A u, v \in Admins : s \in call[u].on /\ s \in call[v].on => u = v
       /\ \A j, k \in DOMAIN connection :
             connection[j].service = s /\ connection[k].service = s => j = k
       /\ \A k \in DOMAIN connection :
             connection[k].service = s => connection[k].tried = connection[k].stored
       /\ \A u \in Admins : s \in call[u].on =>
             \A k \in DOMAIN connection : connection[k].service = s =>
                /\ call[u].pc = "decide" /\ call[u].next = "connected" =>
                      k = call[u].row /\ call[u].loaded[k] = connection[k]
                /\ call[u].pc = "verify" =>
                      /\ k \in DOMAIN call[u].loaded
                      /\ call[u].loaded[k].stored = connection[k].stored
                      /\ call[u].loaded[k].tried = connection[k].stored

Inv == TypeOK /\ RefsInv /\ StoredInv /\ CallsInv /\ SoloInv

-----------------------------------------------------------------------------
(* Types and the initial states                                            *)

LEMMA NoCallIsCall == NoCall \in Call
BY ServicesAreKnown DEF NoCall, Call, Absent, Row, Statuses, Passwords

LEMMA NoReportIsReport == NoReport \in Report
BY DEF NoReport, Report

LEMMA InitHolds == Init => Inv
<1> SUFFICES ASSUME Init PROVE Inv
  OBVIOUS
<1>1. TypeOK
  BY NoCallIsCall, NoReportIsReport, ServicesAreKnown
     DEF Init, TypeOK, Row, Absent, Statuses, Passwords
<1>2. RefsInv /\ StoredInv
  BY DEF Init, RefsInv, StoredInv, Absent
<1>3. CallsInv /\ SoloInv
  BY DEF Init, CallsInv, OnInv, LoadedInv, BoundInv, VerifyingInv, SoloInv, NoCall
<1>4. QED BY <1>1, <1>2, <1>3 DEF Inv

-----------------------------------------------------------------------------
(* The network and the agents                                              *)

LEMMA PasswordsCompare ==
    ASSUME TypeOK, NEW s \in Services
    PROVE  password[s] \in Nat /\ password[s] <= password[s]
BY ServicesAreKnown DEF TypeOK, Passwords

\* Nothing that a call, a connection or an administrator's decision rests on changes.
LEMMA ReportsLeaveTheRest ==
    ASSUME Inv, UNCHANGED <<connection, call, raced>>, TypeOK',
           \A s \in Services : service'[s].ref = service[s].ref,
           \A s \in Services : service'[s].status = "connected" =>
                                  service[s].status = "connected",
           \A s \in Services : password[s] <= password'[s]
    PROVE  Inv'
<1> USE DEF Inv
<1> USE ServicesAreKnown
<1>1. RefsInv'
  BY DEF RefsInv
<1>2. \A s \in Services : \A p \in Passwords : p <= password[s] => p <= password'[s]
  BY DEF TypeOK, Passwords
<1>3. StoredInv'
  <2> SUFFICES ASSUME NEW k \in DOMAIN connection, connection[k].service \in Directories
               PROVE  connection[k].stored <= password'[connection[k].service]
    BY DEF StoredInv
  <2>1. connection[k] \in Connection
    BY DEF TypeOK
  <2>2. connection[k].stored <= password[connection[k].service]
    BY DEF StoredInv
  <2>3. QED BY <1>2, <2>1, <2>2 DEF Connection
<1>4. OnInv' /\ LoadedInv' /\ VerifyingInv'
  <2>1. \A u \in Admins : call[u].on \subseteq Services
    BY DEF TypeOK, Call
  <2>2. QED BY <2>1 DEF CallsInv, OnInv, LoadedInv, VerifyingInv
<1>5. BoundInv'
  <2>1. \A u \in Admins : call[u].on \subseteq Services /\ call[u].entered \in Passwords
    BY DEF TypeOK, Call
  <2>2. QED BY <1>2, <2>1 DEF CallsInv, BoundInv
<1>6. SoloInv'
  BY DEF SoloInv
<1>7. QED BY <1>1, <1>3, <1>4, <1>5, <1>6 DEF CallsInv

LEMMA NetworkSteps ==
    ASSUME Inv, NEW s \in Services, Join(s) \/ ChangePassword(s)
    PROVE  Inv' /\ UNCHANGED service
<1> USE DEF Inv
<1>1. UNCHANGED <<recorded, report, call, raced>>
  BY DEF Join, ChangePassword
<1>2. /\ password' \in [Services -> Passwords]
      /\ \A t \in Services : password[t] <= password'[t]
  <2>1. CASE Join(s)
    BY <2>1, PasswordsCompare DEF Join, TypeOK
  <2>2. CASE ChangePassword(s)
    <3>1. password[s] + 1 \in Passwords /\ password[s] <= password[s] + 1
      BY <2>2, ServicesAreKnown DEF ChangePassword, TypeOK, Passwords
    <3>2. QED BY <2>2, <3>1, PasswordsCompare DEF ChangePassword, TypeOK
  <2>3. QED BY <2>1, <2>2
<1>3. network' \subseteq Services
  BY DEF Join, ChangePassword, TypeOK
<1>4. TypeOK'
  BY <1>1, <1>2, <1>3 DEF TypeOK, recorded
<1>5. QED BY <1>1, <1>2, <1>4, ReportsLeaveTheRest DEF recorded

LEMMA CommitReportSteps ==
    ASSUME Inv, NEW a \in Agents, CommitReport(a)
    PROVE  /\ Inv'
           /\ \A s \in Services : service[s] # Absent => service'[s] = service[s]
<1> USE DEF Inv
<1>1. UNCHANGED <<network, password, connection, call, raced>>
  BY DEF CommitReport
<1>2. \A s \in Services :
         service'[s] = service[s] \/ (service[s] = Absent /\ service'[s] = Discovered)
  <2> DEFINE found == {w.service : w \in report[a].held \cup report[a].dirty}
  <2>1. service' = IF Conflict(a) THEN service
                   ELSE [s \in Services |-> IF s \notin found THEN service[s]
                                            ELSE IF service[s] = Absent THEN Discovered
                                            ELSE service[s]]
    BY DEF CommitReport, Refreshed
  <2> HIDE DEF found
  <2>2. CASE Conflict(a)
    BY <2>1, <2>2
  <2>3. CASE ~Conflict(a)
    BY <2>1, <2>3
  <2>4. QED BY <2>2, <2>3
<1>3. service' \in [Services -> Row]
  <2>1. Discovered \in Row
    BY DEF Discovered, Row, Statuses
  <2>2. service' = [s \in Services |-> service'[s]]
    BY DEF CommitReport, TypeOK
  <2>3. QED BY <1>2, <2>1, <2>2 DEF TypeOK
<1>4. report' \in [Agents -> Report]
  BY NoReportIsReport DEF CommitReport, TypeOK
<1>5. TypeOK'
  BY <1>1, <1>3, <1>4 DEF TypeOK
<1>6. \A s \in Services : /\ service'[s].ref = service[s].ref
                          /\ service'[s].status = "connected" =>
                                service[s].status = "connected"
  BY <1>2 DEF Discovered, Absent
<1>7. \A s \in Services : password[s] <= password'[s]
  BY <1>1, PasswordsCompare
<1>8. QED BY <1>1, <1>2, <1>5, <1>6, <1>7, ReportsLeaveTheRest

LEMMA ReportSteps ==
    ASSUME Inv, NEW a \in Agents,
           \/ AgentStep(a) \/ Lose(a) \/ FailReport(a)
           \/ \E s \in Services : LookUp(a, s)
    PROVE  Inv' /\ UNCHANGED service
<1> USE DEF Inv
<1>1. UNCHANGED <<network, password, recorded, call, raced>>
  BY DEF AgentStep, ScanOnce, Accept, Lose, FailReport, LookUp
<1>2. report' \in [Agents -> Report]
  <2>1. CASE Accept(a) \/ Lose(a) \/ FailReport(a)
    BY <2>1, NoReportIsReport DEF Accept, Lose, FailReport, TypeOK, Report
  <2>2. CASE ScanOnce(a)
    <3>1. PICK dns \in DNSServers(a), gateway \in Gateway(a), srv \in ViaDNSSRV,
               mdns \in ViaMDNS, llmnr \in ViaLLMNR, arp \in ViaARPScan(a),
               dhcp \in ViaPassiveDHCP(a) :
             report' = [report EXCEPT ![a] =
                          [NoReport EXCEPT !.pc = "posting",
                             !.todo = UNION {dns, gateway, srv, mdns, llmnr, arp, dhcp}]]
      BY <2>2 DEF ScanOnce
    <3>2. \A m : Of(m) \subseteq Services
      BY DEF Of, TypeOK
    <3>3. /\ srv \subseteq Services /\ mdns \subseteq Services
          /\ llmnr \subseteq Services /\ dns \subseteq Services
      <4>1. Resolves(a) \subseteq Services
        BY ServicesAreKnown DEF Resolves
      <4>2. QED BY <3>2, <4>1 DEF DNSServers, ViaDNSSRV, ViaMDNS, ViaLLMNR
    <3>8. gateway \subseteq Services
      <4>1. Routes[a] \in Seq(Services \cup Unusable)
        BY ServicesAreKnown
      <4>2. \A i \in DOMAIN Routes[a] : Routes[a][i] \in Services \cup Unusable
        BY <4>1
      <4>3. QED BY <4>2 DEF Gateway, RoutesBy
    <3>4. arp \subseteq Services /\ dhcp \subseteq Services
      BY <3>2 DEF ViaARPScan, ViaPassiveDHCP
    <3> DEFINE pending == UNION {dns, gateway, srv, mdns, llmnr, arp, dhcp}
    <3>5. pending \subseteq Services
      BY <3>3, <3>4, <3>8
    <3> HIDE DEF pending
    <3>6. [NoReport EXCEPT !.pc = "posting", !.todo = pending] \in Report
      BY <3>5 DEF NoReport, Report
    <3>7. QED BY <3>1, <3>6 DEF TypeOK, pending
  <2>3. ASSUME NEW s \in Services, LookUp(a, s) PROVE report' \in [Agents -> Report]
    <3> DEFINE found == {[service |-> s, insert |-> service[s] = Absent]}
               seen == [pc |-> "open", todo |-> report[a].todo \ {s}, dirty |-> found,
                        held |-> report[a].held \cup report[a].dirty]
    <3>1. report' = [report EXCEPT ![a] = IF Conflict(a) THEN NoReport ELSE seen]
      BY <2>3 DEF LookUp
    <3>2. found \subseteq Write
      BY DEF Write
    <3> HIDE DEF found
    <3>3. seen \in Report
      BY <3>2 DEF TypeOK, Report
    <3> HIDE DEF seen
    <3>4. QED BY <3>1, <3>3, NoReportIsReport DEF TypeOK
  <2>4. QED BY <2>1, <2>2, <2>3 DEF AgentStep
<1>3. TypeOK'
  BY <1>1, <1>2 DEF TypeOK, recorded
<1>4. \A s \in Services : password[s] <= password'[s]
  BY <1>1, PasswordsCompare
<1>5. QED BY <1>1, <1>3, <1>4, ReportsLeaveTheRest DEF recorded

-----------------------------------------------------------------------------
(* The calls of administrators                                             *)

\* What the invariant says of a call that is opened, or goes on, while the tables and
\* every other call stay as they are.
LEMMA CallSteps ==
    ASSUME Inv, NEW u \in Admins, NEW c \in Call, call' = [call EXCEPT ![u] = c],
           UNCHANGED <<network, password, recorded, report>>,
           raced \subseteq raced', raced' \subseteq Services,
           \A s \in c.on \ raced' : \A v \in Admins \ {u} : s \notin call[v].on,
           c.pc = "idle" => c.on = {},
           c.pc \in {"bind", "decide"} =>
              \A s, t \in c.on : s = t /\ (c.read.ref # 0 => service[s].ref # 0),
           \A k \in DOMAIN c.loaded :
              k \in DOMAIN connection /\ c.loaded[k].service = connection[k].service,
           c.pc = "decide" /\ c.next = "connected" =>
              \A s \in c.on :
                 /\ c.row # 0 => c.row \in DOMAIN c.loaded /\ c.loaded[c.row].service = s
                 /\ s \in Directories => c.entered <= password[s],
           c.pc = "verify" =>
              \A k \in c.todo \cup c.tried :
                 k \in DOMAIN c.loaded /\ c.loaded[k].service \in c.on,
           \A s \in c.on \ raced' : \A k \in DOMAIN connection :
              connection[k].service = s =>
                 /\ c.pc = "decide" /\ c.next = "connected" =>
                       k = c.row /\ c.loaded[k] = connection[k]
                 /\ c.pc = "verify" =>
                       /\ k \in DOMAIN c.loaded
                       /\ c.loaded[k].stored = connection[k].stored
                       /\ c.loaded[k].tried = connection[k].stored
    PROVE  Inv'
<1> USE DEF Inv, CallsInv
<1>1. call'[u] = c /\ \A v \in Admins \ {u} : call'[v] = call[v]
  BY DEF TypeOK
<1>2. UNCHANGED <<network, password, service, connection, report>>
  BY DEF recorded
<1>3. TypeOK'
  <2>1. call' \in [Admins -> Call]
    BY DEF TypeOK
  <2>2. QED BY <1>2, <2>1 DEF TypeOK
<1>4. RefsInv' /\ StoredInv'
  BY <1>2 DEF RefsInv, StoredInv
<1>5. OnInv'
  BY <1>1 DEF OnInv
<1>6. LoadedInv'
  BY <1>1, <1>2 DEF LoadedInv
<1>7. BoundInv'
  BY <1>1, <1>2 DEF BoundInv
<1>8. VerifyingInv'
  BY <1>1 DEF VerifyingInv
<1>9. SoloInv'
  <2>1. ASSUME NEW s \in Services \ raced', NEW v \in Admins, NEW w \in Admins,
               s \in call'[v].on, s \in call'[w].on
        PROVE  v = w
    BY <1>1, <2>1 DEF SoloInv
  <2>2. ASSUME NEW s \in Services \ raced', NEW v \in Admins, s \in call'[v].on,
               NEW k \in DOMAIN connection, connection[k].service = s
        PROVE  /\ call'[v].pc = "decide" /\ call'[v].next = "connected" =>
                     k = call'[v].row /\ call'[v].loaded[k] = connection[k]
               /\ call'[v].pc = "verify" =>
                     /\ k \in DOMAIN call'[v].loaded
                     /\ call'[v].loaded[k].stored = connection[k].stored
                     /\ call'[v].loaded[k].tried = connection[k].stored
    BY <1>1, <2>2 DEF SoloInv
  <2>3. QED BY <1>2, <2>1, <2>2 DEF SoloInv
<1>10. QED BY <1>3, <1>4, <1>5, <1>6, <1>7, <1>8, <1>9

LEMMA OpenedDecisions ==
    ASSUME Inv, NEW u \in Admins, NEW s \in Services, NEW c \in Call, Begin(u, c),
           c.pc \in {"bind", "decide"}, c.on = {s}, c.read = service[s], c.loaded = <<>>,
           c.next # "connected"
    PROVE  Inv'
<1>1. raced' = raced \cup (c.on \cap UNION {call[v].on : v \in Admins})
  BY DEF Begin
<1>2. raced' \subseteq Services
  BY <1>1 DEF Inv, TypeOK
<1>3. \A t \in c.on \ raced' : \A v \in Admins \ {u} : t \notin call[v].on
  BY <1>1
<1>4. /\ UNCHANGED <<network, password, recorded, report>>
      /\ call' = [call EXCEPT ![u] = c]
  BY DEF Begin
<1>5. DOMAIN c.loaded = {}
  OBVIOUS
<1>6. \A t \in c.on : t = s
  OBVIOUS
<1>7. QED BY <1>1, <1>2, <1>3, <1>4, <1>5, <1>6, CallSteps

LEMMA OpenedVerifications ==
    ASSUME Inv, NEW u \in Admins, NEW rows \in SUBSET DOMAIN connection,
           Begin(u, Verification(rows))
    PROVE  Inv'
<1> DEFINE c == Verification(rows)
<1>1. /\ c.pc = "verify" /\ c.todo = rows /\ c.tried = {} /\ c.loaded = connection
      /\ c.on = {connection[k].service : k \in rows}
  BY DEF Verification, NoCall
<1>2. c \in Call
  <2>1. DOMAIN connection \subseteq Nat
    BY DEF Inv, TypeOK
  <2>2. \A k \in rows : connection[k].service \in Services
    <3>1. \A k \in DOMAIN connection : connection[k] \in Connection
      BY DEF Inv, TypeOK
    <3>2. QED BY <3>1 DEF Connection
  <2>3. c.on \subseteq Services
    BY <1>1, <2>2
  <2>4. QED BY <2>1, <2>3, NoCallIsCall DEF Verification, Call, Inv, TypeOK
<1>3. raced' = raced \cup (c.on \cap UNION {call[v].on : v \in Admins})
  BY DEF Begin
<1> HIDE DEF c
<1>4. raced' \subseteq Services
  BY <1>2, <1>3 DEF Inv, TypeOK, Call
<1>5. \A t \in c.on \ raced' : \A v \in Admins \ {u} : t \notin call[v].on
  BY <1>3
<1>6. \A s \in c.on \ raced' : \A k \in DOMAIN connection :
         connection[k].service = s => connection[k].tried = connection[k].stored
  BY <1>2, <1>3 DEF Inv, SoloInv, Call
<1>7. QED BY <1>1, <1>2, <1>3, <1>4, <1>5, <1>6, CallSteps DEF Begin, c

LEMMA OpensSteps ==
    ASSUME Inv, NEW u \in Admins, Opens(u)
    PROVE  Inv' /\ UNCHANGED service
<1>1. UNCHANGED service
  BY DEF Opens, OpenReverifyAll, OpenIgnore, OpenReverify, OpenConnect, Begin, recorded
<1>2. CASE OpenReverifyAll(u)
  BY <1>1, <1>2, OpenedVerifications DEF OpenReverifyAll
<1>3. ASSUME NEW s \in Services, OpenReverify(u, s) PROVE Inv'
  BY <1>3, OpenedVerifications DEF OpenReverify, ConnectionsOf
<1>4. ASSUME NEW s \in Services, OpenIgnore(u, s) PROVE Inv'
  <2> DEFINE c == [Loaded(s) EXCEPT !.next = "ignored"]
  <2>1. c \in Call
    BY NoCallIsCall DEF Loaded, Call, Statuses, Inv, TypeOK
  <2>2. /\ c.pc = "decide" /\ c.on = {s} /\ c.read = service[s] /\ c.loaded = <<>>
        /\ c.next = "ignored"
    BY DEF Loaded, NoCall
  <2>3. Begin(u, c)
    BY <1>4 DEF OpenIgnore
  <2> HIDE DEF c
  <2>4. QED BY <2>1, <2>2, <2>3, OpenedDecisions
<1>5. ASSUME NEW s \in Services, NEW p \in Passwords, OpenConnect(u, s, p) PROVE Inv'
  <2>1. CASE s \in Connectable
    <3> DEFINE c == [Loaded(s) EXCEPT !.pc = "bind", !.entered = p]
    <3>1. c \in Call
      BY NoCallIsCall DEF Loaded, Call, Inv, TypeOK
    <3>2. /\ c.pc = "bind" /\ c.on = {s} /\ c.read = service[s] /\ c.loaded = <<>>
          /\ c.next = "absent"
      BY DEF Loaded, NoCall
    <3>3. Begin(u, c)
      BY <1>5, <2>1 DEF OpenConnect
    <3> HIDE DEF c
    <3>4. QED BY <3>1, <3>2, <3>3, OpenedDecisions
  <2>2. CASE s \notin Connectable
    <3> DEFINE c == [Loaded(s) EXCEPT !.next = "needs_credentials"]
    <3>1. c \in Call
      BY NoCallIsCall DEF Loaded, Call, Statuses, Inv, TypeOK
    <3>2. /\ c.pc = "decide" /\ c.on = {s} /\ c.read = service[s] /\ c.loaded = <<>>
          /\ c.next = "needs_credentials"
      BY DEF Loaded, NoCall
    <3>3. Begin(u, c)
      BY <1>5, <2>2 DEF OpenConnect
    <3> HIDE DEF c
    <3>4. QED BY <3>1, <3>2, <3>3, OpenedDecisions
  <2>3. QED BY <2>1, <2>2
<1>6. QED BY <1>1, <1>2, <1>3, <1>4, <1>5 DEF Opens

\* A verdict on a connection is about the password that was loaded with it.
LEMMA VerifySteps ==
    ASSUME Inv, NEW u \in Admins, NEW k \in DOMAIN connection, Verify(u, k)
    PROVE  Inv' /\ UNCHANGED service
<1> USE DEF Inv, CallsInv
<1> DEFINE row == call[u].loaded[k]
           verdict == Works(row.service, row.stored)
           seen == [row EXCEPT !.works = verdict, !.tried = row.stored]
           loaded == [call[u].loaded EXCEPT ![k] = seen]
<1>0. PICK reworded \in BOOLEAN :
         call' = [call EXCEPT ![u] =
                    [call[u] EXCEPT
                       !.todo = call[u].todo \ {k},
                       !.tried = IF verdict = row.works /\ (verdict \/ ~reworded)
                                 THEN call[u].tried ELSE call[u].tried \cup {k},
                       !.loaded = loaded]]
  BY DEF Verify
<1> DEFINE tried == IF verdict = row.works /\ (verdict \/ ~reworded)
                    THEN call[u].tried ELSE call[u].tried \cup {k}
           c == [call[u] EXCEPT !.todo = call[u].todo \ {k}, !.tried = tried,
                                !.loaded = loaded]
<1>1. /\ call[u].pc = "verify" /\ k \in call[u].todo
      /\ call' = [call EXCEPT ![u] = c]
      /\ UNCHANGED <<network, password, recorded, report, raced>>
  BY <1>0 DEF Verify
<1>2. /\ call[u] \in Call /\ k \in DOMAIN call[u].loaded
      /\ row.service = connection[k].service
  BY <1>1 DEF TypeOK, VerifyingInv, LoadedInv
<1>3. row \in Connection /\ call[u].loaded \in Seq(Connection)
  BY <1>2 DEF Call
<1>4. seen \in Connection /\ seen.service = row.service /\ seen.stored = row.stored
      /\ seen.tried = row.stored
  BY <1>3 DEF Connection, Works, LdapBind, DnsProbe
<1> HIDE DEF seen
<1>5. loaded \in Seq(Connection) /\ DOMAIN loaded = DOMAIN call[u].loaded
  BY <1>2, <1>3, <1>4
<1>6. loaded[k] = seen /\ \A j \in DOMAIN loaded \ {k} : loaded[j] = call[u].loaded[j]
  BY <1>2, <1>5
<1>7. tried \in SUBSET Nat /\ tried \subseteq call[u].todo \cup call[u].tried
  BY <1>1, <1>2 DEF Call
<1> HIDE DEF loaded, tried
<1>8. c \in Call
  BY <1>2, <1>5, <1>7 DEF Call
<1>9. /\ c.pc = "verify" /\ c.on = call[u].on /\ c.loaded = loaded
      /\ c.todo = call[u].todo \ {k} /\ c.tried = tried
  BY <1>1, <1>2 DEF Call
<1> HIDE DEF c
<1>10. \A s \in c.on \ raced' : \A v \in Admins \ {u} : s \notin call[v].on
  BY <1>1, <1>2, <1>9 DEF SoloInv, Call
<1>11. \A j \in DOMAIN c.loaded :
          j \in DOMAIN connection /\ c.loaded[j].service = connection[j].service
  BY <1>2, <1>4, <1>5, <1>6, <1>9 DEF LoadedInv
<1>12. \A j \in c.todo \cup c.tried :
          j \in DOMAIN c.loaded /\ c.loaded[j].service \in c.on
  BY <1>1, <1>4, <1>5, <1>6, <1>7, <1>9 DEF VerifyingInv
<1>13. \A s \in c.on \ raced' : \A j \in DOMAIN connection :
          connection[j].service = s =>
             /\ j \in DOMAIN c.loaded
             /\ c.loaded[j].stored = connection[j].stored
             /\ c.loaded[j].tried = connection[j].stored
  <2> SUFFICES ASSUME NEW s \in c.on \ raced', NEW j \in DOMAIN connection,
                      connection[j].service = s
               PROVE  /\ j \in DOMAIN c.loaded
                      /\ c.loaded[j].stored = connection[j].stored
                      /\ c.loaded[j].tried = connection[j].stored
    OBVIOUS
  <2>1. s \in Services \ raced /\ s \in call[u].on
    BY <1>1, <1>2, <1>9 DEF Call
  <2>2. /\ j \in DOMAIN call[u].loaded
        /\ call[u].loaded[j].stored = connection[j].stored
        /\ call[u].loaded[j].tried = connection[j].stored
    BY <1>1, <2>1 DEF SoloInv
  <2>3. QED BY <1>4, <1>5, <1>6, <1>9, <2>2
<1>14. raced' \subseteq Services /\ raced \subseteq raced'
  BY <1>1 DEF TypeOK
<1>15. c.pc \notin {"idle", "bind", "decide"}
  BY <1>9
<1>16. \A s \in c.on \ raced' : \A j \in DOMAIN connection :
          connection[j].service = s =>
             /\ c.pc = "decide" /\ c.next = "connected" =>
                   j = c.row /\ c.loaded[j] = connection[j]
             /\ c.pc = "verify" =>
                   /\ j \in DOMAIN c.loaded
                   /\ c.loaded[j].stored = connection[j].stored
                   /\ c.loaded[j].tried = connection[j].stored
  BY <1>13, <1>15
<1>17. Inv'
  BY <1>1, <1>8, <1>10, <1>11, <1>12, <1>14, <1>15, <1>16, CallSteps
<1>18. QED BY <1>1, <1>17 DEF recorded

\* A bind that succeeds is the directory's word on the entered password.
LEMMA BindSteps ==
    ASSUME Inv, NEW u \in Admins, Bind(u)
    PROVE  Inv' /\ UNCHANGED service
<1> USE DEF Inv, CallsInv
<1>1. /\ call[u].pc = "bind" /\ UNCHANGED <<network, password, recorded, report, raced>>
      /\ call[u] \in Call
      /\ raced' \subseteq Services /\ raced \subseteq raced'
  BY DEF Bind, TypeOK
<1>2. PICK s \in call[u].on :
         call' = [call EXCEPT ![u] =
                     IF ~Works(s, call[u].entered)
                     THEN [call[u] EXCEPT !.pc = "decide", !.next = "error"]
                     ELSE IF Cardinality(Existing(s)) > 1 THEN NoCall
                     ELSE [call[u] EXCEPT !.pc = "decide", !.next = "connected",
                                          !.row = IF Existing(s) = {} THEN 0
                                                  ELSE CHOOSE k \in Existing(s) : TRUE,
                                          !.loaded = connection]]
  BY DEF Bind
<1>3. s \in Services /\ \A t \in call[u].on : t = s
  BY <1>1 DEF OnInv, Call
<1>4. \A t \in call[u].on \ raced : \A v \in Admins \ {u} : t \notin call[v].on
  BY <1>1 DEF SoloInv, Call
<1>5. call[u].read.ref # 0 => service[s].ref # 0
  BY <1>1 DEF LoadedInv
<1>6. CASE ~Works(s, call[u].entered)
  <2> DEFINE c == [call[u] EXCEPT !.pc = "decide", !.next = "error"]
  <2>1. call' = [call EXCEPT ![u] = c]
    BY <1>2, <1>6
  <2>2. c \in Call /\ c.pc = "decide" /\ c.next = "error" /\ c.on = call[u].on
        /\ c.read = call[u].read /\ c.loaded = call[u].loaded
    BY <1>1 DEF Call, Statuses
  <2> HIDE DEF c
  <2>3. \A k \in DOMAIN c.loaded :
           k \in DOMAIN connection /\ c.loaded[k].service = connection[k].service
    BY <2>2 DEF LoadedInv
  <2>4. Inv'
    BY <1>1, <1>3, <1>4, <1>5, <2>1, <2>2, <2>3, CallSteps
  <2>5. QED BY <1>1, <2>4 DEF recorded
<1>7. CASE Works(s, call[u].entered) /\ Cardinality(Existing(s)) > 1
  <2>1. call' = [call EXCEPT ![u] = NoCall]
    BY <1>2, <1>7
  <2>2. NoCall.pc = "idle" /\ NoCall.on = {} /\ DOMAIN NoCall.loaded = {}
    BY DEF NoCall
  <2>3. Inv'
    BY <1>1, <2>1, <2>2, NoCallIsCall, CallSteps
  <2>4. QED BY <1>1, <2>3 DEF recorded
<1>8. CASE Works(s, call[u].entered) /\ ~(Cardinality(Existing(s)) > 1)
  <2> DEFINE row == IF Existing(s) = {} THEN 0 ELSE CHOOSE k \in Existing(s) : TRUE
             c == [call[u] EXCEPT !.pc = "decide", !.next = "connected", !.row = row,
                                  !.loaded = connection]
  <2>1. call' = [call EXCEPT ![u] = c]
    BY <1>2, <1>8
  <2>2. row \in Nat /\ (row = 0 <=> Existing(s) = {}) /\ (row # 0 => row \in Existing(s))
    <3>1. \A k \in Existing(s) : k \in Nat /\ k # 0
      BY DEF Existing, ConnectionsOf, TypeOK
    <3>2. QED BY <3>1
  <2> HIDE DEF row
  <2>3. c \in Call /\ c.pc = "decide" /\ c.next = "connected" /\ c.on = call[u].on
        /\ c.read = call[u].read /\ c.loaded = connection /\ c.row = row
        /\ c.entered = call[u].entered
    BY <1>1, <2>2 DEF Call, Statuses, TypeOK
  <2> HIDE DEF c
  <2>4. s \in Directories => call[u].entered <= password[s]
    BY <1>3, <1>8, PasswordsCompare, ServicesAreKnown DEF Works, LdapBind, DnsProbe
  <2>5. row # 0 => row \in DOMAIN connection /\ connection[row].service = s
    BY <2>2 DEF Existing, ConnectionsOf
  <2>6. s \notin raced => \A k \in DOMAIN connection : connection[k].service = s => k = row
    <3> SUFFICES ASSUME s \notin raced, NEW k \in DOMAIN connection,
                        connection[k].service = s
                 PROVE  k = row
      OBVIOUS
    <3>1. k \in Existing(s)
      BY DEF Existing, ConnectionsOf
    <3>2. QED BY <1>3, <2>2, <2>5, <3>1 DEF SoloInv
  <2>7. Inv'
    BY <1>1, <1>3, <1>4, <1>5, <2>1, <2>3, <2>4, <2>5, <2>6, CallSteps
  <2>8. QED BY <1>1, <2>7 DEF recorded
<1>9. QED BY <1>6, <1>7, <1>8

\* What a commit may do to the stored connections: add one, or change those of one
\* call's services, neither deleting one nor giving it to another service.
LEMMA CommitSteps ==
    ASSUME Inv, NEW u \in Admins, call' = [call EXCEPT ![u] = NoCall],
           UNCHANGED <<network, password, report, raced>>,
           service' \in [Services -> Row], connection' \in Seq(Connection), RefsInv',
           \A s \in Services : service[s].ref # 0 => service'[s].ref # 0,
           DOMAIN connection \subseteq DOMAIN connection',
           \A k \in DOMAIN connection : connection'[k].service = connection[k].service,
           \A k \in DOMAIN connection :
              connection[k].service \notin call[u].on => connection'[k] = connection[k],
           \A k \in DOMAIN connection' \ DOMAIN connection :
              connection'[k].service \in call[u].on,
           \A k \in DOMAIN connection' :
              connection'[k].service \in Directories =>
                 connection'[k].stored <= password[connection'[k].service],
           \A s \in call[u].on \ raced : \A j, k \in DOMAIN connection' :
              /\ connection'[j].service = s
              /\ connection'[k].service = s
              => j = k /\ connection'[k].tried = connection'[k].stored
    PROVE  Inv'
<1> USE DEF Inv, CallsInv
<1>1. call'[u] = NoCall /\ \A v \in Admins \ {u} : call'[v] = call[v]
  BY DEF TypeOK
<1>2. NoCall.pc = "idle" /\ NoCall.on = {} /\ DOMAIN NoCall.loaded = {}
  BY DEF NoCall
<1>3. TypeOK'
  <2>1. call' \in [Admins -> Call]
    BY NoCallIsCall DEF TypeOK
  <2>2. QED BY <2>1 DEF TypeOK
<1>4. StoredInv'
  BY DEF StoredInv
<1>5. OnInv'
  BY <1>1, <1>2 DEF OnInv
<1>6. LoadedInv'
  <2>1. \A v \in Admins : call[v].on \subseteq Services
    BY DEF TypeOK, Call
  <2>2. QED BY <1>1, <1>2, <2>1 DEF LoadedInv
<1>7. BoundInv'
  BY <1>1, <1>2 DEF BoundInv
<1>8. VerifyingInv'
  BY <1>1, <1>2 DEF VerifyingInv
<1>9. SoloInv'
  <2>1. ASSUME NEW s \in Services \ raced, NEW v \in Admins, NEW w \in Admins,
               s \in call'[v].on, s \in call'[w].on
        PROVE  v = w
    BY <1>1, <1>2, <2>1 DEF SoloInv
  <2>2. ASSUME NEW s \in Services \ raced, NEW k \in DOMAIN connection',
               connection'[k].service = s, s \notin call[u].on
        PROVE  k \in DOMAIN connection /\ connection'[k] = connection[k]
    BY <2>2
  <2>3. ASSUME NEW s \in Services \ raced, NEW j \in DOMAIN connection',
               NEW k \in DOMAIN connection',
               connection'[j].service = s, connection'[k].service = s
        PROVE  j = k /\ connection'[k].tried = connection'[k].stored
    BY <2>2, <2>3 DEF SoloInv
  <2>4. ASSUME NEW s \in Services \ raced, NEW v \in Admins, s \in call'[v].on,
               NEW k \in DOMAIN connection', connection'[k].service = s
        PROVE  /\ call'[v].pc = "decide" /\ call'[v].next = "connected" =>
                     k = call'[v].row /\ call'[v].loaded[k] = connection'[k]
               /\ call'[v].pc = "verify" =>
                     /\ k \in DOMAIN call'[v].loaded
                     /\ call'[v].loaded[k].stored = connection'[k].stored
                     /\ call'[v].loaded[k].tried = connection'[k].stored
    <3>1. v # u /\ call'[v] = call[v]
      BY <1>1, <1>2, <2>4
    <3>2. s \notin call[u].on
      BY <2>4, <3>1 DEF SoloInv
    <3>3. k \in DOMAIN connection /\ connection'[k] = connection[k]
      BY <2>2, <2>4, <3>2
    <3>4. QED BY <2>4, <3>1, <3>3 DEF SoloInv
  <2>5. QED BY <2>1, <2>3, <2>4 DEF SoloInv
<1>10. QED BY <1>3, <1>4, <1>5, <1>6, <1>7, <1>8, <1>9

LEMMA CommitVerdictsSteps ==
    ASSUME Inv, NEW u \in Admins, CommitVerdicts(u)
    PROVE  Inv' /\ UNCHANGED service
<1> USE DEF Inv, CallsInv
<1>1. /\ call[u].pc = "verify" /\ UNCHANGED <<network, password, service, report, raced>>
      /\ call' = [call EXCEPT ![u] = NoCall] /\ call[u] \in Call
  BY DEF CommitVerdicts, TypeOK
<1>2. \A k \in DOMAIN connection : connection[k] \in Connection
  BY DEF TypeOK
<1>3. \A k \in DOMAIN call[u].loaded : call[u].loaded[k] \in Connection
  BY <1>1 DEF Call
<1>4. \A k \in call[u].tried :
         /\ k \in DOMAIN call[u].loaded /\ call[u].loaded[k].service \in call[u].on
         /\ k \in DOMAIN connection /\ call[u].loaded[k].service = connection[k].service
  BY <1>1 DEF VerifyingInv, LoadedInv
<1> DEFINE new(k) == IF k \in call[u].tried
                     THEN [connection[k] EXCEPT !.works = call[u].loaded[k].works,
                                                !.tried = call[u].loaded[k].tried]
                     ELSE connection[k]
<1>5. connection' = [k \in DOMAIN connection |-> new(k)]
  BY DEF CommitVerdicts
<1>6. \A k \in DOMAIN connection :
         /\ new(k) \in Connection
         /\ new(k).service = connection[k].service /\ new(k).stored = connection[k].stored
         /\ new(k).tried = IF k \in call[u].tried THEN call[u].loaded[k].tried
                           ELSE connection[k].tried
         /\ k \notin call[u].tried => new(k) = connection[k]
  BY <1>2, <1>3, <1>4 DEF Connection
<1> HIDE DEF new
<1>7. connection' \in Seq(Connection) /\ DOMAIN connection' = DOMAIN connection
  <2>1. DOMAIN connection = 1 .. Len(connection) /\ Len(connection) \in Nat
    BY DEF TypeOK
  <2>2. QED BY <1>5, <1>6, <2>1
<1>8. \A k \in DOMAIN connection : connection'[k] = new(k)
  BY <1>5
<1>9. RefsInv'
  BY <1>1, <1>6, <1>7, <1>8 DEF RefsInv
<1>10. \A k \in DOMAIN connection :
          connection[k].service \notin call[u].on => connection'[k] = connection[k]
  BY <1>4, <1>6, <1>8
<1>11. \A k \in DOMAIN connection' :
          connection'[k].service \in Directories =>
             connection'[k].stored <= password[connection'[k].service]
  BY <1>6, <1>7, <1>8 DEF StoredInv
<1>12. ASSUME NEW s \in call[u].on \ raced,
              NEW j \in DOMAIN connection', NEW k \in DOMAIN connection',
              connection'[j].service = s, connection'[k].service = s
       PROVE  j = k /\ connection'[k].tried = connection'[k].stored
  <2>1. s \in Services \ raced
    BY <1>1 DEF Call
  <2>2. /\ j \in DOMAIN connection /\ connection[j].service = s
        /\ k \in DOMAIN connection /\ connection[k].service = s
    BY <1>6, <1>7, <1>8, <1>12
  <2>3. j = k /\ connection[k].tried = connection[k].stored
    BY <2>1, <2>2 DEF SoloInv
  <2>4. call[u].loaded[k].tried = connection[k].stored
    BY <1>1, <2>1, <2>2 DEF SoloInv
  <2>5. QED BY <1>6, <1>8, <2>2, <2>3, <2>4
<1>13. Inv'
  <2>1. service' \in [Services -> Row] /\ \A s \in Services : service'[s].ref = service[s].ref
    BY <1>1 DEF TypeOK
  <2>2. \A k \in DOMAIN connection : connection'[k].service = connection[k].service
    BY <1>6, <1>8
  <2>3. \A s \in call[u].on \ raced : \A j, k \in DOMAIN connection' :
           /\ connection'[j].service = s
           /\ connection'[k].service = s
           => j = k /\ connection'[k].tried = connection'[k].stored
    BY <1>12
  <2>4. QED BY <1>1, <1>7, <1>9, <1>10, <1>11, <2>1, <2>2, <2>3, CommitSteps
<1>14. QED BY <1>1, <1>13

LEMMA DecideSteps ==
    ASSUME Inv, NEW u \in Admins, Decide(u)
    PROVE  /\ Inv' /\ call[u].pc = "decide" /\ call'[u] = NoCall
           /\ \A s \in Services \ call[u].on : service'[s] = service[s]
<1> USE DEF Inv, CallsInv
<1> DEFINE c == call[u]
           at == IF c.row = 0 THEN Len(connection) + 1 ELSE c.row
<1>1. /\ c.pc = "decide" /\ UNCHANGED <<network, password, report, raced>>
      /\ call' = [call EXCEPT ![u] = NoCall] /\ c \in Call /\ call'[u] = NoCall
  BY DEF Decide, TypeOK
<1>2. PICK s \in c.on :
         /\ service' = [service EXCEPT
                ![s].status = Assign(@, c.read.status, c.next),
                ![s].ref = IF c.next = "connected" THEN Assign(@, c.read.ref, at) ELSE @]
         /\ connection' =
                IF c.next # "connected" THEN connection
                ELSE IF c.row = 0 THEN Append(connection, Inserted(s, c.entered))
                ELSE [connection EXCEPT ![at] = Updated(@, c.loaded[at], c.entered)]
  BY DEF Decide
<1>3. s \in Services /\ c.on = {s}
  BY <1>1 DEF OnInv, Call
<1>4. /\ service'[s].status = Assign(service[s].status, c.read.status, c.next)
      /\ service'[s].ref = IF c.next = "connected"
                           THEN Assign(service[s].ref, c.read.ref, at) ELSE service[s].ref
      /\ \A t \in Services \ {s} : service'[t] = service[t]
  BY <1>2, <1>3 DEF TypeOK, Row
<1>5. service' \in [Services -> Row]
  <2>1. at \in Nat
    BY <1>1 DEF TypeOK, Call
  <2>2. service[s] \in Row /\ c.next \in Statuses
    BY <1>1, <1>3 DEF TypeOK, Call
  <2>3. QED BY <1>2, <1>3, <2>1, <2>2 DEF TypeOK, Row, Assign
<1>6. c.row # 0 /\ c.next = "connected" =>
         /\ c.row \in DOMAIN connection /\ connection[c.row].service = s
         /\ c.row \in DOMAIN c.loaded /\ c.loaded[c.row].service = s
  BY <1>1, <1>3 DEF BoundInv, LoadedInv
<1>7. s \in Directories /\ c.next = "connected" => c.entered <= password[s]
  BY <1>1, <1>3 DEF BoundInv
<1> DEFINE new == IF c.row = 0 THEN Inserted(s, c.entered)
                  ELSE Updated(connection[at], c.loaded[at], c.entered)
<1>8. c.next = "connected" =>
         /\ new \in Connection /\ new.service = s
         /\ s \in Directories => new.stored = c.entered
         /\ c.row = 0 => new.tried = new.stored
         /\ c.row # 0 /\ c.loaded[at] = connection[at]
               /\ connection[at].tried = connection[at].stored => new.tried = new.stored
  <2>1. c.entered \in Passwords
    BY <1>1 DEF Call
  <2>2. CASE c.next = "connected" /\ c.row = 0
    BY <1>3, <2>1, <2>2 DEF Inserted, Connection
  <2>3. CASE c.next = "connected" /\ c.row # 0
    <3>1. connection[at] \in Connection /\ connection[at].service = s
          /\ c.loaded[at] \in Connection
      BY <1>1, <1>6, <2>3 DEF TypeOK, Call
    <3>2. new = Updated(connection[at], c.loaded[at], c.entered)
      BY <2>3
    <3>3. CASE s \in Directories
      BY <2>1, <2>3, <3>1, <3>2, <3>3 DEF Updated, Assign, Connection
    <3>4. CASE s \notin Directories
      BY <2>1, <2>3, <3>1, <3>2, <3>4 DEF Updated, Assign, Connection
    <3>5. QED BY <3>3, <3>4
  <2>4. QED BY <2>2, <2>3
<1> HIDE DEF new
<1>9. c.next # "connected" => connection' = connection
  BY <1>2
<1>10. c.next = "connected" =>
          /\ at \in DOMAIN connection' /\ at # 0 /\ connection'[at] = new
          /\ connection' \in Seq(Connection)
          /\ DOMAIN connection' = DOMAIN connection \cup {at}
          /\ \A k \in DOMAIN connection \ {at} : connection'[k] = connection[k]
          /\ c.row = 0 => at \notin DOMAIN connection
  <2>1. CASE c.next = "connected" /\ c.row = 0
    <3>1. connection' = Append(connection, new)
      BY <1>2, <2>1 DEF new
    <3>2. /\ connection \in Seq(Connection) /\ new \in Connection
          /\ at = Len(connection) + 1
      BY <1>8, <2>1 DEF TypeOK
    <3> HIDE DEF at
    <3>3. /\ connection' \in Seq(Connection) /\ connection'[at] = new /\ at # 0
          /\ \A k \in DOMAIN connection : connection'[k] = connection[k]
          /\ DOMAIN connection' = DOMAIN connection \cup {at}
          /\ at \notin DOMAIN connection
      BY <3>1, <3>2
    <3>4. QED BY <3>3
  <2>2. CASE c.next = "connected" /\ c.row # 0
    <3>1. connection' = [connection EXCEPT ![at] = new]
      BY <1>2, <2>2 DEF new
    <3>2. /\ connection \in Seq(Connection) /\ new \in Connection /\ at = c.row
          /\ at \in DOMAIN connection
      BY <1>6, <1>8, <2>2 DEF TypeOK
    <3> HIDE DEF at
    <3>3. /\ connection' \in Seq(Connection) /\ connection'[at] = new /\ at # 0
          /\ DOMAIN connection' = DOMAIN connection
          /\ \A k \in DOMAIN connection \ {at} : connection'[k] = connection[k]
      BY <2>2, <3>1, <3>2
    <3>4. QED BY <2>2, <3>2, <3>3
  <2>3. QED BY <2>1, <2>2
<1> HIDE DEF at
<1>11. connection' \in Seq(Connection) /\ DOMAIN connection \subseteq DOMAIN connection'
  BY <1>9, <1>10 DEF TypeOK
<1>12. \A k \in DOMAIN connection : connection'[k].service = connection[k].service
  BY <1>6, <1>8, <1>9, <1>10 DEF at
<1>13. RefsInv'
  <2>1. c.next = "connected" /\ c.read.ref # 0 => service[s].ref # 0
    BY <1>1 DEF LoadedInv
  <2>2. c.next = "connected" => connection'[at].service = s
    BY <1>8, <1>10
  <2>3. /\ service'[s].ref # 0 => /\ service'[s].ref \in DOMAIN connection'
                                  /\ connection'[service'[s].ref].service = s
        /\ service'[s].status = "connected" => service'[s].ref # 0
    <3>1. CASE c.next # "connected"
      BY <1>3, <1>4, <1>9, <3>1 DEF RefsInv, Assign
    <3>2. CASE c.next = "connected"
      BY <1>3, <1>4, <1>10, <1>11, <1>12, <2>1, <2>2, <3>2 DEF RefsInv, Assign
    <3>3. QED BY <3>1, <3>2
  <2>4. \A t \in Services \ {s} :
           /\ service'[t].ref # 0 => /\ service'[t].ref \in DOMAIN connection'
                                     /\ connection'[service'[t].ref].service = t
           /\ service'[t].status = "connected" => service'[t].ref # 0
    BY <1>4, <1>11, <1>12 DEF RefsInv
  <2>5. QED BY <2>3, <2>4 DEF RefsInv
<1>14. \A t \in Services : service[t].ref # 0 => service'[t].ref # 0
  BY <1>4, <1>10 DEF Assign
<1>15. \A k \in DOMAIN connection :
          connection[k].service \notin c.on => connection'[k] = connection[k]
  BY <1>3, <1>6, <1>9, <1>10 DEF at
<1>16. \A k \in DOMAIN connection' \ DOMAIN connection : connection'[k].service \in c.on
  BY <1>3, <1>8, <1>9, <1>10
<1>17. \A k \in DOMAIN connection' :
          connection'[k].service \in Directories =>
             connection'[k].stored <= password[connection'[k].service]
  BY <1>7, <1>8, <1>9, <1>10 DEF StoredInv
<1>18. ASSUME NEW t \in c.on \ raced,
              NEW j \in DOMAIN connection', NEW k \in DOMAIN connection',
              connection'[j].service = t, connection'[k].service = t
       PROVE  j = k /\ connection'[k].tried = connection'[k].stored
  <2>1. t = s /\ s \in Services \ raced
    BY <1>3
  <2>2. CASE c.next # "connected"
    BY <1>9, <1>18, <2>1, <2>2 DEF SoloInv
  <2>3. CASE c.next = "connected"
    <3>1. \A i \in DOMAIN connection : connection[i].service = s =>
             i = c.row /\ c.loaded[i] = connection[i]
                       /\ connection[i].tried = connection[i].stored
      BY <1>1, <1>3, <2>1, <2>3 DEF SoloInv
    <3>2. \A i \in DOMAIN connection' : connection'[i].service = s => i = at
      <4>1. \A i \in DOMAIN connection : i # 0
        BY DEF TypeOK
      <4>2. QED BY <1>10, <1>12, <2>3, <3>1, <4>1 DEF at
    <3>3. c.row # 0 => at = c.row /\ c.loaded[at] = connection[at]
                       /\ connection[at].tried = connection[at].stored
      BY <1>6, <2>3, <3>1 DEF at
    <3>4. new.tried = new.stored
      BY <1>8, <2>3, <3>3
    <3>5. QED BY <1>10, <1>18, <2>1, <2>3, <3>2, <3>4
  <2>4. QED BY <2>2, <2>3
<1>19. Inv'
  <2>1. \A t \in c.on \ raced : \A j, k \in DOMAIN connection' :
           /\ connection'[j].service = t
           /\ connection'[k].service = t
           => j = k /\ connection'[k].tried = connection'[k].stored
    BY <1>18
  <2>2. QED BY <1>1, <1>5, <1>11, <1>12, <1>13, <1>14, <1>15, <1>16, <1>17, <2>1, CommitSteps
<1>20. QED BY <1>1, <1>3, <1>4, <1>19

-----------------------------------------------------------------------------
(* The theorems                                                            *)

LEMMA Steps ==
    ASSUME Inv, [Next]_vars
    PROVE  /\ Inv'
           /\ \A s \in Services : service[s] # Absent /\ service'[s] # service[s] =>
                 \E u \in Admins : /\ call[u].pc = "decide" /\ s \in call[u].on
                                   /\ call'[u] = NoCall
<1>1. CASE UNCHANGED vars
  <2>1. UNCHANGED <<network, password, service, connection, report, call, raced>>
    BY <1>1 DEF vars, recorded
  <2>2. TypeOK'
    BY <2>1 DEF Inv, TypeOK
  <2>3. \A s \in Services : password[s] <= password'[s]
    BY <2>1, PasswordsCompare DEF Inv
  <2>4. QED BY <2>1, <2>2, <2>3, ReportsLeaveTheRest
<1>2. ASSUME NEW s \in Services, Join(s) \/ ChangePassword(s)
      PROVE  Inv' /\ UNCHANGED service
  BY <1>2, NetworkSteps
<1>3. ASSUME NEW a \in Agents, AgentStep(a) \/ Lose(a) \/ FailReport(a)
                               \/ \E s \in Services : LookUp(a, s)
      PROVE  Inv' /\ UNCHANGED service
  BY <1>3, ReportSteps
<1>4. ASSUME NEW a \in Agents, CommitReport(a)
      PROVE  Inv' /\ \A s \in Services : service[s] # Absent => service'[s] = service[s]
  BY <1>4, CommitReportSteps
<1>5. ASSUME NEW u \in Admins, Opens(u) \/ Bind(u) \/ CommitVerdicts(u)
      PROVE  Inv' /\ UNCHANGED service
  BY <1>5, OpensSteps, BindSteps, CommitVerdictsSteps
<1>6. ASSUME NEW u \in Admins, NEW k \in DOMAIN connection, Verify(u, k)
      PROVE  Inv' /\ UNCHANGED service
  BY <1>6, VerifySteps
<1>7. ASSUME NEW u \in Admins, Decide(u)
      PROVE  /\ Inv' /\ call[u].pc = "decide" /\ call'[u] = NoCall
             /\ \A s \in Services \ call[u].on : service'[s] = service[s]
  BY <1>7, DecideSteps
<1>8. CASE Next
  BY <1>2, <1>3, <1>4, <1>5, <1>6, <1>7, <1>8 DEF Next, ReportStep, AdminStep
<1>9. QED BY <1>1, <1>8

THEOREM InductiveInvariant == Spec => []Inv
<1>1. Inv /\ [Next]_vars => Inv'
  BY Steps
<1>2. QED BY InitHolds, <1>1, PTL DEF Spec

\* A service shown as connected has a stored connection of its own, and a
\* directory's stored password is one it accepted: connect_service stores what it
\* has bound with, and reports and verifications do not undo it.
THEOREM ConnectedServicesWereBound == Spec => []DiscoveryInv
<1>1. Inv => DiscoveryInv
  <2> SUFFICES ASSUME Inv PROVE DiscoveryInv
    OBVIOUS
  <2>1. \A s \in Services :
           service[s].status = "connected" => service[s].ref \in ConnectionsOf(s)
    BY DEF Inv, RefsInv, ConnectionsOf
  <2>2. QED BY <2>1 DEF Inv, StoredInv, DiscoveryInv, ConnectedWasBound
<1>2. QED BY <1>1, InductiveInvariant, PTL

\* Calls about a service that do not overlap leave one connection of it, and a
\* verdict about the password that is stored.
THEOREM SoloCallsLeaveOneConnection == Spec => []OneConnection
<1>1. Inv => OneConnection
  <2> SUFFICES ASSUME Inv, NEW s \in Services \ raced
               PROVE  /\ Cardinality(ConnectionsOf(s)) <= 1
                      /\ \A k \in ConnectionsOf(s) : connection[k].tried = connection[k].stored
    BY DEF OneConnection
  <2>1. \A j, k \in ConnectionsOf(s) : j = k
    BY DEF Inv, SoloInv, ConnectionsOf
  <2>2. ConnectionsOf(s) = {} => Cardinality(ConnectionsOf(s)) <= 1
    BY FS_EmptySet
  <2>3. ConnectionsOf(s) # {} => Cardinality(ConnectionsOf(s)) <= 1
    <3>1. ASSUME NEW k \in ConnectionsOf(s) PROVE Cardinality(ConnectionsOf(s)) <= 1
      <4>1. ConnectionsOf(s) = {k}
        BY <2>1
      <4>2. Cardinality(ConnectionsOf(s)) = 1
        BY <4>1, FS_Singleton
      <4>3. QED BY <4>2
    <3>2. QED BY <3>1
  <2>4. \A k \in ConnectionsOf(s) : connection[k].tried = connection[k].stored
    BY DEF Inv, SoloInv, ConnectionsOf
  <2>5. QED BY <2>2, <2>3, <2>4
<1>2. QED BY <1>1, InductiveInvariant, PTL

\* A report or a verification, however it is interleaved with calls, never changes
\* the status or the connection of a service that was known before it committed.
THEOREM ReportsLetDecisionsStand == Spec => DecisionsStand
<1>1. Inv /\ [Next]_vars =>
         [\A s \in Services :
             service[s] # Absent /\ service'[s] # service[s] =>
                \E u \in Admins : /\ call[u].pc = "decide" /\ s \in call[u].on
                                  /\ call'[u] = NoCall]_vars
  BY Steps
<1>2. QED BY <1>1, InductiveInvariant, PTL DEF Spec, DecisionsStand

=============================================================================
