------------------------------- MODULE Discovery -------------------------------
(***************************************************************************)
(* Network discovery: the agents' sweeps, the reports that record what     *)
(* they found, the administrators who connect or ignore it with            *)
(* credentials, and the verification of the stored connections.            *)
(***************************************************************************)
EXTENDS Naturals, Sequences, FiniteSets

CONSTANTS
    Agents,        \* endpoint agents of one organisation
    Services,      \* (service_type, host) pairs
    Via,           \* the method each is discovered by
    Privileged,    \* agents that hold CAP_NET_RAW
    Directories,   \* services of the types connect_ldap handles
    Resolvers,     \* services of the type connect_dns handles
    Nameservers,   \* the nameserver lines of each agent's resolv.conf
    Routes,        \* the gateways of its default routes, in the table's order
    Unusable,      \* entries that name no server: loopback and unspecified addresses
    Admins,        \* concurrent calls of administrators
    MaxPasswords, MaxCalls, MaxLosses   \* bounds

Methods == {"dns_srv", "resolv_conf", "routing_table", "mdns", "llmnr", "arp_scan",
            "passive_dhcp"}

ASSUME ServicesAreKnown ==
    /\ Via \in [Services -> Methods]
    /\ Directories \subseteq Services /\ Resolvers \subseteq Services
    /\ Directories \cap Resolvers = {}
    /\ Privileged \subseteq Agents
    /\ Unusable \cap Services = {}
    /\ Nameservers \in [Agents -> SUBSET (Services \cup Unusable)]
    /\ Routes \in [Agents -> Seq(Services \cup Unusable)]
    /\ MaxPasswords \in Nat \ {0}

VARIABLES
    network,       \* the services that are there
    password,      \* the one a directory accepts now
    service,       \* discovered_services
    connection,    \* service_connections
    report,        \* the sweep of each agent and the report it posts
    call,          \* the calls of administrators, and the scheduled verification
    raced,         \* history: services that two calls were open for at once
    calls, losses  \* what the bounds count

recorded == <<service, connection>>
vars == <<network, password, recorded, report, call, raced, calls, losses>>

-----------------------------------------------------------------------------
Statuses == {"absent", "discovered", "needs_credentials", "connected", "ignored", "error"}

\* The password of a directory only ever changes to the next one.
Passwords == 1 .. MaxPasswords

\* `ref`: connected_ref_id, a position in `connection`, 0 for none.
Row == [status : Statuses, ref : Nat]
Absent == [status |-> "absent", ref |-> 0]

\* `tried`: the password that `works`, the last verdict (last_error), is about.
Connection == [service : Services, stored : Passwords, tried : Passwords, works : BOOLEAN]

\* `todo`: services of the batch still to look up; `dirty`: the write that the next
\* query or the commit flushes; `held`: flushed ones, whose rows it locks.
Write == [service : Services, insert : BOOLEAN]
Report == [pc : {"idle", "posting", "open"}, todo : SUBSET Services,
           dirty : SUBSET Write, held : SUBSET Write]
NoReport == [pc |-> "idle", todo |-> {}, dirty |-> {}, held |-> {}]

\* `on`: the services it is about; `read`: the row it loaded; `next`: the status to
\* write; `row`: the connection to update, 0 to insert one; `todo`: connections a
\* verification loaded and has not tried, `tried`: those it has.
Call == [pc : {"idle", "bind", "decide", "verify"}, on : SUBSET Services, read : Row,
         next : Statuses, entered : Passwords, row : Nat,
         todo : SUBSET Nat, tried : SUBSET Nat, loaded : Seq(Connection)]
NoCall == [pc |-> "idle", on |-> {}, read |-> Absent, next |-> "absent", entered |-> 1,
           row |-> 0, todo |-> {}, tried |-> {}, loaded |-> <<>>]

TypeOK ==
    /\ network \subseteq Services /\ raced \subseteq Services
    /\ password \in [Services -> Passwords]
    /\ service \in [Services -> Row]
    /\ connection \in Seq(Connection)
    /\ report \in [Agents -> Report]
    /\ call \in [Admins -> Call]

Init ==
    /\ network \in SUBSET Services
    /\ password = [s \in Services |-> 1]
    /\ service = [s \in Services |-> Absent]
    /\ connection = <<>>
    /\ report = [a \in Agents |-> NoReport]
    /\ call = [u \in Admins |-> NoCall]
    /\ raced = {} /\ calls = 0 /\ losses = 0

-----------------------------------------------------------------------------
(* The network                                                             *)

Join(s) ==
    /\ s \notin network
    /\ network' = network \cup {s}
    /\ UNCHANGED <<password, recorded, report, call, raced, calls, losses>>

ChangePassword(s) ==
    /\ s \in Directories
    /\ password[s] < MaxPasswords
    /\ password' = [password EXCEPT ![s] = @ + 1]
    /\ UNCHANGED <<network, recorded, report, call, raced, calls, losses>>

-----------------------------------------------------------------------------
(* The agents                                                              *)

Of(m) == {s \in network : Via[s] = m}

\* Each method adds one of these sets. The machine's own tables name servers that
\* may be down: its resolvers, and the first default route that has a gateway.
Resolves(a) == Nameservers[a] \ Unusable
RoutesBy(a) ==
    {Routes[a][i] : i \in {i \in DOMAIN Routes[a] :
                             /\ Routes[a][i] \notin Unusable
                             /\ \A j \in 1 .. i - 1 : Routes[a][j] \in Unusable}}

\* A plausible defect: the loop ends at a server that has no reverse name.
SomeDNSServers(a) == SUBSET Resolves(a)

DNSServers(a) == {Resolves(a)}
Gateway(a) == {RoutesBy(a)}

\* A lookup may fail or the 8 seconds for all of them run out.
ViaDNSSRV == SUBSET Of("dns_srv")

\* Whoever answers within the window of the multicast group; none without the port.
ViaMDNS == SUBSET Of("mdns")
ViaLLMNR == SUBSET Of("llmnr")

\* Replies are read for 4 seconds from the start of the probes, which are 2 ms apart,
\* so hosts probed later are missed; DHCP servers are heard if a lease is renewed.
hasRawSocketCapability(a) == a \in Privileged
ViaARPScan(a) == IF hasRawSocketCapability(a) THEN SUBSET Of("arp_scan") ELSE {{}}
ViaPassiveDHCP(a) == IF hasRawSocketCapability(a) THEN SUBSET Of("passive_dhcp") ELSE {{}}

\* Sweeps are 15 minutes apart: a report that is open has ended by the next.
RunPeriodic(a) == report[a].pc = "idle" /\ \A b \in Agents : report[b].pc # "open"

\* What is pending is taken as one batch, without duplicates; nothing if there is none.
ScanOnce(a) ==
    /\ RunPeriodic(a)
    /\ \E dns \in DNSServers(a), gateway \in Gateway(a), srv \in ViaDNSSRV, mdns \in ViaMDNS,
          llmnr \in ViaLLMNR, arp \in ViaARPScan(a), dhcp \in ViaPassiveDHCP(a) :
          LET pending == UNION {dns, gateway, srv, mdns, llmnr, arp, dhcp}
          IN  /\ pending # {}
              /\ report' = [report EXCEPT ![a] = [NoReport EXCEPT !.pc = "posting",
                                                                  !.todo = pending]]
    /\ UNCHANGED <<network, password, recorded, call, raced, calls, losses>>

Accept(a) ==
    /\ report[a].pc = "posting"
    /\ report' = [report EXCEPT ![a].pc = "open"]
    /\ UNCHANGED <<network, password, recorded, call, raced, calls, losses>>

\* The POST fails, is rejected, or its handler dies: the batch is not sent again.
Lose(a) ==
    /\ report[a].pc # "idle"
    /\ losses < MaxLosses
    /\ losses' = losses + 1
    /\ report' = [report EXCEPT ![a] = NoReport]
    /\ UNCHANGED <<network, password, recorded, call, raced, calls>>

-----------------------------------------------------------------------------
(* report_services                                                         *)

Held(s, others) == \E b \in others : \E w \in report[b].held : w.service = s

\* What the flush needs: no row of it locked, nor inserted, by another transaction.
CanFlush(a) == \A w \in report[a].dirty : ~Held(w.service, Agents \ {a})

\* The unique constraint on (org_id, service_type, host) fails the whole report.
Conflict(a) == \E w \in report[a].dirty : w.insert /\ service[w.service] # Absent

Discovered == [status |-> "discovered", ref |-> 0]

\* A plausible defect: the status is set with the rest.
Rediscovered(row) == [row EXCEPT !.status = "discovered"]

\* Of the row of a known service only what was observed is written.
Refreshed(row) == row

LookUp(a, s) ==
    /\ report[a].pc = "open" /\ s \in report[a].todo
    /\ CanFlush(a)
    /\ report' = [report EXCEPT ![a] =
                     IF Conflict(a) THEN NoReport
                     ELSE [pc |-> "open", todo |-> report[a].todo \ {s},
                           dirty |-> {[service |-> s, insert |-> service[s] = Absent]},
                           held |-> report[a].held \cup report[a].dirty]]
    /\ UNCHANGED <<network, password, recorded, call, raced, calls, losses>>

CommitReport(a) ==
    /\ report[a].pc = "open" /\ report[a].todo = {}
    /\ CanFlush(a)
    /\ LET found == {w.service : w \in report[a].held \cup report[a].dirty}
       IN  service' = IF Conflict(a) THEN service
                      ELSE [s \in Services |-> IF s \notin found THEN service[s]
                                               ELSE IF service[s] = Absent THEN Discovered
                                               ELSE Refreshed(service[s])]
    /\ report' = [report EXCEPT ![a] = NoReport]
    /\ UNCHANGED <<network, password, connection, call, raced, calls, losses>>

\* Two reports that wait for each other's rows: the database fails one of them.
FailReport(a) ==
    /\ \E b \in Agents \ {a} :
          /\ \E w \in report[a].dirty : Held(w.service, {b})
          /\ \E w \in report[b].dirty : Held(w.service, {a})
    /\ report' = [report EXCEPT ![a] = NoReport]
    /\ UNCHANGED <<network, password, recorded, call, raced, calls, losses>>

-----------------------------------------------------------------------------
(* Administrators                                                          *)

Connectable == Directories \cup Resolvers

Begin(u, c) ==
    /\ call[u].pc = "idle"
    /\ calls < MaxCalls
    /\ calls' = calls + 1
    /\ call' = [call EXCEPT ![u] = c]
    /\ raced' = raced \cup (c.on \cap UNION {call[v].on : v \in Admins})
    /\ UNCHANGED <<network, password, recorded, report, losses>>

Loaded(s) == [NoCall EXCEPT !.pc = "decide", !.on = {s}, !.read = service[s]]

OpenIgnore(u, s) ==
    /\ service[s] # Absent
    /\ Begin(u, [Loaded(s) EXCEPT !.next = "ignored"])

\* Missing credentials fare like wrong ones.
OpenConnect(u, s, p) ==
    /\ service[s] # Absent
    /\ Begin(u, IF s \in Connectable
                THEN [Loaded(s) EXCEPT !.pc = "bind", !.entered = p]
                ELSE [Loaded(s) EXCEPT !.next = "needs_credentials"])

\* A plausible defect: the directory is only reached, the bind is not awaited.
LdapReaches(s, p) == s \in Directories /\ s \in network

LdapBind(s, p) == s \in Directories /\ s \in network /\ p = password[s]
DnsProbe(s) == s \in Resolvers /\ s \in network
Works(s, p) == LdapBind(s, p) \/ DnsProbe(s)

ConnectionsOf(s) == {k \in DOMAIN connection : connection[k].service = s}

\* A plausible defect: the handler never looks for a connection.
NoneExisting(s) == {}

Existing(s) == ConnectionsOf(s)

\* scalar_one_or_none raises when there are two: the call fails, nothing is written.
Bind(u) ==
    /\ call[u].pc = "bind"
    /\ \E s \in call[u].on :
          call' = [call EXCEPT ![u] =
                      IF ~Works(s, call[u].entered)
                      THEN [@ EXCEPT !.pc = "decide", !.next = "error"]
                      ELSE IF Cardinality(Existing(s)) > 1 THEN NoCall
                      ELSE [@ EXCEPT !.pc = "decide", !.next = "connected",
                                     !.row = IF Existing(s) = {} THEN 0
                                             ELSE CHOOSE k \in Existing(s) : TRUE,
                                     !.loaded = connection]]
    /\ UNCHANGED <<network, password, recorded, report, raced, calls, losses>>

\* An assignment of the value that was loaded writes nothing.
Assign(current, read, value) == IF value = read THEN current ELSE value

Inserted(s, p) == [service |-> s, stored |-> p, tried |-> p, works |-> TRUE]

\* A plausible defect: the outcome of the last verification is left.
KeepsVerdict(now, read, p) == [now EXCEPT !.stored = p]

\* A password is stored anew each time; last_error is cleared.
Updated(now, read, p) ==
    IF now.service \in Directories
    THEN [now EXCEPT !.stored = p,
                     !.works = Assign(@, read.works, TRUE),
                     !.tried = IF Assign(now.works, read.works, TRUE) THEN p ELSE @]
    ELSE [now EXCEPT !.works = Assign(@, read.works, TRUE)]

\* The commit of ignore_service or connect_service.
Decide(u) ==
    /\ call[u].pc = "decide"
    /\ \E s \in call[u].on :
          LET c == call[u]
              at == IF c.row = 0 THEN Len(connection) + 1 ELSE c.row
          IN  /\ ~Held(s, Agents)
              /\ service' = [service EXCEPT
                    ![s].status = Assign(@, c.read.status, c.next),
                    ![s].ref = IF c.next = "connected" THEN Assign(@, c.read.ref, at)
                               ELSE @]
              /\ connection' =
                    IF c.next # "connected" THEN connection
                    ELSE IF c.row = 0 THEN Append(connection, Inserted(s, c.entered))
                    ELSE [connection EXCEPT ![at] =
                             Updated(@, c.loaded[at], c.entered)]
    /\ call' = [call EXCEPT ![u] = NoCall]
    /\ UNCHANGED <<network, password, report, raced, calls, losses>>

Verification(rows) ==
    [NoCall EXCEPT !.pc = "verify", !.todo = rows, !.loaded = connection,
                   !.on = {connection[k].service : k \in rows}]

\* scalar_one_or_none raises when there are two.
OpenReverify(u, s) ==
    /\ Cardinality(ConnectionsOf(s)) = 1
    /\ Begin(u, Verification(ConnectionsOf(s)))

OpenReverifyAll(u) ==
    /\ connection # <<>>
    /\ Begin(u, Verification(DOMAIN connection))

\* verify_connection, with the password that was loaded; the verdict is kept in
\* `works` of the loaded row until the commit. A failure may be another one.
Verify(u, k) ==
    /\ call[u].pc = "verify" /\ k \in call[u].todo
    /\ \E reworded \in BOOLEAN :
       LET c == call[u]
           row == c.loaded[k]
           verdict == Works(row.service, row.stored)
           seen == [row EXCEPT !.works = verdict, !.tried = row.stored]
       IN  call' = [call EXCEPT ![u] =
                       [c EXCEPT !.todo = c.todo \ {k},
                                 !.tried = IF verdict = row.works /\ (verdict \/ ~reworded)
                                           THEN c.tried ELSE c.tried \cup {k},
                                 !.loaded = [c.loaded EXCEPT ![k] = seen]]]
    /\ UNCHANGED <<network, password, recorded, report, raced, calls, losses>>

\* Only a verdict or an error that differs from the one loaded is written.
CommitVerdicts(u) ==
    /\ call[u].pc = "verify" /\ call[u].todo = {}
    /\ connection' = [k \in DOMAIN connection |->
                         IF k \in call[u].tried
                         THEN [connection[k] EXCEPT !.works = call[u].loaded[k].works,
                                                    !.tried = call[u].loaded[k].tried]
                         ELSE connection[k]]
    /\ call' = [call EXCEPT ![u] = NoCall]
    /\ UNCHANGED <<network, password, service, report, raced, calls, losses>>

-----------------------------------------------------------------------------
AgentStep(a) == ScanOnce(a) \/ Accept(a)

ReportStep(a) == (\E s \in Services : LookUp(a, s)) \/ CommitReport(a) \/ FailReport(a)

Opens(u) ==
    \/ OpenReverifyAll(u)
    \/ \E s \in Services : \/ OpenIgnore(u, s) \/ OpenReverify(u, s)
                           \/ \E p \in Passwords : OpenConnect(u, s, p)

AdminStep(u) ==
    \/ Bind(u) \/ Decide(u) \/ CommitVerdicts(u)
    \/ \E k \in DOMAIN connection : Verify(u, k)

Next ==
    \/ \E s \in Services : Join(s) \/ ChangePassword(s)
    \/ \E a \in Agents : AgentStep(a) \/ Lose(a) \/ ReportStep(a)
    \/ \E u \in Admins : Opens(u) \/ AdminStep(u)

\* The server's handlers and the database's detection of deadlocks go on. So does each
\* agent's ticker: other agents' reports, short and far apart, do not keep it waiting.
\* Which report a deadlock fails depends on whose wait is looked at first: no report is
\* chosen every time.
Fairness ==
    \A a \in Agents : /\ SF_vars(AgentStep(a)) /\ WF_vars(ReportStep(a))
                      /\ SF_vars(FailReport(a))

Spec == Init /\ [][Next]_vars /\ Fairness

-----------------------------------------------------------------------------
(* Properties                                                              *)

\* A service is shown as connected only with a stored connection of its own
\* (connected_ref_id), and a directory's stored password is one it accepted.
ConnectedWasBound ==
    /\ \A s \in Services :
          service[s].status = "connected" => service[s].ref \in ConnectionsOf(s)
    /\ \A k \in DOMAIN connection :
          connection[k].service \in Directories =>
             connection[k].stored <= password[connection[k].service]

\* Calls that do not overlap leave one connection of a service, and its verdict
\* is about the password that is stored (no unique constraint keeps it so).
OneConnection ==
    \A s \in Services \ raced :
       /\ Cardinality(ConnectionsOf(s)) <= 1
       /\ \A k \in ConnectionsOf(s) : connection[k].tried = connection[k].stored

DiscoveryInv == TypeOK /\ ConnectedWasBound

\* Reports and verifications never change what an administrator decided: a known
\* service's status and connection change only as a decision on it is committed.
DecisionsStand ==
    [][\A s \in Services :
          service[s] # Absent /\ service'[s] # service[s] =>
             \E u \in Admins : /\ call[u].pc = "decide" /\ s \in call[u].on
                               /\ call'[u] = NoCall]_vars

\* The resolvers of an agent's resolv.conf and the first gateway of its default routes
\* are recorded in the end, however the reports of several agents fail one another;
\* further gateways, and what the other methods look for, may never be.
ConfiguredIsListed ==
    \A a \in Agents, s \in Services :
       s \in Resolves(a) \cup RoutesBy(a) => <>(service[s] # Absent)
================================================================================
