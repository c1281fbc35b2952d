--------------------------- MODULE ServiceExposure ---------------------------
(****************************************************************************)
(* Host ports of services (internal/exposure, kitpro-api/main.go).  The API *)
(* picks the mode and the port of every service of an installation from its *)
(* rows and from what listens on the host, long before the helper starts    *)
(* the new generation with them and the rows are written.  Requests         *)
(* interleave between these points, also those of other installations,      *)
(* which no lease keeps apart; answers get lost, applications stop and      *)
(* start, and other processes of the host open and close ports.             *)
(* A replacement in the helper is one step: it takes effect or it does not. *)
(* The LAN address is configured.                                           *)
(****************************************************************************)
EXTENDS Integers, FiniteSets, FiniteSetsExt

CONSTANTS Handlers,        \* requests the API may be serving at once
          Installations,
          Composite,       \* those of several components
          Services,        \* numbered as in the manifest
          Declared,        \* transport, default mode and fixed port of a service
          Ports,           \* FirstPort .. LastPort
          Starts,          \* bindings per installation at rest; NoRows where there is none
          MaxRequests,     \* requests altogether
          MaxFaults        \* lost answers, failing calls, changes on the host

Modes == {"internal", "loopback", "lan"}
Transports == {"tcp", "udp"}
Bindings == [mode : Modes \cup {"none"}, port : Nat]

ASSUME ExposureAssumption ==
    /\ Composite \subseteq Installations
    /\ Services \subseteq Nat /\ Ports \subseteq Nat \ {0}
    /\ Declared \in [Services -> [transport : Transports, default : Modes \cup {"none"},
                                 fixed : Nat]]
    /\ {MaxRequests, MaxFaults} \subseteq Nat

VARIABLES
  row,         \* control.db: generation and exposure row per service
  held,        \* helper.db and runtime: generation, state and bindings
  outside,     \* what other processes of the host listen on
  api,         \* the handlers
  owed,        \* results of the helper whose operation the API has not settled
  overtaken,   \* a result was projected while another handler was still to write
  raced,       \* a request was checked while another's ports were not yet in the rows
  used         \* faults and requests so far

ghosts == <<overtaken, raced>>
vars == <<row, held, outside, api, owed, ghosts, used>>

NoRow == [mode |-> "none", port |-> 0]
NoRows == [s \in Services |-> NoRow]
Idle == [pc |-> "idle", kind |-> "none", i |-> "none", target |-> 0, mode |-> "none", port |-> 0,
         gen |-> 0, todo |-> {}, unread |-> {}, at |-> NoRows, own |-> {}]

Spend(what) == used' = [used EXCEPT ![what] = @ + 1]
Fault == used.faults < MaxFaults /\ Spend("faults")
Request(h) == api[h] = Idle /\ used.requests < MaxRequests /\ Spend("requests")
Goto(h, step) == api' = [api EXCEPT ![h].pc = step]
Leave(h) == api' = [api EXCEPT ![h] = Idle]
inApi == UNCHANGED <<row, held, outside, owed, ghosts>>

----------------------------------------------------------------------------
(* Bindings and sockets.                                                   *)

AddressOf == [internal |-> "none", none |-> "none", loopback |-> "127.0.0.1", lan |-> "lan"]
Exposed(at) == {s \in Services : at[s].mode \in {"loopback", "lan"}}
Socket(s, b) == [transport |-> Declared[s].transport, address |-> AddressOf[b.mode], port |-> b.port]
Sockets(at) == {Socket(s, at[s]) : s \in Exposed(at)}

\* Linux refuses the same port twice; a wildcard overlaps every address.
BindingsConflict(x, y) ==
    /\ x.transport = y.transport /\ x.port = y.port
    /\ x.address = y.address \/ "any" \in {x.address, y.address}

Clash(X, Y) == \E x \in X, y \in Y : BindingsConflict(x, y)

\* At rest an installation has a row for every service or none at all, and no two
\* have the same port.
ASSUME StartsAssumption ==
    \A start \in Starts :
      /\ start \in [Installations -> [Services -> Bindings]]
      /\ \A i \in Installations : start[i] = NoRows \/ \A s \in Services : start[i][s].mode # "none"
      /\ \A i, j \in Installations : i # j => ~Clash(Sockets(start[i]), Sockets(start[j]))

\* Two services of one request.
ValidateConflicts(at) ==
    \A s, t \in Exposed(at) : s # t => ~BindingsConflict(Socket(s, at[s]), Socket(t, at[t]))

Running(i) == IF held[i].state = "running" THEN Sockets(held[i].at) ELSE {}
Listening == outside \cup UNION {Running(i) : i \in Installations}

\* The first port no row has and the host lets bind; 0 when there is none.
AllocateAvailable(taken, transport, address) ==
    LET free == {p \in Ports \ taken :
                   ~Clash({[transport |-> transport, address |-> address, port |-> p]}, Listening)} IN
    IF free = {} THEN 0 ELSE Min(free)

----------------------------------------------------------------------------
(* A request arrives.                                                      *)

Build(h, i, kind, target, gen, mode, port) ==
    api' = [api EXCEPT ![h] = [Idle EXCEPT !.pc = "build", !.kind = kind, !.i = i, !.target = target,
                                           !.gen = gen, !.mode = mode, !.port = port,
                                           !.todo = Services]]

Install(h, i) ==
    /\ ~row[i].exists /\ Request(h)
    /\ row' = [row EXCEPT ![i].exists = TRUE]
    /\ Build(h, i, "install", 0, 1, "none", 0)
    /\ UNCHANGED <<held, outside, owed, ghosts>>

\* Recreate and update keep every service; only recreate applies defaults.
Replace(h, i, kind) ==
    /\ row[i].exists /\ Request(h)
    /\ Build(h, i, kind, 0, row[i].gen + 1, "none", 0)
    /\ inApi

\* The exposure endpoint reads the service's row: a port it had is used again.
Expose(h, i, s, mode) ==
    LET fixed == Declared[s].fixed
        port == IF mode # "internal" /\ fixed # 0 THEN fixed ELSE row[i].at[s].port IN
    /\ row[i].exists /\ Request(h)
    /\ api' = [api EXCEPT ![h] = [Idle EXCEPT !.kind = "expose", !.i = i, !.target = s, !.mode = mode,
                                   !.port = port,
                                   !.pc = IF mode = "internal" \/ port # 0 THEN "begin" ELSE "allocate"]]
    /\ inApi

\* Ports of any row of the transport that is internal or conflicts.
TakenByRows(h, s) ==
    LET want(p) == [transport |-> Declared[s].transport, address |-> AddressOf[api[h].mode], port |-> p] IN
    {p \in Ports : \E i \in Installations, t \in Services :
        /\ row[i].at[t].port = p /\ Declared[t].transport = Declared[s].transport
        /\ \/ row[i].at[t].mode = "internal"
           \/ t \in Exposed(row[i].at) /\ BindingsConflict(want(p), Socket(t, row[i].at[t]))}

\* A row that cannot be read is a row without a port: the port the service had is
\* forgotten, and another one allocated.
PortUnread(h) ==
    /\ api[h].pc = "begin" /\ Declared[api[h].target].fixed = 0 /\ Fault
    /\ api' = [api EXCEPT ![h].port = 0,
                          ![h].pc = IF api[h].mode = "internal" THEN "begin" ELSE "allocate"]
    /\ inApi

Allocate(h) ==
    LET s == api[h].target
        p == AllocateAvailable(TakenByRows(h, s), Declared[s].transport, AddressOf[api[h].mode]) IN
    /\ api[h].pc = "allocate"
    /\ IF p = 0 THEN Leave(h) ELSE api' = [api EXCEPT ![h].pc = "begin", ![h].port = p]
    /\ inApi /\ UNCHANGED used

\* ops reads the generation, after the endpoint read the port.
BeginExpose(h) ==
    /\ api[h].pc = "begin"
    /\ Build(h, api[h].i, "expose", api[h].target, row[api[h].i].gen + 1, api[h].mode, api[h].port)
    /\ inApi /\ UNCHANGED used

----------------------------------------------------------------------------
(* buildServiceBindings: one service after the other.                      *)

\* Only exposed rows of other installations conflict, so a port that one of their
\* internal services retains is not taken; of this request, every binding before.
TakenForDefault(h, s, mode) ==
    LET want(p) == [transport |-> Declared[s].transport, address |-> AddressOf[mode], port |-> p] IN
    {p \in Ports :
        \/ \E i \in Installations \ {api[h].i} : Clash({want(p)}, Sockets(row[i].at))
        \/ \E t \in Services \ api[h].todo :
             /\ Declared[t].transport = Declared[s].transport
             /\ AddressOf[api[h].at[t].mode] = AddressOf[mode] /\ api[h].at[t].port = p}

DefaultBinding(h, s) ==
    LET d == Declared[s] IN
    IF api[h].kind \notin {"install", "recreate"} \/ d.default = "none"
    THEN [mode |-> "internal", port |-> d.fixed]
    ELSE [mode |-> d.default,
          port |-> IF d.fixed # 0 \/ d.default = "internal" THEN d.fixed
                   ELSE AllocateAvailable(TakenForDefault(h, s, d.default), d.transport,
                                          AddressOf[d.default])]

\* The target's new mode, else the stored row, else the manifest's default.
Binding(h, s, stored) ==
    LET fixed == Declared[s].fixed IN
    IF api[h].kind = "expose" /\ api[h].target = s
    THEN [mode |-> api[h].mode, port |-> IF fixed # 0 THEN fixed ELSE api[h].port]
    ELSE IF stored # NoRow THEN stored ELSE DefaultBinding(h, s)

ValidateBinding(b, fixed) ==
    /\ IF fixed # 0 THEN b.port = fixed ELSE b.port \in Ports \cup {0}
    /\ b.mode \in {"loopback", "lan"} => b.port # 0

BindNext(h, stored, unread) ==
    LET s == Min(api[h].todo)  b == Binding(h, s, stored) IN
    /\ IF ValidateBinding(b, Declared[s].fixed)
       THEN api' = [api EXCEPT ![h].at[s] = b, ![h].todo = @ \ {s}, ![h].unread = @ \cup unread]
       ELSE Leave(h)
    /\ inApi

BuildBinding(h) ==
    /\ api[h].pc = "build" /\ api[h].todo # {}
    /\ BindNext(h, row[api[h].i].at[Min(api[h].todo)], {})
    /\ UNCHANGED used

\* Any error of exposure.Get counts as a service without a row: a failing statement,
\* or the client that went away and took the context of its request along.
BindingUnread(h) ==
    /\ api[h].pc = "build" /\ api[h].todo # {} /\ Fault
    /\ BindNext(h, NoRow, {Min(api[h].todo)})

\* Another installation's ports are on their way into the rows.
Unprojected(h) ==
    \/ \E x \in Handlers \ {h} : /\ api[x].pc \in {"listeners", "send", "project"}
                                 /\ api[x].i # api[h].i
    \/ \E r \in owed : r.i # api[h].i /\ row[r.i].gen < r.gen

\* Mutant: only the listeners are asked, so a stopped application's ports look free.
NothingReserved(i) == {}

Reserved(i) == UNION {Sockets(row[x].at) : x \in Installations \ {i}}

\* preflightBindings: among themselves, then against the rows of the others.
PreflightRows(h) ==
    LET wants == Sockets(api[h].at) IN
    /\ api[h].pc = "build" /\ api[h].todo = {}
    /\ IF ~ValidateConflicts(api[h].at) \/ Clash(wants, Reserved(api[h].i)) THEN Leave(h)
       ELSE api' = [api EXCEPT ![h].pc = IF wants = {} THEN "send" ELSE "listeners",
                               ![h].own = Sockets(row[api[h].i].at)]
    /\ raced' = (raced \/ Unprojected(h))
    /\ UNCHANGED <<row, held, outside, owed, overtaken, used>>

\* Then against the host, where a listener on a binding this installation already
\* has counts as its own.
PreflightListeners(h) ==
    /\ api[h].pc = "listeners"
    /\ IF Clash(Sockets(api[h].at) \ api[h].own, Listening) THEN Leave(h) ELSE Goto(h, "send")
    /\ inApi /\ UNCHANGED used

----------------------------------------------------------------------------
(* The helper.                                                             *)

\* validateTrustedRecreation: the next generation and, unless exposure is being
\* configured, the bindings of the present one; applications of several components
\* are not compared (validateTrustedMultiRecreation).
TrustedRecreation(h) ==
    LET q == api[h]  now == held[q.i] IN
    /\ q.gen = now.gen + 1
    /\ q.kind = "expose" \/ now.gen = 0 \/ q.i \in Composite \/ q.at = now.at

\* The old generation runs, or there is none, and the host lets the new one bind.
Replaceable(h) ==
    LET i == api[h].i IN
    /\ held[i].state # "stopped"
    /\ ~Clash(Sockets(api[h].at), Listening \ Running(i))

HelperReplaces(h) ==
    LET i == api[h].i IN
    /\ api[h].pc = "send" /\ TrustedRecreation(h) /\ Replaceable(h)
    /\ held' = [held EXCEPT ![i] = [gen |-> api[h].gen, state |-> "running", at |-> api[h].at]]
    /\ owed' = owed \cup {[i |-> i, gen |-> api[h].gen, at |-> api[h].at]}
    /\ Goto(h, "project")
    /\ UNCHANGED <<row, outside, ghosts, used>>

HelperRefuses(h) ==
    /\ api[h].pc = "send" /\ ~(TrustedRecreation(h) /\ Replaceable(h))
    /\ row' = [row EXCEPT ![api[h].i].gen = IF api[h].kind = "install" THEN 0 ELSE @]
    /\ Leave(h)
    /\ UNCHANGED <<held, outside, owed, ghosts, used>>

HelperFails(h) ==
    /\ api[h].pc = "send" /\ Fault
    /\ row' = [row EXCEPT ![api[h].i].gen = IF api[h].kind = "install" THEN 0 ELSE @]
    /\ Leave(h)
    /\ UNCHANGED <<held, outside, owed, ghosts>>

\* Start, stop and remove act on the present generation; their answer carries its
\* bindings, and so does that of a reconciliation, which finds them unless removed.
Operates == [start |-> "running", stop |-> "stopped", remove |-> "removed"]

Operate(i, action) ==
    /\ held[i].state \in {"running", "stopped"} /\ held[i].state # Operates[action]
    /\ action = "start" => ~Clash(Sockets(held[i].at), Listening)
    /\ used.requests < MaxRequests /\ Spend("requests")
    /\ held' = [held EXCEPT ![i].state = Operates[action]]
    /\ owed' = owed \cup {[i |-> i, gen |-> held[i].gen, at |-> held[i].at]}
    /\ UNCHANGED <<row, outside, api, ghosts>>

Reconcile(i) ==
    /\ held[i].state \in {"running", "stopped"}
    /\ used.requests < MaxRequests /\ Spend("requests")
    /\ owed' = owed \cup {[i |-> i, gen |-> held[i].gen, at |-> held[i].at]}
    /\ UNCHANGED <<row, held, outside, api, ghosts>>

----------------------------------------------------------------------------
(* The result is projected, generation and rows in one transaction.        *)

\* The unique index over address, port and transport of exposed rows.
Unique(r) ==
    LET keys == {k \in Installations \X Services : k[2] \in Exposed(r[k[1]].at)}
        socket(k) == Socket(k[2], r[k[1]].at[k[2]]) IN
    \A j, k \in keys : j # k => socket(j) # socket(k)

\* Mutant: the exposure rows are not part of the transaction.
ProjectsOnlyGeneration(r) == [row EXCEPT ![r.i].gen = r.gen]

Projected(r) == [row EXCEPT ![r.i].gen = r.gen, ![r.i].at = r.at]

Mine(h) == [i |-> api[h].i, gen |-> api[h].gen, at |-> api[h].at]

\* Handlers that have still to project a result of the installation, and a first
\* installation, which takes the row back to generation 0 when it is turned down.
Holding(r) ==
    {x \in Handlers : api[x].i = r.i /\ (api[x].pc = "project" \/ api[x].kind = "install")}

\* POST: no comparison with the generation in the row.  When the rows cannot be
\* written the operation stays pending.
Project(h) ==
    /\ api[h].pc = "project"
    /\ IF Unique(Projected(Mine(h)))
       THEN row' = Projected(Mine(h)) /\ owed' = owed \ {Mine(h)}
       ELSE UNCHANGED <<row, owed>>
    /\ overtaken' = (overtaken \/ Holding(Mine(h)) # {h})
    /\ Leave(h)
    /\ UNCHANGED <<held, outside, raced, used>>

\* A statement of the request fails, its transaction fails, the answer is lost or
\* the API dies.
GiveUp(h) ==
    /\ api[h].pc # "idle" /\ Fault /\ Leave(h)
    /\ inApi

\* repairCommittedProjection: a poll, a reconciliation or a lifecycle request.
Settle(r) ==
    /\ row[r.i].gen <= r.gen /\ Unique(Projected(r))
    /\ row' = Projected(r)
    /\ owed' = owed \ {r}
    /\ overtaken' = (overtaken \/ Holding(r) # {})
    /\ UNCHANGED <<held, outside, api, raced, used>>

\* Another process of the host opens or closes a port on all addresses.
HostOpens ==
    \E p \in Ports :
      LET x == [transport |-> "tcp", address |-> "any", port |-> p] IN
      /\ outside = {} /\ ~Clash({x}, Listening) /\ Fault
      /\ outside' = {x}
      /\ UNCHANGED <<row, held, api, owed, ghosts>>

HostCloses ==
    /\ outside # {} /\ outside' = {}
    /\ UNCHANGED <<row, held, api, owed, ghosts, used>>

----------------------------------------------------------------------------

Init ==
    \E start \in Starts :
      LET gen(i) == IF start[i] = NoRows THEN 0 ELSE 1 IN
      /\ row = [i \in Installations |-> [exists |-> start[i] # NoRows, gen |-> gen(i), at |-> start[i]]]
      /\ held = [i \in Installations |-> [gen |-> gen(i), at |-> start[i],
                                          state |-> IF gen(i) = 0 THEN "none" ELSE "running"]]
      /\ outside = {} /\ owed = {} /\ overtaken = FALSE /\ raced = FALSE
      /\ api = [h \in Handlers |-> Idle]
      /\ used = [faults |-> 0, requests |-> 0]

Arrive(h, i) ==
    \/ Install(h, i) \/ Replace(h, i, "recreate") \/ Replace(h, i, "update")
    \/ \E s \in Services, mode \in Modes : Expose(h, i, s, mode)

Serve(h) ==
    \/ PortUnread(h) \/ Allocate(h) \/ BeginExpose(h) \/ BuildBinding(h) \/ BindingUnread(h)
    \/ PreflightRows(h) \/ PreflightListeners(h)
    \/ HelperReplaces(h) \/ HelperRefuses(h) \/ HelperFails(h) \/ Project(h) \/ GiveUp(h)

Next ==
    \/ \E h \in Handlers, i \in Installations : Arrive(h, i)
    \/ \E h \in Handlers : Serve(h)
    \/ \E i \in Installations : Reconcile(i) \/ \E action \in DOMAIN Operates : Operate(i, action)
    \/ \E r \in owed : Settle(r)
    \/ HostOpens \/ HostCloses

Spec == Init /\ [][Next]_vars

----------------------------------------------------------------------------
Endpoints == [transport : Transports, address : {"none", "127.0.0.1", "lan", "any"}, port : Nat]

HandlerStates ==
    [pc : {"idle", "allocate", "begin", "build", "listeners", "send", "project"},
     kind : {"none", "install", "recreate", "update", "expose"},
     i : Installations \cup {"none"}, target : Services \cup {0}, mode : Modes \cup {"none"},
     port : Nat, gen : Nat, todo : SUBSET Services, unread : SUBSET Services,
     at : [Services -> Bindings], own : SUBSET Endpoints]

\* Types of the rows, of what the helper holds, of the handlers and the results.
TypeOK ==
    /\ row \in [Installations -> [exists : BOOLEAN, gen : Nat, at : [Services -> Bindings]]]
    /\ held \in [Installations -> [gen : Nat, at : [Services -> Bindings],
                                  state : {"none", "running", "stopped", "removed"}]]
    /\ outside \subseteq Endpoints
    /\ api \in [Handlers -> HandlerStates]
    /\ owed \subseteq [i : Installations, gen : Nat, at : [Services -> Bindings]]
    /\ overtaken \in BOOLEAN /\ raced \in BOOLEAN
    /\ used \in [faults : Nat, requests : Nat]

\* Services whose row could not be read and whose binding the helper takes as it
\* comes: it compares nothing when exposure is configured, and nothing of an
\* application of several components.
Guessed(h) ==
    IF api[h].kind = "expose" \/ api[h].i \in Composite THEN api[h].unread ELSE {}

\* A generation the helper commits differs from the one before in no service but the
\* one the request was about, although the bindings of all services were read from
\* the control database long before: "exposure changes and generation replacement
\* cannot silently lose another service" (exposure.go:41-43).  Excepted are a
\* projection that another request overtook, where POST writes older rows back, and
\* a service whose row could not be read, where the helper does not compare: the
\* code takes it for one without a row, and it is lost.
OthersKept ==
    [][\A i \in Installations :
         held[i].gen > 0 /\ held'[i].gen # held[i].gen /\ ~overtaken =>
           \E h \in Handlers :
             /\ api[h].i = i /\ api'[h].pc = "project" /\ api[h].pc = "send"
             /\ \A s \in Services \ ({api[h].target} \cup Guessed(h)) :
                  held'[i].at[s] = held[i].at[s]]_vars

\* No two installations hold the same host port, also while they are stopped, so that
\* each can be started again: unless one was checked while the ports of the other
\* were between its own check and the rows, which no lease prevents.
ReservedOnce ==
    \/ raced \/ overtaken
    \/ \A i, j \in Installations : i # j => ~Clash(Sockets(held[i].at), Sockets(held[j].at))

----------------------------------------------------------------------------
(* What the documents say and the code does not keep: no run checks these. *)

\* api-reference.md:238: an internal service "retains its assigned port for stable
\* re-enable": nobody else is given it.
RetainedStaysFree ==
    \A i, j \in Installations, s \in Services :
      i # j /\ row[i].at[s].mode = "internal" /\ row[i].at[s].port \in Ports =>
        \A t \in Exposed(row[j].at) : row[j].at[t].port # row[i].at[s].port

\* 0.1.0-alpha.12-release-notes.md:59: "KITPro can repair stale control projections":
\* the result of the present generation can always be written.
OwedIsWritable ==
    \A r \in owed : r.gen = held[r.i].gen /\ row[r.i].gen <= r.gen => Unique(Projected(r))
=============================================================================
