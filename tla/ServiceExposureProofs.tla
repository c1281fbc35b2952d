------------------------ MODULE ServiceExposureProofs ------------------------
(***************************************************************************)
(* Proofs about ServiceExposure for any set of installations, services,    *)
(* ports and requests: no two installations hold the same host port, and a *)
(* replacement changes no service but the one it was asked to change.      *)
(***************************************************************************)
EXTENDS ServiceExposure, WellFoundedInduction, TLAPS

Building == {"build", "listeners", "send"}
Checked == {"listeners", "send"}

\* The rows are not newer than what the helper holds and agree with it when they
\* are of the same generation; an installation that has generations has a row, and
\* each of its services a binding.
RowsFollow ==
    \A i \in Installations :
      /\ row[i].gen <= held[i].gen
      /\ row[i].gen = held[i].gen => row[i].at = held[i].at
      /\ ~row[i].exists => held[i].gen = 0
      /\ held[i].gen > 0 => \A s \in Services : held[i].at[s] # NoRow

\* So are the results the API has not settled.
ResultsFollow ==
    \A r \in owed : /\ r.gen <= held[r.i].gen
                    /\ r.gen = held[r.i].gen => r.at = held[r.i].at

\* A handler at work has an installation; what it builds is at most the next
\* generation, with a binding for every service it has been through.
Sound(a) ==
    /\ a.pc = "idle" => a.kind = "none"
    /\ a.pc # "idle" => a.i \in Installations /\ row[a.i].exists
    /\ a.pc \in {"allocate", "begin"} => a.kind = "expose"
    /\ a.kind = "expose" => a.mode \in Modes
    /\ a.pc \in Building => /\ a.gen > 0 /\ a.gen <= held[a.i].gen + 1
                            /\ \A s \in Services \ a.todo : a.at[s] # NoRow
    /\ a.pc \in Checked => a.todo = {}
    /\ a.pc = "project" => /\ a.gen <= held[a.i].gen
                           /\ a.gen = held[a.i].gen => a.at = held[a.i].at

HandlersSound == \A h \in Handlers : Sound(api[h])

\* Unless a projection was overtaken: a result to be projected is the present
\* generation and still missing in the rows; a request for the next generation was
\* built from rows that agree with the present one, except where a row could not be
\* read.
InStep(a) ==
    /\ a.kind = "install" => row[a.i].gen = 0
    /\ a.pc = "project" => a.gen = held[a.i].gen /\ row[a.i].gen < held[a.i].gen
    /\ a.pc \in Building /\ a.gen = held[a.i].gen + 1 =>
         /\ row[a.i].gen = held[a.i].gen
         /\ held[a.i].gen > 0 =>
              \A s \in Services \ a.todo :
                ~(a.kind = "expose" /\ a.target = s) /\ s \notin a.unread => a.at[s] = held[a.i].at[s]

\* Also, what is missing in the rows is owed.
NotOvertaken ==
    overtaken \/
      /\ \A h \in Handlers : InStep(api[h])
      /\ \A i \in Installations :
           row[i].gen < held[i].gen => [i |-> i, gen |-> held[i].gen, at |-> held[i].at] \in owed

\* Unless requests raced, only one installation at a time is between the check of
\* its ports and the rows, and what was checked is still free.
OneAtATime ==
    raced \/ \A h, x \in Handlers :
               api[h].pc \in Checked \cup {"project"} /\
               api[x].pc \in Checked \cup {"project"} => api[h].i = api[x].i

StillFree ==
    raced \/ overtaken \/
      \A h \in Handlers, j \in Installations :
        api[h].pc \in Checked /\ j # api[h].i => ~Clash(Sockets(api[h].at), Sockets(held[j].at))

IndInv ==
    /\ TypeOK /\ RowsFollow /\ ResultsFollow /\ HandlersSound /\ NotOvertaken
    /\ OneAtATime /\ StillFree /\ ReservedOnce

-----------------------------------------------------------------------------
(* Bindings.                                                               *)

\* The smallest of a set of numbers is one of them.
LEMMA MinIn ==
    ASSUME NEW S, S \subseteq Nat, S # {}
    PROVE  Min(S) \in S
<1>1. PICK x \in S : \A y \in S : ~(<<y, x>> \in OpToRel(<, Nat))
  BY NatLessThanWellFounded, WFMin
<1>2. \A y \in S : x =< y
  <2>1. \A y \in S : ~(y < x)
    BY <1>1 DEF OpToRel
  <2> QED
    BY <2>1
<1> QED
  BY <1>2 DEF Min

\* AllocateAvailable gives a port of the range or none.
LEMMA AllocatedPort ==
    ASSUME NEW taken, NEW transport, NEW address
    PROVE  AllocateAvailable(taken, transport, address) \in Ports \cup {0}
<1> DEFINE free == {p \in Ports \ taken :
              ~Clash({[transport |-> transport, address |-> address, port |-> p]}, Listening)}
<1>1. free \subseteq Ports /\ free \subseteq Nat
  BY ExposureAssumption
<1>2. CASE free = {}
  BY <1>2 DEF AllocateAvailable
<1>3. CASE free # {}
  <2>1. Min(free) \in free
    BY <1>1, <1>3, MinIn
  <2> QED
    BY <2>1, <1>1, <1>3 DEF AllocateAvailable
<1> QED
  BY <1>2, <1>3

\* Whether two sets of sockets clash does not depend on their order.
LEMMA ClashSymmetric ==
    ASSUME NEW X, NEW Y, Clash(X, Y)
    PROVE  Clash(Y, X)
<1>1. PICK x \in X, y \in Y : BindingsConflict(x, y)
  BY DEF Clash
<1>2. BindingsConflict(y, x)
  BY <1>1 DEF BindingsConflict
<1> QED
  BY <1>2 DEF Clash

\* A set of sockets that clashes with none of several sets clashes with no part.
LEMMA ClashWithPart ==
    ASSUME NEW X, NEW Y, NEW Z, Y \subseteq Z, Clash(X, Y)
    PROVE  Clash(X, Z)
BY DEF Clash

\* Sockets of bindings are endpoints.
LEMMA SocketsTyped ==
    ASSUME NEW at \in [Services -> Bindings]
    PROVE  Sockets(at) \subseteq Endpoints
<1> SUFFICES ASSUME NEW s \in Exposed(at) PROVE Socket(s, at[s]) \in Endpoints
  BY DEF Sockets
<1>1. s \in Services /\ at[s] \in Bindings /\ at[s].mode \in {"loopback", "lan"}
  BY DEF Exposed
<1>2. Declared[s].transport \in Transports
  BY <1>1, ExposureAssumption
<1>3. AddressOf[at[s].mode] \in {"127.0.0.1", "lan"}
  BY <1>1 DEF AddressOf
<1>4. at[s].port \in Nat
  BY <1>1 DEF Bindings
<1> QED
  BY <1>2, <1>3, <1>4 DEF Socket, Endpoints

\* No rows are rows.
LEMMA NoRowsTyped == NoRows \in [Services -> Bindings] /\ NoRow \in Bindings
BY DEF NoRows, NoRow, Bindings

\* A handler without a request is typed.
LEMMA IdleTyped ==
    /\ Idle \in HandlerStates /\ Idle.pc = "idle" /\ Idle.kind = "none"
    /\ Idle.todo = {} /\ Idle.at = NoRows
BY NoRowsTyped DEF Idle, HandlerStates

\* A handler without a request asks nothing of the rows.
LEMMA IdleSound == Sound(Idle) /\ InStep(Idle)
BY IdleTyped DEF Sound, InStep, Building, Checked

\* What buildServiceBindings finds for a service is a binding.
LEMMA BindingTyped ==
    ASSUME TypeOK, HandlersSound, NEW h \in Handlers, NEW s \in Services, api[h].pc # "idle",
           NEW stored \in Bindings
    PROVE  /\ Binding(h, s, stored) \in Bindings /\ Binding(h, s, stored) # NoRow
           /\ stored # NoRow /\ ~(api[h].kind = "expose" /\ api[h].target = s) =>
                Binding(h, s, stored) = stored
<1>1. api[h] \in HandlerStates /\ api[h].i \in Installations
  BY DEF TypeOK, HandlersSound, Sound
<1>3. Declared[s].default \in Modes \cup {"none"} /\ Declared[s].fixed \in Nat
  BY ExposureAssumption
<1>4. DefaultBinding(h, s) \in Bindings /\ DefaultBinding(h, s).mode # "none"
  <2> DEFINE p == AllocateAvailable(TakenForDefault(h, s, Declared[s].default), Declared[s].transport,
                                    AddressOf[Declared[s].default])
  <2>0. p \in Ports \cup {0}
    BY AllocatedPort
  <2> HIDE DEF p
  <2>1. p \in Nat
    BY <2>0, ExposureAssumption
  <2> QED
    BY <2>1, <1>3 DEF p, DefaultBinding, Bindings, Modes
<1>5. CASE api[h].kind = "expose" /\ api[h].target = s
  <2>1. api[h].mode \in Modes /\ api[h].port \in Nat
    BY <1>1, <1>5 DEF HandlersSound, Sound, HandlerStates
  <2> QED
    BY <2>1, <1>3, <1>5 DEF Binding, Bindings, Modes, NoRow
<1>6. CASE ~(api[h].kind = "expose" /\ api[h].target = s)
  BY <1>4, <1>6 DEF Binding, NoRow
<1> QED
  BY <1>5, <1>6

-----------------------------------------------------------------------------
(* Steps of one handler that leave rows and helper alone.                  *)

Counted == used' \in [faults : Nat, requests : Nat]

\* A request is counted, and so is a fault.
LEMMA StepsCounted ==
    ASSUME TypeOK
    PROVE  /\ Fault => Counted
           /\ \A what \in {"faults", "requests"} : Spend(what) => Counted
           /\ UNCHANGED used => Counted
BY DEF TypeOK, Fault, Spend, Counted

\* A handler goes on to a state that is sound and in step with the rows.
LEMMA HandlerMoves ==
    ASSUME IndInv, NEW h \in Handlers, NEW n \in HandlerStates,
           api' = [api EXCEPT ![h] = n], UNCHANGED <<row, held, outside, owed, overtaken>>, Counted,
           raced' \in BOOLEAN, Sound(n), overtaken \/ InStep(n)
    PROVE  /\ TypeOK' /\ RowsFollow' /\ ResultsFollow' /\ HandlersSound' /\ NotOvertaken'
           /\ api'[h] = n /\ \A x \in Handlers : x # h => api'[x] = api[x]
<1>1. api' \in [Handlers -> HandlerStates] /\ api'[h] = n
      /\ \A x \in Handlers : x # h => api'[x] = api[x]
  BY DEF IndInv, TypeOK
<1>2. TypeOK'
  BY <1>1 DEF IndInv, TypeOK, Counted
<1>3. RowsFollow' /\ ResultsFollow'
  BY DEF IndInv, RowsFollow, ResultsFollow
<1>4. HandlersSound'
  <2> SUFFICES ASSUME NEW x \in Handlers PROVE Sound(api[x])'
    BY DEF HandlersSound
  <2>1. Sound(api'[x])
    BY <1>1 DEF IndInv, HandlersSound
  <2> QED
    BY <2>1 DEF Sound
<1>5. NotOvertaken'
  <2> SUFFICES ASSUME ~overtaken PROVE NotOvertaken'
    BY DEF NotOvertaken
  <2>1. ASSUME NEW x \in Handlers PROVE InStep(api'[x])
    BY <1>1 DEF IndInv, NotOvertaken
  <2>2. ASSUME NEW x \in Handlers PROVE InStep(api[x])'
    BY <2>1 DEF InStep
  <2> QED
    BY <2>2 DEF IndInv, NotOvertaken
<1> QED
  BY <1>1, <1>2, <1>3, <1>4, <1>5

\* So it does before its ports are checked, after they are, and when it gives up.
LEMMA HandlerMovesApart ==
    ASSUME IndInv, NEW h \in Handlers, NEW n \in HandlerStates,
           api' = [api EXCEPT ![h] = n], UNCHANGED <<row, held, outside, owed, ghosts>>, Counted,
           Sound(n), overtaken \/ InStep(n),
           n.pc \in Checked \cup {"project"} =>
             /\ api[h].pc \in Checked /\ n.pc \in Checked
             /\ n.i = api[h].i /\ n.at = api[h].at
    PROVE  IndInv'
<1>1. raced' \in BOOLEAN /\ raced' = raced /\ overtaken' = overtaken /\ held' = held
  BY DEF IndInv, TypeOK, ghosts
<1>2. /\ TypeOK' /\ RowsFollow' /\ ResultsFollow' /\ HandlersSound' /\ NotOvertaken'
      /\ api'[h] = n /\ \A x \in Handlers : x # h => api'[x] = api[x]
  BY <1>1, HandlerMoves DEF ghosts
<1>3. OneAtATime'
  BY <1>1, <1>2 DEF IndInv, OneAtATime
<1>4. StillFree'
  BY <1>1, <1>2 DEF IndInv, StillFree
<1>5. ReservedOnce'
  BY <1>1 DEF IndInv, ReservedOnce
<1> QED
  BY <1>2, <1>3, <1>4, <1>5 DEF IndInv

\* A handler gives up.
LEMMA HandlerLeaves ==
    ASSUME IndInv, NEW h \in Handlers, Leave(h), UNCHANGED <<row, held, outside, owed, ghosts>>, Counted
    PROVE  IndInv'
BY HandlerMovesApart, IdleTyped, IdleSound DEF Leave, Checked

\* A handler that begins with the generation after the one in the row is in step.
LEMMA BuildsNext ==
    ASSUME IndInv, NEW h \in Handlers, NEW i \in Installations, row[i].exists,
           NEW kind \in {"recreate", "update", "expose"}, NEW target \in Services \cup {0},
           NEW mode \in Modes \cup {"none"}, NEW port \in Nat, kind = "expose" => mode \in Modes,
           Build(h, i, kind, target, row[i].gen + 1, mode, port),
           UNCHANGED <<row, held, outside, owed, ghosts>>, Counted
    PROVE  IndInv'
<1>1. row[i].gen \in Nat /\ held[i].gen \in Nat /\ row[i].gen <= held[i].gen /\ row[i].gen + 1 \in Nat
  BY DEF IndInv, TypeOK, RowsFollow
<1>2. PICK n \in HandlerStates :
        /\ api' = [api EXCEPT ![h] = n] /\ n.pc = "build" /\ n.kind = kind /\ n.i = i
        /\ n.mode = mode /\ n.gen = row[i].gen + 1 /\ n.todo = Services
  <2>1. PICK n : n = [Idle EXCEPT !.pc = "build", !.kind = kind, !.i = i, !.target = target,
                         !.gen = row[i].gen + 1, !.mode = mode, !.port = port, !.todo = Services]
    OBVIOUS
  <2>2. n \in HandlerStates /\ n.pc = "build" /\ n.kind = kind /\ n.i = i
        /\ n.mode = mode /\ n.gen = row[i].gen + 1 /\ n.todo = Services
    BY <2>1, <1>1, NoRowsTyped DEF Idle, HandlerStates
  <2>3. api' = [api EXCEPT ![h] = n]
    BY <2>1 DEF Build
  <2> QED
    BY <2>2, <2>3
<1>3. Sound(n) /\ InStep(n)
  BY <1>1, <1>2 DEF Sound, InStep, Building, Checked
<1> QED
  BY <1>2, <1>3, HandlerMovesApart DEF Checked

-----------------------------------------------------------------------------
(* A request arrives.                                                      *)

\* Recreate and update.
LEMMA ReplaceKeeps ==
    ASSUME IndInv, NEW h \in Handlers, NEW i \in Installations, NEW kind \in {"recreate", "update"},
           Replace(h, i, kind)
    PROVE  IndInv'
<1>1. Counted
  BY StepsCounted DEF IndInv, Replace, Request
<1> QED
  BY <1>1, BuildsNext DEF Replace, inApi

\* A first installation: the row exists from now on, with generation 0.
LEMMA InstallKeeps ==
    ASSUME IndInv, NEW h \in Handlers, NEW i \in Installations, Install(h, i)
    PROVE  IndInv'
<1>1. /\ ~row[i].exists /\ row' = [row EXCEPT ![i].exists = TRUE]
      /\ Build(h, i, "install", 0, 1, "none", 0)
      /\ UNCHANGED <<held, outside, owed, overtaken, raced>> /\ Counted
  BY StepsCounted DEF IndInv, Install, Request, ghosts
<1>2. PICK n \in HandlerStates :
        /\ api' = [api EXCEPT ![h] = n] /\ n.pc = "build" /\ n.kind = "install" /\ n.i = i
        /\ n.mode = "none" /\ n.gen = 1 /\ n.todo = Services
  <2>1. PICK n : n = [Idle EXCEPT !.pc = "build", !.kind = "install", !.i = i, !.target = 0,
                         !.gen = 1, !.mode = "none", !.port = 0, !.todo = Services]
    OBVIOUS
  <2>2. n \in HandlerStates /\ n.pc = "build" /\ n.kind = "install" /\ n.i = i
        /\ n.mode = "none" /\ n.gen = 1 /\ n.todo = Services
    BY <2>1, NoRowsTyped DEF Idle, HandlerStates
  <2>3. api' = [api EXCEPT ![h] = n]
    BY <2>1, <1>1 DEF Build
  <2> QED
    BY <2>2, <2>3
<1>3. /\ row' \in [Installations -> [exists : BOOLEAN, gen : Nat, at : [Services -> Bindings]]]
      /\ \A j \in Installations : /\ row'[j].gen = row[j].gen /\ row'[j].at = row[j].at
                                  /\ row[j].exists => row'[j].exists
      /\ row'[i].exists
  BY <1>1 DEF IndInv, TypeOK
<1>4. /\ api' \in [Handlers -> HandlerStates] /\ api'[h] = n
      /\ \A x \in Handlers : x # h => api'[x] = api[x]
  BY <1>2 DEF IndInv, TypeOK
<1>5. row[i].gen = 0 /\ held[i].gen = 0
  BY <1>1 DEF IndInv, TypeOK, RowsFollow
<1>6. TypeOK'
  BY <1>1, <1>3, <1>4 DEF IndInv, TypeOK, Counted
<1>7. RowsFollow'
  BY <1>1, <1>3 DEF IndInv, RowsFollow
<1>8. ResultsFollow'
  BY <1>1 DEF IndInv, ResultsFollow
<1>9. HandlersSound'
  <2> SUFFICES ASSUME NEW x \in Handlers PROVE Sound(api[x])'
    BY DEF HandlersSound
  <2>1. CASE x = h
    BY <2>1, <1>1, <1>2, <1>3, <1>4, <1>5 DEF Sound, Building, Checked
  <2>2. CASE x # h
    <3>1. Sound(api[x])
      BY DEF IndInv, HandlersSound
    <3> QED
      BY <3>1, <2>2, <1>1, <1>3, <1>4 DEF Sound
  <2> QED
    BY <2>1, <2>2
<1>10. NotOvertaken'
  <2> SUFFICES ASSUME ~overtaken PROVE NotOvertaken'
    BY <1>1 DEF NotOvertaken
  <2>1. ASSUME NEW x \in Handlers PROVE InStep(api[x])'
    <3>1. CASE x = h
      BY <3>1, <1>1, <1>2, <1>3, <1>4, <1>5 DEF InStep, Building
    <3>2. CASE x # h
      <4>1. InStep(api[x]) /\ Sound(api[x]) /\ api[x] \in HandlerStates
        BY DEF IndInv, NotOvertaken, HandlersSound, TypeOK
      <4>2. api[x].kind = "install" \/ api[x].pc \in Building \cup {"project"} =>
              api[x].i \in Installations
        BY <4>1 DEF Sound, Building, HandlerStates
      <4> QED
        BY <4>1, <4>2, <3>2, <1>1, <1>3, <1>4 DEF InStep
    <3> QED
      BY <3>1, <3>2
  <2>2. ASSUME NEW j \in Installations, row'[j].gen < held'[j].gen
        PROVE  [i |-> j, gen |-> held'[j].gen, at |-> held'[j].at] \in owed'
    BY <2>2, <1>1, <1>3 DEF IndInv, NotOvertaken
  <2> QED
    BY <2>1, <2>2 DEF NotOvertaken
<1>11. OneAtATime' /\ StillFree' /\ ReservedOnce'
  BY <1>1, <1>2, <1>4 DEF IndInv, OneAtATime, StillFree, ReservedOnce, Checked
<1> QED
  BY <1>6, <1>7, <1>8, <1>9, <1>10, <1>11 DEF IndInv

\* The exposure endpoint.
LEMMA ExposeKeeps ==
    ASSUME IndInv, NEW h \in Handlers, NEW i \in Installations, NEW s \in Services, NEW mode \in Modes,
           Expose(h, i, s, mode)
    PROVE  IndInv'
<1>1. PICK p : p = IF mode # "internal" /\ Declared[s].fixed # 0 THEN Declared[s].fixed
                   ELSE row[i].at[s].port
  OBVIOUS
<1>2. p \in Nat
  <2>1. row[i].at[s] \in Bindings /\ Declared[s].fixed \in Nat
    BY ExposureAssumption DEF IndInv, TypeOK
  <2> QED
    BY <2>1, <1>1 DEF Bindings
<1>3. PICK n : n = [Idle EXCEPT !.kind = "expose", !.i = i, !.target = s, !.mode = mode, !.port = p,
                       !.pc = IF mode = "internal" \/ p # 0 THEN "begin" ELSE "allocate"]
  OBVIOUS
<1>4. /\ row[i].exists /\ api' = [api EXCEPT ![h] = n]
      /\ UNCHANGED <<row, held, outside, owed, ghosts>> /\ Counted
  BY <1>1, <1>3, StepsCounted DEF IndInv, Expose, Request, inApi
<1>5. /\ n \in HandlerStates /\ n.pc \in {"begin", "allocate"} /\ n.kind = "expose" /\ n.i = i
      /\ n.mode = mode
  BY <1>2, <1>3, NoRowsTyped DEF Idle, HandlerStates
<1>6. Sound(n) /\ InStep(n)
  BY <1>4, <1>5 DEF Sound, InStep, Building, Checked
<1> QED
  BY <1>4, <1>5, <1>6, HandlerMovesApart DEF Checked

\* The port of the exposure endpoint.
LEMMA AllocateKeeps ==
    ASSUME IndInv, NEW h \in Handlers, Allocate(h)
    PROVE  IndInv'
<1>1. PICK p : p = AllocateAvailable(TakenByRows(h, api[h].target), Declared[api[h].target].transport,
                                     AddressOf[api[h].mode])
  OBVIOUS
<1>2. p \in Nat
  <2>1. p \in Ports \cup {0}
    BY <1>1, AllocatedPort
  <2> QED
    BY <2>1, ExposureAssumption
<1>3. /\ api[h].pc = "allocate" /\ UNCHANGED <<row, held, outside, owed, ghosts>> /\ Counted
      /\ Leave(h) \/ api' = [api EXCEPT ![h].pc = "begin", ![h].port = p]
  BY <1>1, StepsCounted DEF IndInv, Allocate, inApi
<1>4. CASE Leave(h)
  BY <1>3, <1>4, HandlerLeaves
<1>5. CASE api' = [api EXCEPT ![h].pc = "begin", ![h].port = p]
  <2>1. PICK n : n = [api[h] EXCEPT !.pc = "begin", !.port = p]
    OBVIOUS
  <2>2. api[h] \in HandlerStates /\ Sound(api[h]) /\ (overtaken \/ InStep(api[h]))
    BY DEF IndInv, TypeOK, HandlersSound, NotOvertaken
  <2>3. /\ n \in HandlerStates /\ n.pc = "begin" /\ n.kind = api[h].kind /\ n.i = api[h].i
        /\ n.mode = api[h].mode
    BY <2>1, <2>2, <1>2 DEF HandlerStates
  <2>4. api' = [api EXCEPT ![h] = n]
    BY <2>1, <2>2, <1>5 DEF IndInv, TypeOK, HandlerStates
  <2>5. Sound(n) /\ (overtaken \/ InStep(n))
    BY <2>2, <2>3, <1>3 DEF Sound, InStep, Building, Checked
  <2> QED
    BY <2>3, <2>4, <2>5, <1>3, HandlerMovesApart DEF Checked
<1> QED
  BY <1>3, <1>4, <1>5

\* The endpoint cannot read the port the service had.
LEMMA PortUnreadKeeps ==
    ASSUME IndInv, NEW h \in Handlers, PortUnread(h)
    PROVE  IndInv'
<1>1. PICK p \in {"begin", "allocate"} :
        /\ api[h].pc = "begin" /\ UNCHANGED <<row, held, outside, owed, ghosts>> /\ Counted
        /\ api' = [api EXCEPT ![h].port = 0, ![h].pc = p]
  BY StepsCounted DEF IndInv, PortUnread, inApi
<1>2. api[h] \in HandlerStates /\ Sound(api[h]) /\ (overtaken \/ InStep(api[h]))
  BY DEF IndInv, TypeOK, HandlersSound, NotOvertaken
<1>3. PICK n : n = [api[h] EXCEPT !.port = 0, !.pc = p]
  OBVIOUS
<1>4. /\ n \in HandlerStates /\ n.pc = p /\ n.kind = api[h].kind /\ n.i = api[h].i
      /\ n.mode = api[h].mode
  BY <1>2, <1>3 DEF HandlerStates
<1>5. api' = [api EXCEPT ![h] = n]
  BY <1>1, <1>2, <1>3 DEF IndInv, TypeOK, HandlerStates
<1>6. Sound(n) /\ (overtaken \/ InStep(n))
  BY <1>1, <1>2, <1>4 DEF Sound, InStep, Building, Checked
<1> QED
  BY <1>1, <1>4, <1>5, <1>6, HandlerMovesApart DEF Checked

\* ops begins the change of exposure.
LEMMA BeginExposeKeeps ==
    ASSUME IndInv, NEW h \in Handlers, BeginExpose(h)
    PROVE  IndInv'
<1>1. /\ api[h].pc = "begin" /\ UNCHANGED <<row, held, outside, owed, ghosts>> /\ Counted
      /\ Build(h, api[h].i, "expose", api[h].target, row[api[h].i].gen + 1, api[h].mode, api[h].port)
  BY StepsCounted DEF IndInv, BeginExpose, inApi
<1>2. api[h] \in HandlerStates /\ Sound(api[h])
  BY DEF IndInv, TypeOK, HandlersSound
<1>3. /\ api[h].i \in Installations /\ row[api[h].i].exists /\ api[h].mode \in Modes
      /\ api[h].target \in Services \cup {0} /\ api[h].port \in Nat
      /\ api[h].mode \in Modes \cup {"none"} /\ "expose" \in {"recreate", "update", "expose"}
  BY <1>1, <1>2 DEF Sound, HandlerStates
<1> QED
  BY <1>1, <1>3, BuildsNext

-----------------------------------------------------------------------------
(* The bindings are built and checked.                                     *)

\* buildServiceBindings takes the next service, from its row unless that could not be
\* read.
LEMMA BindNextKeeps ==
    ASSUME IndInv, NEW h \in Handlers, api[h].pc = "build", api[h].todo # {}, NEW stored, NEW unread,
           BindNext(h, stored, unread), Counted,
           \/ stored = row[api[h].i].at[Min(api[h].todo)] /\ unread = {}
           \/ stored = NoRow /\ unread = {Min(api[h].todo)}
    PROVE  IndInv'
<1>1. PICK s : s = Min(api[h].todo)
  OBVIOUS
<1>2. PICK b : b = Binding(h, s, stored)
  OBVIOUS
<1>3. /\ api[h].pc = "build" /\ api[h].todo # {}
      /\ UNCHANGED <<row, held, outside, owed, ghosts>> /\ Counted
      /\ Leave(h) \/ api' = [api EXCEPT ![h].at[s] = b, ![h].todo = @ \ {s},
                                         ![h].unread = @ \cup unread]
  BY <1>1, <1>2 DEF BindNext, inApi
<1>4. api[h] \in HandlerStates /\ Sound(api[h]) /\ (overtaken \/ InStep(api[h]))
  BY DEF IndInv, TypeOK, HandlersSound, NotOvertaken
<1>5. s \in api[h].todo /\ s \in Services
  <2>1. api[h].todo \subseteq Services /\ api[h].todo \subseteq Nat
    BY <1>4, ExposureAssumption DEF HandlerStates
  <2> QED
    BY <2>1, <1>1, <1>3, MinIn
<1>6. /\ b \in Bindings /\ b # NoRow /\ unread \subseteq {s}
      /\ /\ row[api[h].i].at[s] # NoRow /\ ~(api[h].kind = "expose" /\ api[h].target = s)
         /\ s \notin unread
         => b = row[api[h].i].at[s]
  <2>1. api[h].i \in Installations /\ row[api[h].i].at[s] \in Bindings
    BY <1>3, <1>4, <1>5 DEF Sound, IndInv, TypeOK
  <2>2. stored \in Bindings
    BY <2>1, <1>1, NoRowsTyped
  <2>3. /\ b \in Bindings /\ b # NoRow
        /\ stored # NoRow /\ ~(api[h].kind = "expose" /\ api[h].target = s) => b = stored
    BY <2>2, <1>2, <1>3, <1>5, BindingTyped DEF IndInv
  <2> QED
    BY <2>3, <1>1
<1>7. CASE Leave(h)
  BY <1>3, <1>7, HandlerLeaves
<1>8. CASE api' = [api EXCEPT ![h].at[s] = b, ![h].todo = @ \ {s}, ![h].unread = @ \cup unread]
  <2>1. PICK n : n = [api[h] EXCEPT !.at = [@ EXCEPT ![s] = b], !.todo = @ \ {s}, !.unread = @ \cup unread]
    OBVIOUS
  <2>2. /\ n \in HandlerStates /\ n.pc = "build" /\ n.kind = api[h].kind /\ n.i = api[h].i
        /\ n.mode = api[h].mode /\ n.gen = api[h].gen /\ n.target = api[h].target
        /\ n.todo = api[h].todo \ {s} /\ n.at = [api[h].at EXCEPT ![s] = b]
        /\ n.unread = api[h].unread \cup unread
    BY <2>1, <1>3, <1>4, <1>5, <1>6 DEF HandlerStates
  <2>3. api' = [api EXCEPT ![h] = n]
    BY <2>1, <1>4, <1>8 DEF IndInv, TypeOK, HandlerStates
  <2>4. api[h].at \in [Services -> Bindings] /\ n.at[s] = b
        /\ \A t \in Services \ {s} : n.at[t] = api[h].at[t]
    BY <2>2, <1>4, <1>5 DEF HandlerStates
  <2>5. api[h].i \in Installations /\ row[api[h].i].exists
    BY <1>3, <1>4 DEF Sound
  <2>6. Sound(n)
    BY <2>2, <2>4, <1>3, <1>4, <1>6 DEF Sound, Building, Checked
  <2>7. ASSUME ~overtaken PROVE InStep(n)
    <3> DEFINE i == api[h].i
    <3>1. ASSUME n.gen = held[i].gen + 1, held[i].gen > 0, NEW t \in Services \ n.todo,
                 ~(n.kind = "expose" /\ n.target = t), t \notin n.unread
          PROVE  n.at[t] = held[i].at[t]
      <4>1. row[i].gen = held[i].gen /\ row[i].at = held[i].at /\ held[i].at[t] # NoRow
        BY <3>1, <2>2, <2>5, <2>7, <1>3, <1>4 DEF InStep, IndInv, RowsFollow, Building
      <4>2. CASE t = s
        BY <4>1, <4>2, <3>1, <2>2, <2>4, <1>6
      <4>3. CASE t # s
        BY <4>3, <3>1, <2>2, <2>4, <2>7, <1>3, <1>4 DEF InStep, Building
      <4> QED
        BY <4>2, <4>3
    <3> QED
      BY <3>1, <2>2, <2>7, <1>3, <1>4 DEF InStep, Building
  <2> QED
    BY <2>2, <2>3, <2>6, <2>7, <1>3, HandlerMovesApart DEF Checked
<1> QED
  BY <1>3, <1>7, <1>8

\* The row of the service was read.
LEMMA BuildBindingKeeps ==
    ASSUME IndInv, NEW h \in Handlers, BuildBinding(h)
    PROVE  IndInv'
<1>1. Counted
  BY StepsCounted DEF IndInv, BuildBinding
<1> QED
  BY <1>1, BindNextKeeps DEF BuildBinding

\* It could not be read.
LEMMA BindingUnreadKeeps ==
    ASSUME IndInv, NEW h \in Handlers, BindingUnread(h)
    PROVE  IndInv'
<1>1. Counted
  BY StepsCounted DEF IndInv, BindingUnread
<1> QED
  BY <1>1, BindNextKeeps DEF BindingUnread

\* preflightBindings against the rows: unless the request raced, the rows of all the
\* others are those of what the helper holds.
LEMMA PreflightRowsKeeps ==
    ASSUME IndInv, NEW h \in Handlers, PreflightRows(h)
    PROVE  IndInv'
<1>1. /\ api[h].pc = "build" /\ api[h].todo = {}
      /\ UNCHANGED <<row, held, outside, owed, overtaken, used>>
      /\ raced' = (raced \/ Unprojected(h)) /\ Counted
  BY StepsCounted DEF IndInv, PreflightRows
<1>2. api[h] \in HandlerStates /\ Sound(api[h]) /\ (overtaken \/ InStep(api[h]))
  BY DEF IndInv, TypeOK, HandlersSound, NotOvertaken
<1>3. raced' \in BOOLEAN /\ (~raced' => ~raced /\ ~Unprojected(h))
  BY <1>1 DEF IndInv, TypeOK, Unprojected
<1>4. CASE Leave(h)
  <2>1. /\ TypeOK' /\ RowsFollow' /\ ResultsFollow' /\ HandlersSound' /\ NotOvertaken'
        /\ api'[h] = Idle /\ \A x \in Handlers : x # h => api'[x] = api[x]
    BY <1>1, <1>3, <1>4, HandlerMoves, IdleTyped, IdleSound DEF Leave
  <2>2. OneAtATime' /\ StillFree' /\ ReservedOnce'
    BY <2>1, <1>1, <1>3, IdleTyped DEF IndInv, OneAtATime, StillFree, ReservedOnce, Checked
  <2> QED
    BY <2>1, <2>2 DEF IndInv
<1>5. CASE ~Leave(h)
  <2> DEFINE i == api[h].i
  <2>1. PICK p \in {"send", "listeners"} :
          /\ ~Clash(Sockets(api[h].at), Reserved(i))
          /\ api' = [api EXCEPT ![h].pc = p, ![h].own = Sockets(row[i].at)]
    BY <1>5 DEF PreflightRows
  <2>2. i \in Installations /\ row[i].exists
    BY <1>1, <1>2 DEF Sound
  <2>3. PICK n : n = [api[h] EXCEPT !.pc = p, !.own = Sockets(row[i].at)]
    OBVIOUS
  <2>4. Sockets(row[i].at) \subseteq Endpoints
    <3>1. row[i].at \in [Services -> Bindings]
      BY <2>2 DEF IndInv, TypeOK
    <3> QED
      BY <3>1, SocketsTyped
  <2>5. /\ n \in HandlerStates /\ n.pc = p /\ n.kind = api[h].kind /\ n.i = i
        /\ n.mode = api[h].mode /\ n.gen = api[h].gen /\ n.target = api[h].target
        /\ n.todo = api[h].todo /\ n.at = api[h].at /\ n.unread = api[h].unread
    BY <2>1, <2>3, <2>4, <1>2 DEF HandlerStates
  <2>6. api' = [api EXCEPT ![h] = n]
    BY <2>1, <2>3, <1>2 DEF IndInv, TypeOK, HandlerStates
  <2>7. Sound(n) /\ (overtaken \/ InStep(n))
    BY <2>5, <1>1, <1>2 DEF Sound, InStep, Building, Checked
  <2>8. /\ TypeOK' /\ RowsFollow' /\ ResultsFollow' /\ HandlersSound' /\ NotOvertaken'
        /\ api'[h] = n /\ \A x \in Handlers : x # h => api'[x] = api[x]
    BY <2>5, <2>6, <2>7, <1>1, <1>3, HandlerMoves
  <2>9. ASSUME ~raced', NEW x \in Handlers \ {h}, api[x].pc \in Checked \cup {"project"}
        PROVE  api[x].i = i
    BY <2>9, <1>3 DEF Unprojected, Checked
  <2>10. OneAtATime'
    BY <2>5, <2>8, <2>9, <1>3 DEF IndInv, OneAtATime
  <2>11. ASSUME ~raced', ~overtaken, NEW j \in Installations \ {i}
         PROVE  ~Clash(Sockets(api[h].at), Sockets(held[j].at))
    <3>1. row[j].gen = held[j].gen
      <4>3. row[j].gen \in Nat /\ held[j].gen \in Nat /\ row[j].gen <= held[j].gen
        BY DEF IndInv, TypeOK, RowsFollow
      <4> SUFFICES ASSUME row[j].gen < held[j].gen PROVE FALSE
        BY <4>3
      <4>1. PICK r : r = [i |-> j, gen |-> held[j].gen, at |-> held[j].at]
        OBVIOUS
      <4>2. r \in owed /\ r.i = j /\ r.gen = held[j].gen
        BY <4>1, <2>11 DEF IndInv, NotOvertaken
      <4> QED
        BY <4>2, <2>11, <1>3 DEF Unprojected
    <3>2. row[j].at = held[j].at
      BY <3>1 DEF IndInv, RowsFollow
    <3>3. Sockets(held[j].at) \subseteq Reserved(i)
      BY <3>2 DEF Reserved
    <3> QED
      BY <3>3, <2>1, ClashWithPart
  <2>12. StillFree'
    <3> SUFFICES ASSUME ~raced', ~overtaken', NEW x \in Handlers, NEW j \in Installations,
                        api'[x].pc \in Checked, j # api'[x].i
                 PROVE  ~Clash(Sockets(api'[x].at), Sockets(held'[j].at))
      BY DEF StillFree
    <3>1. CASE x = h
      BY <3>1, <2>5, <2>8, <2>11, <1>1
    <3>2. CASE x # h
      BY <3>2, <2>8, <1>1, <1>3 DEF IndInv, StillFree
    <3> QED
      BY <3>1, <3>2
  <2>13. ReservedOnce'
    BY <1>1, <1>3 DEF IndInv, ReservedOnce
  <2> QED
    BY <2>8, <2>10, <2>12, <2>13 DEF IndInv
<1> QED
  BY <1>4, <1>5

\* preflightBindings against the host.
LEMMA PreflightListenersKeeps ==
    ASSUME IndInv, NEW h \in Handlers, PreflightListeners(h)
    PROVE  IndInv'
<1>1. /\ api[h].pc = "listeners" /\ UNCHANGED <<row, held, outside, owed, ghosts>> /\ Counted
      /\ Leave(h) \/ Goto(h, "send")
  BY StepsCounted DEF IndInv, PreflightListeners, inApi
<1>2. api[h] \in HandlerStates /\ Sound(api[h]) /\ (overtaken \/ InStep(api[h]))
  BY DEF IndInv, TypeOK, HandlersSound, NotOvertaken
<1>3. CASE Leave(h)
  BY <1>1, <1>3, HandlerLeaves
<1>4. CASE Goto(h, "send")
  <2>1. PICK n : n = [api[h] EXCEPT !.pc = "send"]
    OBVIOUS
  <2>2. /\ n \in HandlerStates /\ n.pc = "send" /\ n.kind = api[h].kind /\ n.i = api[h].i
        /\ n.mode = api[h].mode /\ n.gen = api[h].gen /\ n.target = api[h].target
        /\ n.todo = api[h].todo /\ n.at = api[h].at /\ n.unread = api[h].unread
    BY <2>1, <1>2 DEF HandlerStates
  <2>3. api' = [api EXCEPT ![h] = n]
    BY <2>1, <1>2, <1>4 DEF Goto, IndInv, TypeOK, HandlerStates
  <2>4. Sound(n) /\ (overtaken \/ InStep(n))
    BY <2>2, <1>1, <1>2 DEF Sound, InStep, Building, Checked
  <2> QED
    BY <2>2, <2>3, <2>4, <1>1, HandlerMovesApart DEF Checked
<1> QED
  BY <1>1, <1>3, <1>4

\* A handler gives up, wherever it is.
LEMMA GiveUpKeeps ==
    ASSUME IndInv, NEW h \in Handlers, GiveUp(h)
    PROVE  IndInv'
<1>1. Counted
  BY StepsCounted DEF IndInv, GiveUp
<1> QED
  BY <1>1, HandlerLeaves DEF GiveUp, inApi

-----------------------------------------------------------------------------
(* The helper replaces the generation.                                     *)

\* A replacement keeps rows and results behind what the helper holds.
LEMMA HelperReplacesKeeps ==
    ASSUME IndInv, NEW h \in Handlers, HelperReplaces(h)
    PROVE  IndInv'
<1> DEFINE i == api[h].i
<1>1. /\ api[h].pc = "send" /\ api[h].gen = held[i].gen + 1
      /\ held' = [held EXCEPT ![i] = [gen |-> api[h].gen, state |-> "running", at |-> api[h].at]]
      /\ owed' = owed \cup {[i |-> i, gen |-> api[h].gen, at |-> api[h].at]}
      /\ api' = [api EXCEPT ![h].pc = "project"]
      /\ UNCHANGED <<row, outside, overtaken, raced, used>>
  BY DEF HelperReplaces, TrustedRecreation, Goto, ghosts
<1>2. api[h] \in HandlerStates /\ Sound(api[h]) /\ (overtaken \/ InStep(api[h]))
  BY DEF IndInv, TypeOK, HandlersSound, NotOvertaken
<1>3. /\ i \in Installations /\ row[i].exists /\ api[h].todo = {} /\ api[h].gen \in Nat
      /\ api[h].at \in [Services -> Bindings] /\ \A s \in Services : api[h].at[s] # NoRow
  BY <1>1, <1>2 DEF Sound, Building, Checked, HandlerStates
<1>4. PICK n : n = [api[h] EXCEPT !.pc = "project"]
  OBVIOUS
<1>5. /\ n \in HandlerStates /\ n.pc = "project" /\ n.kind = api[h].kind /\ n.i = i
      /\ n.mode = api[h].mode /\ n.gen = api[h].gen /\ n.at = api[h].at
  BY <1>4, <1>2 DEF HandlerStates
<1>6. /\ api' \in [Handlers -> HandlerStates] /\ api'[h] = n
      /\ \A x \in Handlers : x # h => api'[x] = api[x]
  BY <1>1, <1>2, <1>4, <1>5 DEF IndInv, TypeOK, HandlerStates
<1>7. /\ held' \in [Installations -> [gen : Nat, at : [Services -> Bindings],
                                      state : {"none", "running", "stopped", "removed"}]]
      /\ held'[i].gen = held[i].gen + 1 /\ held'[i].at = api[h].at
      /\ \A j \in Installations : j # i => held'[j] = held[j]
  BY <1>1, <1>3 DEF IndInv, TypeOK
<1>8. \A j \in Installations : row[j].gen \in Nat /\ held[j].gen \in Nat /\ row[j].gen <= held[j].gen
  BY DEF IndInv, TypeOK, RowsFollow
<1>9. PICK r : r = [i |-> i, gen |-> api[h].gen, at |-> api[h].at]
  OBVIOUS
<1>10. /\ r \in [i : Installations, gen : Nat, at : [Services -> Bindings]]
       /\ r.i = i /\ r.gen = api[h].gen /\ r.at = api[h].at /\ owed' = owed \cup {r}
  BY <1>1, <1>3, <1>9
<1>11. TypeOK'
  BY <1>1, <1>6, <1>7, <1>10 DEF IndInv, TypeOK
<1>12. RowsFollow'
  <2> SUFFICES ASSUME NEW j \in Installations
               PROVE  /\ row[j].gen <= held'[j].gen
                      /\ row[j].gen = held'[j].gen => row[j].at = held'[j].at
                      /\ ~row[j].exists => held'[j].gen = 0
                      /\ held'[j].gen > 0 => \A s \in Services : held'[j].at[s] # NoRow
    BY <1>1 DEF RowsFollow
  <2>1. CASE j = i
    BY <2>1, <1>3, <1>7, <1>8
  <2>2. CASE j # i
    BY <2>2, <1>7 DEF IndInv, RowsFollow
  <2> QED
    BY <2>1, <2>2
<1>13. ResultsFollow'
  <2> SUFFICES ASSUME NEW q \in owed'
               PROVE  /\ q.gen <= held'[q.i].gen
                      /\ q.gen = held'[q.i].gen => q.at = held'[q.i].at
    BY DEF ResultsFollow
  <2>1. CASE q = r
    BY <2>1, <1>1, <1>3, <1>7, <1>8, <1>10
  <2>2. CASE q \in owed
    <3>1. q.gen \in Nat /\ q.i \in Installations /\ q.gen <= held[q.i].gen
      BY <2>2 DEF IndInv, TypeOK, ResultsFollow
    <3>2. CASE q.i = i
      BY <3>1, <3>2, <1>7, <1>8
    <3>3. CASE q.i # i
      BY <3>1, <3>3, <2>2, <1>7 DEF IndInv, ResultsFollow
    <3> QED
      BY <3>2, <3>3
  <2> QED
    BY <2>1, <2>2, <1>10
<1>14. HandlersSound'
  <2> SUFFICES ASSUME NEW x \in Handlers PROVE Sound(api[x])'
    BY DEF HandlersSound
  <2>1. CASE x = h
    BY <2>1, <1>1, <1>2, <1>3, <1>5, <1>6, <1>7, <1>8 DEF Sound, Building, Checked
  <2>2. CASE x # h
    <3>1. Sound(api[x]) /\ api[x] \in HandlerStates /\ api'[x] = api[x] /\ api[x].gen \in Nat
      BY <2>2, <1>6 DEF IndInv, HandlersSound, TypeOK, HandlerStates
    <3>2. CASE api[x].i = i
      BY <3>1, <3>2, <1>1, <1>3, <1>7, <1>8 DEF Sound, Building, Checked
    <3>3. CASE api[x].i # i
      BY <3>1, <3>3, <1>1, <1>7 DEF Sound, Building, Checked
    <3> QED
      BY <3>2, <3>3
  <2> QED
    BY <2>1, <2>2
<1>15. NotOvertaken'
  <2> SUFFICES ASSUME ~overtaken PROVE NotOvertaken'
    BY <1>1 DEF NotOvertaken
  <2>1. ASSUME NEW x \in Handlers PROVE InStep(api[x])'
    <3>1. CASE x = h
      BY <3>1, <1>1, <1>2, <1>3, <1>5, <1>6, <1>7, <1>8 DEF InStep, Building
    <3>2. CASE x # h
      <4>1. /\ InStep(api[x]) /\ Sound(api[x]) /\ api[x] \in HandlerStates /\ api'[x] = api[x]
            /\ api[x].gen \in Nat
        BY <3>2, <1>6 DEF IndInv, NotOvertaken, HandlersSound, TypeOK, HandlerStates
      <4>2. CASE api[x].i # i
        <5>1. api[x].pc # "idle" => api[x].i \in Installations
          BY <4>1 DEF Sound
        <5> QED
          BY <5>1, <4>1, <4>2, <1>1, <1>7 DEF InStep, Building
      <4>3. CASE api[x].i = i
        <5>1. api[x].pc # "project"
          <6> SUFFICES ASSUME api[x].pc = "project" PROVE FALSE
            OBVIOUS
          <6>1. row[i].gen < held[i].gen
            BY <4>1, <4>3 DEF InStep
          <6>2. row[i].gen = held[i].gen
            BY <1>1, <1>2 DEF InStep, Building
          <6> QED
            BY <6>1, <6>2, <1>3, <1>8
        <5>2. api[x].pc \in Building => api[x].gen # held'[i].gen + 1
          BY <4>1, <4>3, <1>3, <1>7, <1>8 DEF Sound
        <5>3. api[x].kind = "install" => row'[i].gen = 0
          BY <4>1, <4>3, <1>1 DEF InStep
        <5> QED
          BY <5>1, <5>2, <5>3, <4>1, <4>3 DEF InStep
      <4> QED
        BY <4>2, <4>3
    <3> QED
      BY <3>1, <3>2
  <2>2. ASSUME NEW j \in Installations, row'[j].gen < held'[j].gen
        PROVE  [i |-> j, gen |-> held'[j].gen, at |-> held'[j].at] \in owed'
    <3>1. CASE j = i
      BY <3>1, <1>1, <1>7
    <3>2. CASE j # i
      BY <3>2, <2>2, <1>1, <1>7 DEF IndInv, NotOvertaken
    <3> QED
      BY <3>1, <3>2
  <2> QED
    BY <2>1, <2>2 DEF NotOvertaken
<1>16. OneAtATime'
  BY <1>1, <1>5, <1>6 DEF IndInv, OneAtATime, Checked
<1>17. StillFree'
  <2> SUFFICES ASSUME ~raced, ~overtaken, NEW x \in Handlers, NEW j \in Installations,
                      api'[x].pc \in Checked, j # api'[x].i
               PROVE  ~Clash(Sockets(api'[x].at), Sockets(held'[j].at))
    BY <1>1 DEF StillFree
  <2>1. x # h /\ api'[x] = api[x]
    BY <1>5, <1>6 DEF Checked
  <2>2. api[x].i = i
    BY <2>1, <1>1 DEF IndInv, OneAtATime, Checked
  <2>3. held'[j] = held[j]
    BY <2>1, <2>2, <1>7
  <2> QED
    BY <2>1, <2>3 DEF IndInv, StillFree
<1>18. ReservedOnce'
  <2> SUFFICES ASSUME ~raced, ~overtaken, NEW j \in Installations, NEW k \in Installations, j # k
               PROVE  ~Clash(Sockets(held'[j].at), Sockets(held'[k].at))
    BY <1>1 DEF ReservedOnce
  <2>1. ASSUME NEW m \in Installations, m # i
        PROVE  ~Clash(Sockets(held'[i].at), Sockets(held'[m].at))
    BY <2>1, <1>1, <1>7 DEF IndInv, StillFree, Checked
  <2>2. CASE j = i
    BY <2>1, <2>2
  <2>3. CASE k = i
    BY <2>1, <2>3, ClashSymmetric
  <2>4. CASE j # i /\ k # i
    BY <2>4, <1>7 DEF IndInv, ReservedOnce
  <2> QED
    BY <2>2, <2>3, <2>4
<1> QED
  BY <1>11, <1>12, <1>13, <1>14, <1>15, <1>16, <1>17, <1>18 DEF IndInv

\* Resetting one row's generation changes that field of that row and no other.
LEMMA GenReset ==
    ASSUME NEW i \in Installations, NEW new,
           NEW old \in [Installations -> [exists : BOOLEAN, gen : Nat, at : [Services -> Bindings]]],
           new = [old EXCEPT ![i] = [old[i] EXCEPT !.gen = 0]]
    PROVE  /\ new \in [Installations -> [exists : BOOLEAN, gen : Nat, at : [Services -> Bindings]]]
           /\ new[i].gen = 0 /\ new[i].at = old[i].at /\ new[i].exists = old[i].exists
           /\ \A j \in Installations : j # i => new[j] = old[j]
<1>1. old[i] \in [exists : BOOLEAN, gen : Nat, at : [Services -> Bindings]]
  OBVIOUS
<1>2. [old[i] EXCEPT !.gen = 0] \in [exists : BOOLEAN, gen : Nat, at : [Services -> Bindings]]
  BY <1>1
<1>3. new \in [Installations -> [exists : BOOLEAN, gen : Nat, at : [Services -> Bindings]]]
  BY <1>2
<1>4. new[i] = [old[i] EXCEPT !.gen = 0]
  OBVIOUS
<1> QED
  BY <1>1, <1>3, <1>4

\* The helper turns a request down or fails.  A first installation takes the row back
\* to generation 0, where it is unless it was overtaken.
LEMMA RefusedKeeps ==
    ASSUME IndInv, NEW h \in Handlers, api[h].pc = "send", Leave(h), Counted,
           row' = [row EXCEPT ![api[h].i].gen = IF api[h].kind = "install" THEN 0 ELSE @],
           UNCHANGED <<held, outside, owed, ghosts>>
    PROVE  IndInv'
<1> DEFINE i == api[h].i
<1>1. /\ i \in Installations /\ Sound(api[h])
      /\ UNCHANGED <<held, outside, owed, overtaken, raced>>
  BY DEF IndInv, HandlersSound, Sound, ghosts
<1>2. CASE ~overtaken \/ api[h].kind # "install"
  <2>1. api[h].kind = "install" => row[i].gen = 0
    BY <1>2 DEF IndInv, NotOvertaken, InStep
  <2>2. row' = row
    BY <2>1, <1>1 DEF IndInv, TypeOK
  <2> QED
    BY <2>2, <1>1, HandlerLeaves DEF ghosts
<1>3. CASE overtaken /\ api[h].kind = "install"
  <2>1. /\ row' \in [Installations -> [exists : BOOLEAN, gen : Nat, at : [Services -> Bindings]]]
        /\ row'[i].gen = 0 /\ row'[i].at = row[i].at /\ row'[i].exists = row[i].exists
        /\ \A j \in Installations : j # i => row'[j] = row[j]
    <3>1. row \in [Installations -> [exists : BOOLEAN, gen : Nat, at : [Services -> Bindings]]]
      BY DEF IndInv, TypeOK
    <3>2. row' = [row EXCEPT ![i] = [row[i] EXCEPT !.gen = 0]]
      BY <1>3
    <3> QED
      BY <3>1, <3>2, <1>1, GenReset
  <2>2. /\ api' \in [Handlers -> HandlerStates] /\ api'[h] = Idle
        /\ \A x \in Handlers : x # h => api'[x] = api[x]
    BY IdleTyped DEF IndInv, TypeOK, Leave
  <2>3. TypeOK'
    BY <2>1, <2>2, <1>1 DEF IndInv, TypeOK, Counted
  <2>4. RowsFollow'
    <3> SUFFICES ASSUME NEW j \in Installations
                 PROVE  /\ row'[j].gen <= held[j].gen
                        /\ row'[j].gen = held[j].gen => row'[j].at = held[j].at
                        /\ ~row'[j].exists => held[j].gen = 0
                        /\ held[j].gen > 0 => \A s \in Services : held[j].at[s] # NoRow
      BY <1>1 DEF RowsFollow
    <3>1. held[j].gen \in Nat /\ row[j].gen \in Nat /\ row[j].gen <= held[j].gen
      BY DEF IndInv, TypeOK, RowsFollow
    <3>2. CASE j = i
      BY <3>1, <3>2, <2>1 DEF IndInv, RowsFollow
    <3>3. CASE j # i
      BY <3>3, <2>1 DEF IndInv, RowsFollow
    <3> QED
      BY <3>2, <3>3
  <2>5. ResultsFollow'
    BY <1>1 DEF IndInv, ResultsFollow
  <2>6. HandlersSound'
    <3> SUFFICES ASSUME NEW x \in Handlers PROVE Sound(api[x])'
      BY DEF HandlersSound
    <3>1. Sound(api'[x])
      BY <2>2, IdleSound DEF IndInv, HandlersSound
    <3>2. \A j \in Installations : row[j].exists => row'[j].exists
      BY <2>1
    <3> QED
      BY <3>1, <3>2, <1>1 DEF Sound
  <2>7. NotOvertaken' /\ StillFree' /\ ReservedOnce'
    BY <1>1, <1>3 DEF NotOvertaken, StillFree, ReservedOnce
  <2>8. OneAtATime'
    BY <2>2, <1>1, IdleTyped DEF IndInv, OneAtATime, Checked
  <2> QED
    BY <2>3, <2>4, <2>5, <2>6, <2>7, <2>8 DEF IndInv
<1> QED
  BY <1>2, <1>3

\* validateTrustedRecreation or the runtime turns it down, or the call fails.
LEMMA HelperRefusesKeeps ==
    ASSUME IndInv, NEW h \in Handlers, HelperRefuses(h) \/ HelperFails(h)
    PROVE  IndInv'
<1>1. Counted
  BY StepsCounted DEF IndInv, HelperRefuses, HelperFails
<1> QED
  BY <1>1, RefusedKeeps DEF HelperRefuses, HelperFails

\* A result of the present generation is added, and its state may change.
LEMMA ResultAdded ==
    ASSUME IndInv, NEW i \in Installations, Counted, UNCHANGED <<row, outside, api, ghosts>>,
           held' \in [Installations -> [gen : Nat, at : [Services -> Bindings],
                                        state : {"none", "running", "stopped", "removed"}]],
           \A j \in Installations : held'[j].gen = held[j].gen /\ held'[j].at = held[j].at,
           owed' = owed \cup {[i |-> i, gen |-> held[i].gen, at |-> held[i].at]}
    PROVE  IndInv'
<1>1. UNCHANGED <<row, outside, api, overtaken, raced>>
  BY DEF ghosts
<1>2. PICK r : r = [i |-> i, gen |-> held[i].gen, at |-> held[i].at]
  OBVIOUS
<1>3. /\ r \in [i : Installations, gen : Nat, at : [Services -> Bindings]]
      /\ r.i = i /\ r.gen = held[i].gen /\ r.at = held[i].at /\ owed' = owed \cup {r}
  BY <1>2 DEF IndInv, TypeOK
<1>4. TypeOK'
  BY <1>1, <1>3 DEF IndInv, TypeOK, Counted
<1>5. RowsFollow'
  BY <1>1 DEF IndInv, RowsFollow
<1>6. ResultsFollow'
  <2> SUFFICES ASSUME NEW q \in owed'
               PROVE  /\ q.gen <= held'[q.i].gen
                      /\ q.gen = held'[q.i].gen => q.at = held'[q.i].at
    BY DEF ResultsFollow
  <2>1. CASE q = r
    BY <2>1, <1>3 DEF IndInv, TypeOK
  <2>2. CASE q \in owed
    BY <2>2 DEF IndInv, TypeOK, ResultsFollow
  <2> QED
    BY <2>1, <2>2, <1>3
<1>7. HandlersSound'
  <2> SUFFICES ASSUME NEW x \in Handlers PROVE Sound(api[x])'
    BY DEF HandlersSound
  <2>1. Sound(api[x])
    BY DEF IndInv, HandlersSound
  <2> QED
    BY <2>1, <1>1 DEF Sound, Building
<1>8. NotOvertaken'
  <2> SUFFICES ASSUME ~overtaken PROVE NotOvertaken'
    BY <1>1 DEF NotOvertaken
  <2>1. ASSUME NEW x \in Handlers PROVE InStep(api[x])'
    <3>1. InStep(api[x]) /\ Sound(api[x])
      BY DEF IndInv, NotOvertaken, HandlersSound
    <3>2. api[x].pc # "idle" => api[x].i \in Installations
      BY <3>1 DEF Sound
    <3> QED
      BY <3>1, <3>2, <1>1 DEF InStep, Building
  <2>2. ASSUME NEW j \in Installations, row'[j].gen < held'[j].gen
        PROVE  [i |-> j, gen |-> held'[j].gen, at |-> held'[j].at] \in owed'
    BY <2>2, <1>1 DEF IndInv, NotOvertaken
  <2> QED
    BY <2>1, <2>2 DEF NotOvertaken
<1>9. OneAtATime' /\ StillFree' /\ ReservedOnce'
  BY <1>1 DEF IndInv, OneAtATime, StillFree, ReservedOnce
<1> QED
  BY <1>4, <1>5, <1>6, <1>7, <1>8, <1>9 DEF IndInv

\* Start, stop and remove.
LEMMA OperateKeeps ==
    ASSUME IndInv, NEW i \in Installations, NEW action \in DOMAIN Operates, Operate(i, action)
    PROVE  IndInv'
<1>1. Operates[action] \in {"running", "stopped", "removed"}
  BY DEF Operates
<1>2. Counted /\ held' = [held EXCEPT ![i].state = Operates[action]]
      /\ UNCHANGED <<row, outside, api, ghosts>>
      /\ owed' = owed \cup {[i |-> i, gen |-> held[i].gen, at |-> held[i].at]}
  BY StepsCounted DEF IndInv, Operate
<1>3. /\ held' \in [Installations -> [gen : Nat, at : [Services -> Bindings],
                                      state : {"none", "running", "stopped", "removed"}]]
      /\ \A j \in Installations : held'[j].gen = held[j].gen /\ held'[j].at = held[j].at
  BY <1>1, <1>2 DEF IndInv, TypeOK
<1> QED
  BY <1>2, <1>3, ResultAdded

\* A reconciliation.
LEMMA ReconcileKeeps ==
    ASSUME IndInv, NEW i \in Installations, Reconcile(i)
    PROVE  IndInv'
<1>1. Counted /\ held' = held /\ UNCHANGED <<row, outside, api, ghosts>>
      /\ owed' = owed \cup {[i |-> i, gen |-> held[i].gen, at |-> held[i].at]}
  BY StepsCounted DEF IndInv, Reconcile
<1>2. held' \in [Installations -> [gen : Nat, at : [Services -> Bindings],
                                   state : {"none", "running", "stopped", "removed"}]]
  BY <1>1 DEF IndInv, TypeOK
<1> QED
  BY <1>1, <1>2, ResultAdded

-----------------------------------------------------------------------------
(* The result is projected.                                                *)

Results == [i : Installations, gen : Nat, at : [Services -> Bindings]]

\* A result that is behind what the helper holds is written to the rows.
LEMMA RowsWritten ==
    ASSUME IndInv, NEW r \in Results, row' = Projected(r), UNCHANGED held,
           r.gen <= held[r.i].gen, r.gen = held[r.i].gen => r.at = held[r.i].at
    PROVE  /\ row' \in [Installations -> [exists : BOOLEAN, gen : Nat, at : [Services -> Bindings]]]
           /\ row'[r.i].gen = r.gen /\ row'[r.i].at = r.at
           /\ \A j \in Installations : row'[j].exists = row[j].exists
           /\ \A j \in Installations : j # r.i => row'[j] = row[j]
           /\ RowsFollow'
<1>1. /\ row' \in [Installations -> [exists : BOOLEAN, gen : Nat, at : [Services -> Bindings]]]
      /\ row'[r.i].gen = r.gen /\ row'[r.i].at = r.at
      /\ \A j \in Installations : row'[j].exists = row[j].exists
      /\ \A j \in Installations : j # r.i => row'[j] = row[j]
  <2>1. /\ row \in [Installations -> [exists : BOOLEAN, gen : Nat, at : [Services -> Bindings]]]
        /\ r.i \in Installations /\ r.gen \in Nat /\ r.at \in [Services -> Bindings]
    BY DEF Results, IndInv, TypeOK
  <2>2. PICK n : n = [row[r.i] EXCEPT !.gen = r.gen, !.at = r.at]
    OBVIOUS
  <2>3. /\ n \in [exists : BOOLEAN, gen : Nat, at : [Services -> Bindings]]
        /\ n.gen = r.gen /\ n.at = r.at /\ n.exists = row[r.i].exists
    BY <2>1, <2>2
  <2>4. row' = [row EXCEPT ![r.i] = n]
    BY <2>1, <2>2 DEF Projected
  <2> QED
    BY <2>1, <2>3, <2>4
<1>2. RowsFollow'
  <2> SUFFICES ASSUME NEW j \in Installations
               PROVE  /\ row'[j].gen <= held[j].gen
                      /\ row'[j].gen = held[j].gen => row'[j].at = held[j].at
                      /\ ~row'[j].exists => held[j].gen = 0
                      /\ held[j].gen > 0 => \A s \in Services : held[j].at[s] # NoRow
    BY DEF RowsFollow
  <2>1. CASE j = r.i
    BY <2>1, <1>1 DEF IndInv, RowsFollow
  <2>2. CASE j # r.i
    BY <2>2, <1>1 DEF IndInv, RowsFollow
  <2> QED
    BY <2>1, <2>2
<1> QED
  BY <1>1, <1>2

\* A handler of another installation, or one that holds nothing and is not about to
\* replace the generation, does not mind.
LEMMA OthersInStep ==
    ASSUME IndInv, ~overtaken, NEW r \in Results, UNCHANGED held,
           row'[r.i].gen \in Nat,
           \A j \in Installations : j # r.i => row'[j] = row[j],
           row[r.i].gen = held[r.i].gen => row'[r.i].gen = held[r.i].gen,
           NEW x \in Handlers, x \notin Holding(r), api'[x] = api[x]
    PROVE  InStep(api[x])'
<1>1. InStep(api[x]) /\ Sound(api[x]) /\ api[x] \in HandlerStates
  BY DEF IndInv, NotOvertaken, HandlersSound, TypeOK
<1>2. api[x].pc # "idle" => api[x].i \in Installations
  BY <1>1 DEF Sound
<1>3. CASE api[x].i = r.i
  <2>1. api[x].pc # "project" /\ api[x].kind # "install"
    BY <1>3 DEF Holding
  <2> QED
    BY <2>1, <1>1, <1>3 DEF InStep, Building
<1>4. CASE api[x].i # r.i
  <2>1. api[x].pc = "idle" => api[x].kind # "install"
    BY <1>1 DEF Sound
  <2>2. api[x].pc # "idle" => row'[api[x].i] = row[api[x].i]
    BY <1>2, <1>4
  <2> QED
    BY <2>1, <2>2, <1>1 DEF InStep, Building
<1> QED
  BY <1>3, <1>4

\* Writing rows and leaving do not touch what handlers keep about the helper.
LEMMA SoundAfterWrite ==
    ASSUME IndInv, UNCHANGED held, \A j \in Installations : row'[j].exists = row[j].exists,
           \A x \in Handlers : api'[x] \in {api[x], Idle}
    PROVE  HandlersSound'
<1> SUFFICES ASSUME NEW x \in Handlers PROVE Sound(api[x])'
  BY DEF HandlersSound
<1>1. Sound(api'[x])
  BY IdleSound DEF IndInv, HandlersSound
<1> QED
  BY <1>1 DEF Sound

\* The handler projects its result, or cannot, and leaves.
LEMMA ProjectKeeps ==
    ASSUME IndInv, NEW h \in Handlers, Project(h)
    PROVE  IndInv'
<1>1. PICK r : r = Mine(h)
  OBVIOUS
<1>2. /\ api[h].pc = "project" /\ Leave(h) /\ UNCHANGED <<held, outside, raced, used>> /\ Counted
      /\ \/ row' = Projected(r) /\ owed' = owed \ {r}
         \/ UNCHANGED <<row, owed>>
      /\ overtaken' = (overtaken \/ Holding(r) # {h})
  BY <1>1, StepsCounted DEF IndInv, Project
<1>3. api[h] \in HandlerStates /\ Sound(api[h])
  BY DEF IndInv, TypeOK, HandlersSound
<1>4. /\ r \in Results /\ r.i = api[h].i /\ r.gen = api[h].gen /\ r.at = api[h].at
      /\ r.gen <= held[r.i].gen /\ (r.gen = held[r.i].gen => r.at = held[r.i].at)
  <2>1. api[h].i \in Installations
    BY <1>2, <1>3 DEF Sound
  <2>2. api[h].gen \in Nat /\ api[h].at \in [Services -> Bindings]
    BY <1>3 DEF HandlerStates
  <2>3. r \in Results /\ r.i = api[h].i /\ r.gen = api[h].gen /\ r.at = api[h].at
    BY <2>1, <2>2, <1>1 DEF Mine, Results
  <2> QED
    BY <2>3, <1>2, <1>3 DEF Sound
<1>5. /\ api' \in [Handlers -> HandlerStates] /\ api'[h] = Idle
      /\ \A x \in Handlers : x # h => api'[x] = api[x]
  BY <1>2, IdleTyped DEF IndInv, TypeOK, Leave
<1>6. overtaken' \in BOOLEAN /\ (~overtaken' => ~overtaken /\ Holding(r) = {h})
  BY <1>2 DEF IndInv, TypeOK
<1>7. OneAtATime' /\ StillFree' /\ ReservedOnce'
  BY <1>2, <1>5, <1>6, IdleTyped DEF IndInv, OneAtATime, StillFree, ReservedOnce, Checked
<1>8. CASE UNCHANGED <<row, owed>>
  <2>1. TypeOK'
    BY <1>2, <1>5, <1>6, <1>8 DEF IndInv, TypeOK, Counted
  <2>2. RowsFollow' /\ ResultsFollow'
    BY <1>2, <1>8 DEF IndInv, RowsFollow, ResultsFollow
  <2>3. HandlersSound'
    BY <1>2, <1>5, <1>8, SoundAfterWrite
  <2>4. NotOvertaken'
    <3> SUFFICES ASSUME ~overtaken PROVE NotOvertaken'
      BY <1>6 DEF NotOvertaken
    <3>1. ASSUME NEW x \in Handlers PROVE InStep(api'[x])
      BY <1>5, IdleSound DEF IndInv, NotOvertaken
    <3>2. ASSUME NEW x \in Handlers PROVE InStep(api[x])'
      BY <3>1, <1>2, <1>8 DEF InStep
    <3> QED
      BY <3>2, <1>2, <1>8 DEF IndInv, NotOvertaken
  <2> QED
    BY <2>1, <2>2, <2>3, <2>4, <1>7 DEF IndInv
<1>9. CASE row' = Projected(r) /\ owed' = owed \ {r}
  <2>1. /\ row' \in [Installations -> [exists : BOOLEAN, gen : Nat, at : [Services -> Bindings]]]
        /\ row'[r.i].gen = r.gen /\ row'[r.i].at = r.at
        /\ \A j \in Installations : row'[j].exists = row[j].exists
        /\ \A j \in Installations : j # r.i => row'[j] = row[j]
        /\ RowsFollow'
    BY <1>2, <1>4, <1>9, RowsWritten
  <2>2. TypeOK'
    BY <2>1, <1>2, <1>5, <1>6, <1>9 DEF IndInv, TypeOK, Counted
  <2>3. ResultsFollow'
    BY <1>2, <1>9 DEF IndInv, ResultsFollow
  <2>4. HandlersSound'
    BY <2>1, <1>2, <1>5, SoundAfterWrite
  <2>5. NotOvertaken'
    <3> SUFFICES ASSUME ~overtaken' PROVE NotOvertaken'
      BY DEF NotOvertaken
    <3>1. /\ ~overtaken /\ Holding(r) = {h} /\ InStep(api[h])
      BY <1>6 DEF IndInv, NotOvertaken
    <3>2. r.gen = held[r.i].gen /\ r.i \in Installations
      BY <3>1, <1>2, <1>4 DEF InStep, Results
    <3>3. ASSUME NEW x \in Handlers PROVE InStep(api[x])'
      <4>1. CASE x = h
        BY <4>1, <1>5, IdleTyped DEF InStep, Building
      <4>2. CASE x # h
        <5>1. x \notin Holding(r) /\ api'[x] = api[x] /\ row'[r.i].gen \in Nat /\ held' = held
          BY <4>2, <3>1, <2>1, <1>2, <1>4, <1>5 DEF Results
        <5>2. row'[r.i].gen = held[r.i].gen
          BY <3>2, <2>1
        <5> QED
          BY <5>1, <5>2, <3>1, <2>1, <1>4, OthersInStep
      <4> QED
        BY <4>1, <4>2
    <3>4. ASSUME NEW j \in Installations, row'[j].gen < held'[j].gen
          PROVE  [i |-> j, gen |-> held'[j].gen, at |-> held'[j].at] \in owed'
      <4>1. j # r.i
        BY <3>2, <3>4, <2>1, <1>2, <1>4 DEF Results
      <4>2. PICK q : q = [i |-> j, gen |-> held[j].gen, at |-> held[j].at]
        OBVIOUS
      <4>3. q \in owed
        BY <4>1, <4>2, <3>1, <3>4, <2>1, <1>2 DEF IndInv, NotOvertaken
      <4>4. q # r
        BY <4>1, <4>2
      <4> QED
        BY <4>2, <4>3, <4>4, <1>2, <1>9
    <3> QED
      BY <3>3, <3>4 DEF NotOvertaken
  <2> QED
    BY <2>1, <2>2, <2>3, <2>4, <2>5, <1>7 DEF IndInv
<1> QED
  BY <1>2, <1>8, <1>9

\* A result is settled later.
LEMMA SettleKeeps ==
    ASSUME IndInv, NEW r \in owed, Settle(r)
    PROVE  IndInv'
<1>1. /\ row[r.i].gen <= r.gen /\ row' = Projected(r) /\ owed' = owed \ {r}
      /\ overtaken' = (overtaken \/ Holding(r) # {})
      /\ UNCHANGED <<held, outside, api, raced, used>>
  BY DEF Settle
<1>2. /\ r \in Results /\ r.i \in Installations /\ r.gen \in Nat
      /\ r.gen <= held[r.i].gen /\ (r.gen = held[r.i].gen => r.at = held[r.i].at)
  BY DEF IndInv, TypeOK, Results, ResultsFollow
<1>3. overtaken' \in BOOLEAN /\ (~overtaken' => ~overtaken /\ Holding(r) = {})
  BY <1>1 DEF IndInv, TypeOK
<1>4. /\ row' \in [Installations -> [exists : BOOLEAN, gen : Nat, at : [Services -> Bindings]]]
      /\ row'[r.i].gen = r.gen /\ row'[r.i].at = r.at
      /\ \A j \in Installations : row'[j].exists = row[j].exists
      /\ \A j \in Installations : j # r.i => row'[j] = row[j]
      /\ RowsFollow'
  BY <1>1, <1>2, RowsWritten
<1>5. TypeOK'
  BY <1>1, <1>3, <1>4 DEF IndInv, TypeOK
<1>6. ResultsFollow'
  BY <1>1 DEF IndInv, ResultsFollow
<1>7. HandlersSound'
  BY <1>1, <1>4, SoundAfterWrite
<1>8. NotOvertaken'
  <2> SUFFICES ASSUME ~overtaken' PROVE NotOvertaken'
    BY DEF NotOvertaken
  <2>1. ~overtaken /\ Holding(r) = {}
    BY <1>3
  <2>2. \A j \in Installations : row[j].gen \in Nat /\ held[j].gen \in Nat
    BY DEF IndInv, TypeOK
  <2>3. row[r.i].gen = held[r.i].gen => row'[r.i].gen = held[r.i].gen
    <3>1. row[r.i].gen \in Nat /\ held[r.i].gen \in Nat
      BY <2>2, <1>2
    <3>2. row[r.i].gen = held[r.i].gen => r.gen = held[r.i].gen
      BY <3>1, <1>1, <1>2
    <3> QED
      BY <3>2, <1>4
  <2>4. ASSUME NEW x \in Handlers PROVE InStep(api[x])'
    <3>1. x \notin Holding(r) /\ api'[x] = api[x] /\ row'[r.i].gen \in Nat /\ held' = held
      BY <2>1, <1>1, <1>2, <1>4
    <3> QED
      BY <3>1, <2>1, <2>3, <1>2, <1>4, OthersInStep
  <2>5. ASSUME NEW j \in Installations, row'[j].gen < held'[j].gen
        PROVE  [i |-> j, gen |-> held'[j].gen, at |-> held'[j].at] \in owed'
    <3>1. PICK q : q = [i |-> j, gen |-> held[j].gen, at |-> held[j].at]
      OBVIOUS
    <3>2. row[j].gen < held[j].gen
      <4>1. CASE j = r.i
        BY <4>1, <2>2, <2>5, <1>1, <1>2, <1>4
      <4>2. CASE j # r.i
        BY <4>2, <2>5, <1>1, <1>4
      <4> QED
        BY <4>1, <4>2
    <3>3. q \in owed
      BY <3>1, <3>2, <2>1 DEF IndInv, NotOvertaken
    <3>4. q # r
      <4>1. CASE j = r.i
        BY <4>1, <3>1, <2>2, <2>5, <1>1, <1>2, <1>4
      <4>2. CASE j # r.i
        BY <4>2, <3>1
      <4> QED
        BY <4>1, <4>2
    <3> QED
      BY <3>1, <3>3, <3>4, <1>1
  <2> QED
    BY <2>4, <2>5 DEF NotOvertaken
<1>9. OneAtATime' /\ StillFree' /\ ReservedOnce'
  BY <1>1, <1>3 DEF IndInv, OneAtATime, StillFree, ReservedOnce
<1> QED
  BY <1>4, <1>5, <1>6, <1>7, <1>8, <1>9 DEF IndInv

\* Other processes of the host do not touch databases or handlers.
LEMMA HostKeeps ==
    ASSUME IndInv, HostOpens \/ HostCloses
    PROVE  IndInv'
<1>1. UNCHANGED <<row, held, api, owed, overtaken, raced>>
  BY DEF HostOpens, HostCloses, ghosts
<1>2. Counted
  BY StepsCounted DEF IndInv, HostOpens, HostCloses
<1>3. outside' \subseteq Endpoints
  <2>1. CASE HostCloses
    BY <2>1 DEF HostCloses
  <2>2. CASE HostOpens
    <3>1. PICK p \in Ports : outside' = {[transport |-> "tcp", address |-> "any", port |-> p]}
      BY <2>2 DEF HostOpens
    <3>2. p \in Nat
      BY ExposureAssumption
    <3> QED
      BY <3>1, <3>2 DEF Endpoints, Transports
  <2> QED
    BY <2>1, <2>2
<1>4. TypeOK'
  BY <1>1, <1>2, <1>3 DEF IndInv, TypeOK, Counted
<1>5. RowsFollow' /\ ResultsFollow'
  BY <1>1 DEF IndInv, RowsFollow, ResultsFollow
<1>6. HandlersSound' /\ NotOvertaken'
  BY <1>1 DEF IndInv, HandlersSound, Sound, NotOvertaken, InStep
<1>7. OneAtATime' /\ StillFree' /\ ReservedOnce'
  BY <1>1 DEF IndInv, OneAtATime, StillFree, ReservedOnce
<1> QED
  BY <1>4, <1>5, <1>6, <1>7 DEF IndInv

-----------------------------------------------------------------------------
(* The theorems.                                                           *)

\* At rest the rows are those of what the helper holds and no request is served.
LEMMA InitIsSound == Init => IndInv
<1> SUFFICES ASSUME Init PROVE IndInv
  OBVIOUS
<1>1. PICK start \in Starts :
        /\ row = [i \in Installations |-> [exists |-> start[i] # NoRows,
                    gen |-> IF start[i] = NoRows THEN 0 ELSE 1, at |-> start[i]]]
        /\ held = [i \in Installations |->
                    [gen |-> IF start[i] = NoRows THEN 0 ELSE 1, at |-> start[i],
                     state |-> IF (IF start[i] = NoRows THEN 0 ELSE 1) = 0 THEN "none" ELSE "running"]]
  BY DEF Init
<1>2. /\ outside = {} /\ owed = {} /\ overtaken = FALSE /\ raced = FALSE
      /\ api = [h \in Handlers |-> Idle] /\ used = [faults |-> 0, requests |-> 0]
  BY DEF Init
<1>3. /\ start \in [Installations -> [Services -> Bindings]]
      /\ \A i \in Installations : start[i] = NoRows \/ \A s \in Services : start[i][s].mode # "none"
      /\ \A i, j \in Installations : i # j => ~Clash(Sockets(start[i]), Sockets(start[j]))
  BY StartsAssumption
<1>4. TypeOK
  BY <1>1, <1>2, <1>3, IdleTyped DEF TypeOK
<1>5. RowsFollow
  <2> SUFFICES ASSUME NEW i \in Installations
               PROVE  /\ row[i].gen <= held[i].gen
                      /\ row[i].gen = held[i].gen => row[i].at = held[i].at
                      /\ ~row[i].exists => held[i].gen = 0
                      /\ held[i].gen > 0 => \A s \in Services : held[i].at[s] # NoRow
    BY DEF RowsFollow
  <2>1. /\ row[i].gen = held[i].gen /\ held[i].gen \in {0, 1} /\ held[i].at = start[i]
        /\ row[i].at = start[i]
    BY <1>1
  <2>3. row[i].exists = (start[i] # NoRows) /\ held[i].gen = IF start[i] = NoRows THEN 0 ELSE 1
    BY <1>1
  <2>2. start[i] # NoRows => \A s \in Services : start[i][s] # NoRow
    BY <1>3 DEF NoRow
  <2> QED
    <3>1. CASE start[i] = NoRows
      BY <3>1, <2>1, <2>3
    <3>2. CASE start[i] # NoRows
      <4>1. row[i].exists
        BY <3>2, <2>3
      <4> QED
        BY <4>1, <3>2, <2>1, <2>2
    <3> QED
      BY <3>1, <3>2
<1>6. ResultsFollow
  BY <1>2 DEF ResultsFollow
<1>7. HandlersSound
  BY <1>2, IdleSound DEF HandlersSound
<1>8. NotOvertaken
  <2>1. \A i \in Installations : row[i].gen = held[i].gen /\ row[i].gen \in Nat
    BY <1>1
  <2> QED
    BY <2>1, <1>2, IdleSound DEF NotOvertaken
<1>9. OneAtATime /\ StillFree
  BY <1>2, IdleTyped DEF OneAtATime, StillFree, Checked
<1>10. ReservedOnce
  <2>1. \A i \in Installations : held[i].at = start[i]
    BY <1>1
  <2> QED
    BY <2>1, <1>3 DEF ReservedOnce
<1> QED
  BY <1>4, <1>5, <1>6, <1>7, <1>8, <1>9, <1>10 DEF IndInv

\* Every step keeps the invariant.
LEMMA StepKeeps == IndInv /\ [Next]_vars => IndInv'
<1> SUFFICES ASSUME IndInv, [Next]_vars PROVE IndInv'
  OBVIOUS
<1>1. ASSUME NEW h \in Handlers, NEW i \in Installations, Arrive(h, i) PROVE IndInv'
  BY <1>1, InstallKeeps, ReplaceKeeps, ExposeKeeps DEF Arrive
<1>2. ASSUME NEW h \in Handlers, Serve(h) PROVE IndInv'
  BY <1>2, PortUnreadKeeps, AllocateKeeps, BeginExposeKeeps, BuildBindingKeeps, BindingUnreadKeeps,
     PreflightRowsKeeps, PreflightListenersKeeps, HelperReplacesKeeps, HelperRefusesKeeps,
     ProjectKeeps, GiveUpKeeps DEF Serve
<1>3. ASSUME NEW i \in Installations, Reconcile(i) \/ \E action \in DOMAIN Operates : Operate(i, action)
      PROVE  IndInv'
  BY <1>3, ReconcileKeeps, OperateKeeps
<1>4. CASE \E r \in owed : Settle(r)
  BY <1>4, SettleKeeps
<1>5. CASE HostOpens \/ HostCloses
  BY <1>5, HostKeeps
<1>6. CASE UNCHANGED vars
  <2>1. UNCHANGED <<row, held, outside, api, owed, overtaken, raced, used>>
    BY <1>6 DEF vars, ghosts
  <2>2. TypeOK' /\ RowsFollow' /\ ResultsFollow'
    BY <2>1 DEF IndInv, TypeOK, RowsFollow, ResultsFollow
  <2>3. HandlersSound' /\ NotOvertaken'
    BY <2>1 DEF IndInv, HandlersSound, Sound, NotOvertaken, InStep
  <2>4. OneAtATime' /\ StillFree' /\ ReservedOnce'
    BY <2>1 DEF IndInv, OneAtATime, StillFree, ReservedOnce
  <2> QED
    BY <2>2, <2>3, <2>4 DEF IndInv
<1> QED
  BY <1>1, <1>2, <1>3, <1>4, <1>5, <1>6 DEF Next

\* The invariant holds however the requests, the helper, the host and the faults
\* interleave.
THEOREM Invariance == Spec => []IndInv
BY InitIsSound, StepKeeps, PTL DEF Spec

\* Rows, generations, handlers and results keep their types.
THEOREM TypeCorrect == Spec => []TypeOK
<1>1. IndInv => TypeOK
  BY DEF IndInv
<1> QED
  BY <1>1, Invariance, PTL

\* No two installations hold the same host port, running or stopped, unless one was
\* checked while the ports of the other were on their way into the rows.
THEOREM PortsReserved == Spec => []ReservedOnce
<1>1. IndInv => ReservedOnce
  BY DEF IndInv
<1> QED
  BY <1>1, Invariance, PTL

\* What a replacement was asked for differs from the generation it replaces in no
\* service but its target and those whose row could not be read; of an application of
\* one component the helper compares these too.
LEMMA ReplacesOnlyTarget ==
    ASSUME IndInv, ~overtaken, NEW h \in Handlers, HelperReplaces(h), NEW i \in Installations,
           held[i].gen > 0, held'[i].gen # held[i].gen
    PROVE  /\ api[h].i = i /\ api'[h].pc = "project" /\ api[h].pc = "send"
           /\ \A s \in Services \ ({api[h].target} \cup Guessed(h)) : held'[i].at[s] = held[i].at[s]
<1>1. /\ api[h].pc = "send" /\ api[h].gen = held[api[h].i].gen + 1
      /\ held' = [held EXCEPT ![api[h].i] = [gen |-> api[h].gen, state |-> "running", at |-> api[h].at]]
      /\ api' = [api EXCEPT ![h].pc = "project"]
  BY DEF HelperReplaces, TrustedRecreation, Goto
<1>2. api[h] \in HandlerStates /\ Sound(api[h]) /\ InStep(api[h])
  BY DEF IndInv, TypeOK, HandlersSound, NotOvertaken
<1>3. api[h].i = i
  BY <1>1 DEF IndInv, TypeOK
<1>4. held'[i].at = api[h].at /\ api[h].todo = {}
  BY <1>1, <1>2, <1>3 DEF IndInv, TypeOK, Sound, Checked
<1>5. \A s \in Services \ ({api[h].target} \cup Guessed(h)) : api[h].at[s] = held[i].at[s]
  <2>1. CASE api[h].kind = "expose" \/ i \in Composite
    <3>1. Guessed(h) = api[h].unread
      BY <2>1, <1>3 DEF Guessed
    <3> QED
      BY <3>1, <1>1, <1>2, <1>3, <1>4 DEF InStep, Building
  <2>2. CASE ~(api[h].kind = "expose" \/ i \in Composite)
    <3>1. TrustedRecreation(h) /\ held[i].gen # 0
      BY DEF HelperReplaces, IndInv, TypeOK
    <3> QED
      BY <3>1, <2>2, <1>3 DEF TrustedRecreation
  <2> QED
    BY <2>1, <2>2
<1>6. api'[h].pc = "project"
  BY <1>1, <1>2 DEF IndInv, TypeOK, HandlerStates
<1> QED
  BY <1>1, <1>3, <1>4, <1>5, <1>6

\* No other step gives an installation another generation.
LEMMA OnlyReplaces ==
    ASSUME IndInv, [Next]_vars, NEW i \in Installations, held'[i].gen # held[i].gen
    PROVE  \E h \in Handlers : HelperReplaces(h)
<1> SUFFICES ASSUME \A h \in Handlers : ~HelperReplaces(h) PROVE held'[i].gen = held[i].gen
  OBVIOUS
<1>1. ASSUME NEW h \in Handlers, NEW j \in Installations, Arrive(h, j) PROVE held' = held
  BY <1>1 DEF Arrive, Install, Replace, Expose, inApi
<1>2. ASSUME NEW h \in Handlers, Serve(h) PROVE held' = held
  BY <1>2 DEF Serve, PortUnread, Allocate, BeginExpose, BuildBinding, BindingUnread, BindNext,
              PreflightRows, PreflightListeners, HelperRefuses, HelperFails, Project, GiveUp, inApi
<1>3. ASSUME NEW j \in Installations, Reconcile(j) PROVE held' = held
  BY <1>3 DEF Reconcile
<1>4. ASSUME NEW j \in Installations, NEW action \in DOMAIN Operates, Operate(j, action)
      PROVE  held'[i].gen = held[i].gen
  BY <1>4 DEF Operate, IndInv, TypeOK
<1>5. CASE \E r \in owed : Settle(r)
  BY <1>5 DEF Settle
<1>6. CASE HostOpens \/ HostCloses
  BY <1>6 DEF HostOpens, HostCloses
<1>7. CASE UNCHANGED vars
  BY <1>7 DEF vars
<1> QED
  BY <1>1, <1>2, <1>3, <1>4, <1>5, <1>6, <1>7 DEF Next

\* A generation the helper commits differs from the one before in no service but the
\* one the request was about and, where the helper does not compare, those whose row
\* could not be read: unless a projection was overtaken.
THEOREM OthersAreKept == Spec => OthersKept
<1>1. ASSUME IndInv, [Next]_vars, NEW i \in Installations,
             held[i].gen > 0, held'[i].gen # held[i].gen, ~overtaken
      PROVE  \E h \in Handlers :
               /\ api[h].i = i /\ api'[h].pc = "project" /\ api[h].pc = "send"
               /\ \A s \in Services \ ({api[h].target} \cup Guessed(h)) :
                    held'[i].at[s] = held[i].at[s]
  <2>1. PICK h \in Handlers : HelperReplaces(h)
    BY <1>1, OnlyReplaces
  <2> QED
    BY <2>1, <1>1, ReplacesOnlyTarget
<1>2. IndInv /\ [Next]_vars =>
        [\A i \in Installations :
           held[i].gen > 0 /\ held'[i].gen # held[i].gen /\ ~overtaken =>
             \E h \in Handlers :
               /\ api[h].i = i /\ api'[h].pc = "project" /\ api[h].pc = "send"
               /\ \A s \in Services \ ({api[h].target} \cup Guessed(h)) :
                    held'[i].at[s] = held[i].at[s]]_vars
  BY <1>1
<1> QED
  BY <1>2, Invariance, PTL DEF Spec, OthersKept
=============================================================================
