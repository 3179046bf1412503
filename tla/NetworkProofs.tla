---------------------------- MODULE NetworkProofs ---------------------------
(***************************************************************************)
(* Proofs about Network: the pool and the donation share the workers in    *)
(* turn, for all urls, jobs and bounds.                                    *)
(***************************************************************************)
EXTENDS Network, ClientProofs

(***************************************************************************)
(* Type correctness, together with the fact that a client whose buffer is  *)
(* being read has a socket.                                                *)
(***************************************************************************)
TypeInv == /\ TypeOK
           /\ reading # NoOwner => HasSocket(clients[reading])

\* The two owners are distinct from each other and from the marker NoOwner.
LEMMA OwnerFacts == /\ "pool" \in Owner /\ "donate" \in Owner /\ "pool" # "donate"
                    /\ NoOwner \notin Owner
BY NetworkAssumption DEF Owner

\* The initial state is well typed.
LEMMA InitTypeInv == Init => TypeInv
<1> SUFFICES ASSUME Init PROVE TypeInv
  OBVIOUS
<1>1. \A o \in Owner : Urls[o] \in Url
  BY NetworkAssumption
<1>2. clients \in [Owner -> Client]
  BY <1>1, NewClientType DEF Init
<1>3. work \in [owner : Owner \cup {NoOwner}, job : Jobs \cup {NoJob}]
  BY DEF Init, Work
<1>4. found \in [Owner -> 0 .. MaxFound]
  BY NetworkAssumption DEF Init
<1> QED BY <1>2, <1>3, <1>4 DEF Init, TypeInv, TypeOK

\* The job and the flags of the workers.
WorkersOK == /\ work \in [owner : Owner \cup {NoOwner}, job : Jobs \cup {NoJob}]
             /\ paused \in BOOLEAN /\ stray \in BOOLEAN

\* A job, a pause, or neither.
LEMMA WorkersType ==
    ASSUME TypeInv, NEW o \in Owner, NEW j \in Jobs \cup {NoJob},
           active' \in [Owner -> BOOLEAN],
           OnJob(o, j) \/ Pauses \/ UNCHANGED workers
    PROVE  WorkersOK'
<1>1. CASE work' = Work(o, j) /\ paused' = FALSE /\ stray' = ~active'[o]
  <2>1. stray' \in BOOLEAN
    BY <1>1
  <2> QED BY <1>1, <2>1 DEF Work, WorkersOK
<1>2. CASE Pauses
  BY <1>2 DEF Pauses, WorkersOK, TypeInv, TypeOK
<1>3. CASE UNCHANGED workers
  BY <1>3 DEF workers, WorkersOK, TypeInv, TypeOK
<1> QED BY <1>1, <1>2, <1>3 DEF OnJob

\* A step that replaces one client's record.
LEMMA OneClientType ==
    ASSUME TypeInv, NEW o \in Owner, NEW c \in Client,
           clients' = [clients EXCEPT ![o] = c],
           HasSocket(clients[o]) => HasSocket(c),
           active' \in [Owner -> BOOLEAN], timer' \in BOOLEAN, WorkersOK',
           found' \in [Owner -> 0 .. MaxFound],
           status' \in {"running", "stopped", "resolver", "socket", "sendbuf"},
           \/ reading' = reading
           \/ reading' = NoOwner
           \/ reading' = o /\ HasSocket(clients[o])
    PROVE  TypeInv'
BY OwnerFacts DEF TypeInv, TypeOK, HasSocket, WorkersOK

\* The same, for the steps that change nothing of the strategies and the workers.
LEMMA OnlyClientType ==
    ASSUME TypeInv, NEW o \in Owner, NEW c \in Client,
           clients' = [clients EXCEPT ![o] = c],
           HasSocket(clients[o]) => HasSocket(c),
           UNCHANGED <<active, timer, workers>>,
           found' \in [Owner -> 0 .. MaxFound],
           status' \in {"running", "stopped", "resolver", "socket", "sendbuf"},
           \/ reading' = reading
           \/ reading' = NoOwner
           \/ reading' = o /\ HasSocket(clients[o])
    PROVE  TypeInv'
<1>1. active' \in [Owner -> BOOLEAN] /\ timer' \in BOOLEAN /\ WorkersOK'
  BY DEF workers, WorkersOK, TypeInv, TypeOK
<1> QED BY <1>1, OneClientType

\* A close that is reported to the strategy.
LEMMA OnClosedType ==
    ASSUME TypeInv, reading = NoOwner, NEW o \in Owner, NEW c \in Client, OnClosed(o, c)
    PROVE  TypeInv'
<1>1. active' \in [Owner -> BOOLEAN]
  BY OwnerFacts DEF OnClosed, TypeInv, TypeOK
<1>2. WorkersOK'
  <2>1. Pauses \/ UNCHANGED workers
    BY DEF OnClosed
  <2> QED BY <1>1, <2>1, WorkersType
<1>3. /\ clients' = [clients EXCEPT ![o] = c]
      /\ timer' = timer /\ found' = found /\ reading' = NoOwner /\ status' = status
  BY DEF OnClosed
<1> QED BY <1>1, <1>2, <1>3, OwnerFacts DEF TypeInv, TypeOK, WorkersOK

\* Every callback keeps the state well typed.
LEMMA NextTypeInv == TypeInv /\ [Next]_vars => TypeInv'
<1> SUFFICES ASSUME TypeInv, [Next]_vars PROVE TypeInv'
  OBVIOUS
<1> USE OwnerFacts
<1>a. /\ clients \in [Owner -> Client] /\ \A o \in Owner : clients[o] \in Client
      /\ found \in [Owner -> 0 .. MaxFound]
      /\ status \in {"running", "stopped", "resolver", "socket", "sendbuf"}
      /\ active \in [Owner -> BOOLEAN] /\ timer \in BOOLEAN
  BY DEF TypeInv, TypeOK
<1>b. ASSUME NEW o \in Owner, ReadsLine(o)
      PROVE  HasSocket(clients[o]) /\ reading' \in {o, NoOwner}
  BY <1>b DEF ReadsLine, TypeInv, TypeOK, HasSocket
<1>1. CASE Connect
  <2>1. resolve(clients["pool"]) \in Client
        /\ resolve(clients["pool"]).socket = clients["pool"].socket
    BY <1>a, ResolveType
  <2> QED BY <1>1, <1>a, <2>1, OnlyClientType DEF Connect, Connects, HasSocket
<1>2. ASSUME NEW o \in Owner, ResolveFails(o) PROVE TypeInv'
  <2> DEFINE d == [clients[o] EXCEPT !.resolving = FALSE]
  <2>1. d \in Client
    BY <1>a DEF Client
  <2>2. OnClosed(o, reconnect(d)) /\ reading = NoOwner
    BY <1>2 DEF ResolveFails, Idle
  <2> HIDE DEF d
  <2> QED BY <2>1, <2>2, ReconnectType, OnClosedType
<1>3. ASSUME NEW o \in Owner, Resolved(o) PROVE TypeInv'
  <2> DEFINE d == [clients[o] EXCEPT !.resolving = FALSE]
  <2>1. d \in Client
    BY <1>a DEF Client
  <2>2. PICK b \in BOOLEAN :
          /\ clients' = [clients EXCEPT ![o] = connect(d, b)] /\ reading' = NoOwner
          /\ UNCHANGED <<active, timer, workers, found>> /\ status' \in {"socket", status}
    BY <1>3 DEF Resolved, Idle
  <2> HIDE DEF d
  <2>3. connect(d, b) \in Client
    BY <2>1, ConnectType
  <2> QED BY <1>a, <2>2, <2>3 DEF workers, TypeInv, TypeOK
<1>4. ASSUME NEW o \in Owner, Connected(o) PROVE TypeInv'
  <2>1. PICK w \in BOOLEAN : clients' = [clients EXCEPT ![o] = onConnected(@, w)]
    BY <1>4 DEF Connected
  <2>2. onConnected(clients[o], w) \in Client /\ HasSocket(onConnected(clients[o], w))
    BY <1>a, ConnectedType DEF HasSocket
  <2> QED BY <1>4, <1>a, <2>1, <2>2, OnlyClientType DEF Connected
<1>5. ASSUME NEW o \in Owner, Breaks(o) PROVE TypeInv'
  <2>1. close(clients[o]) \in Client /\ (HasSocket(clients[o]) => HasSocket(close(clients[o])))
    BY <1>a, CloseType DEF HasSocket
  <2> QED BY <1>5, <1>a, <2>1, OnlyClientType DEF Breaks
<1>6. ASSUME NEW o \in Owner, OnClose(o) PROVE TypeInv'
  BY <1>6, <1>a, OnCloseType, OnClosedType DEF OnClose
<1>7. ASSUME NEW o \in Owner, NEW j \in Jobs \cup {NoJob}, ParseLogin(o, j) PROVE TypeInv'
  <2> DEFINE c == startTimeout(clients[o])
  <2>1. c \in Client /\ c.socket = clients[o].socket
    BY <1>a, StartTimeoutType
  <2>2. parseLogin(c, j) \in Client /\ (HasSocket(clients[o]) => HasSocket(parseLogin(c, j)))
    BY <2>1, ParseLoginType DEF HasSocket
  <2>3. /\ ReadsLine(o) /\ clients' = [clients EXCEPT ![o] = parseLogin(c, j)]
        /\ found' = found /\ status' = status
        /\ \/ OnLoginSuccess(o) /\ OnJob(o, j)
           \/ UNCHANGED <<active, timer, workers>>
    BY <1>7 DEF ParseLogin
  <2> HIDE DEF c
  <2>4. active' \in [Owner -> BOOLEAN]
    BY <1>a, <2>3 DEF OnLoginSuccess
  <2>5. timer' \in BOOLEAN
    <3>1. CASE OnLoginSuccess(o)
      <4> DEFINE b == timer \/ (o = "donate" /\ ~active["donate"])
      <4>1. b \in BOOLEAN
        OBVIOUS
      <4> QED BY <3>1, <4>1 DEF OnLoginSuccess
    <3>2. CASE UNCHANGED timer
      BY <1>a, <3>2
    <3> QED BY <2>3, <3>1, <3>2
  <2>6. WorkersOK'
    BY <2>3, <2>4, WorkersType
  <2> QED BY <1>a, <1>b, <2>2, <2>3, <2>4, <2>5, <2>6, OneClientType
<1>8. ASSUME NEW o \in Owner, NEW j \in Jobs \cup {NoJob}, ParseJob(o, j) PROVE TypeInv'
  <2> DEFINE c == startTimeout(clients[o])
  <2>1. c \in Client /\ c.socket = clients[o].socket
    BY <1>a, StartTimeoutType
  <2>2. parseJob(c, j) \in Client /\ (HasSocket(clients[o]) => HasSocket(parseJob(c, j)))
    BY <2>1, ParseJobType DEF HasSocket
  <2>3. /\ ReadsLine(o) /\ clients' = [clients EXCEPT ![o] = parseJob(c, j)]
        /\ UNCHANGED <<active, timer, found, status>>
        /\ OnJob(o, j) \/ UNCHANGED workers
    BY <1>8 DEF ParseJob
  <2> HIDE DEF c
  <2>4. WorkersOK'
    BY <1>a, <2>3, WorkersType
  <2> QED BY <1>a, <1>b, <2>2, <2>3, <2>4, OneClientType
<1>9. ASSUME NEW o \in Owner, ParseOther(o) PROVE TypeInv'
  <2> DEFINE c == startTimeout(clients[o])
  <2>1. c \in Client /\ c.socket = clients[o].socket
    BY <1>a, StartTimeoutType
  <2>2. close(c) \in Client /\ (HasSocket(c) => HasSocket(close(c)))
    BY <2>1, CloseType DEF HasSocket
  <2>3. /\ ReadsLine(o) /\ UNCHANGED <<active, timer, workers, found, status>>
        /\ \/ clients' = [clients EXCEPT ![o] = close(c)]
           \/ clients' = [clients EXCEPT ![o] = c]
    BY <1>9 DEF ParseOther
  <2> HIDE DEF c
  <2> QED BY <1>a, <1>b, <2>1, <2>2, <2>3, OnlyClientType DEF HasSocket
<1>10. ASSUME NEW due \in SUBSET Owner, Tick(due) PROVE TypeInv'
  <2>1. clients' = [o \in Owner |-> IF o \in due THEN tick(clients[o]) ELSE clients[o]]
        /\ reading' = NoOwner /\ UNCHANGED <<active, timer, workers, found>>
        /\ status' \in {"resolver", status}
    BY <1>10 DEF Tick, Idle
  <2>2. clients' \in [Owner -> Client]
    BY <1>a, <2>1, TickType
  <2> QED BY <1>a, <2>1, <2>2 DEF workers, TypeInv, TypeOK
<1>11. ASSUME NEW o \in Owner, Ping(o) PROVE TypeInv'
  <2>1. PICK w \in BOOLEAN : clients' = [clients EXCEPT ![o] = ping(@, w)]
    BY <1>11 DEF Ping
  <2>2. ping(clients[o], w) \in Client /\ (HasSocket(clients[o]) => HasSocket(ping(clients[o], w)))
    BY <1>a, PingType DEF HasSocket
  <2> QED BY <1>11, <1>a, <2>1, <2>2, OnlyClientType DEF Ping
<1>12. CASE OnTimer
  <2>1. CASE active["donate"]
    <3>1. Suspends /\ reading' = NoOwner /\ UNCHANGED <<found, status>> /\ timer' = active["donate"]
      BY <1>12, <2>1 DEF OnTimer, Idle
    <3>2. active' \in [Owner -> BOOLEAN] /\ timer' \in BOOLEAN
      BY <1>a, <2>1, <3>1 DEF Suspends
    <3>3. clients["pool"].job \in Jobs \cup {NoJob}
      BY <1>a DEF Client
    <3>4. WorkersOK'
      BY <3>1, <3>2, <3>3, WorkersType DEF Suspends
    <3>5. clients' \in [Owner -> Client]
      BY <1>a, <3>1, DisconnectType DEF Suspends
    <3> QED BY <1>a, <3>1, <3>2, <3>4, <3>5 DEF TypeInv, TypeOK, WorkersOK
  <2>2. CASE ~active["donate"]
    <3>1. /\ clients' = [clients EXCEPT !["donate"] = resolve(clients["donate"])]
          /\ status' \in {"resolver", status} /\ reading' = NoOwner
          /\ UNCHANGED <<active, workers, found>>
      BY <1>12, <2>2 DEF OnTimer, Connects, Idle
    <3>2. timer' \in BOOLEAN
      BY <1>12, <1>a, <2>2 DEF OnTimer
    <3>3. clients' \in [Owner -> Client]
      BY <1>a, <3>1, ResolveType
    <3> QED BY <1>a, <3>1, <3>2, <3>3 DEF workers, TypeInv, TypeOK
  <2> QED BY <2>1, <2>2
<1>13. ASSUME NEW o \in Owner, Found(o) PROVE TypeInv'
  <2>1. found' \in [Owner -> 0 .. MaxFound]
    BY <1>13, <1>a, NetworkAssumption DEF Found
  <2> QED BY <1>13, <2>1 DEF Found, workers, TypeInv, TypeOK
<1>14. ASSUME NEW o \in Owner, OnJobResult(o) PROVE TypeInv'
  <2>1. PICK w \in BOOLEAN : clients' = [clients EXCEPT ![o] = send(@, w)]
    BY <1>14 DEF OnJobResult
  <2>2. send(clients[o], w) \in Client /\ (HasSocket(clients[o]) => HasSocket(send(clients[o], w)))
    BY <1>a, SendType DEF HasSocket
  <2>3. found' \in [Owner -> 0 .. MaxFound]
    BY <1>14, <1>a, NetworkAssumption DEF OnJobResult
  <2> QED BY <1>14, <1>a, <2>1, <2>2, <2>3, OnlyClientType DEF OnJobResult
<1>15. CASE Stop
  <2>1. clients' \in [Owner -> Client]
    BY <1>15, <1>a, DisconnectType DEF Stop
  <2> QED BY <1>15, <2>1 DEF Stop, Idle, workers, TypeInv, TypeOK
<1>16. CASE UNCHANGED vars
  BY <1>16 DEF vars, workers, TypeInv, TypeOK
<1> QED
  BY <1>1, <1>2, <1>3, <1>4, <1>5, <1>6, <1>7, <1>8, <1>9, <1>10, <1>11, <1>12, <1>13,
     <1>14, <1>15, <1>16 DEF Next

\* Type correctness: whatever the two servers do, the clients, the strategies and
\* the workers' job stay in their types.
THEOREM TypeCorrect == Spec => []TypeOK
<1>1. TypeInv => TypeOK
  BY DEF TypeInv
<1> QED BY <1>1, InitTypeInv, NextTypeInv, PTL DEF Spec

-----------------------------------------------------------------------------
(***************************************************************************)
(* The safety invariant: its parts are inductive only together with        *)
(* TypeInv, which says that lines are read from clients with a socket.     *)
(***************************************************************************)
Inv == MinesInTurn /\ DonationEnds /\ KeepsTrying

\* The initial state satisfies the invariant.
LEMMA InitInv == Init => Inv
<1> SUFFICES ASSUME Init PROVE Inv
  OBVIOUS
<1>1. Urls["pool"] \in Url
  BY OwnerFacts, NetworkAssumption
<1>2. TriesOn(clients["pool"])
  BY <1>1, NewClientType, OwnerFacts DEF Init, TriesOn
<1> QED BY <1>2, OwnerFacts DEF Init, Inv, MinesInTurn, DonationEnds, KeepsTrying, Turn

\* A step that replaces one client's record and keeps its job.
LEMMA OneClientInv ==
    ASSUME TypeInv, Inv, NEW o \in Owner, NEW c \in Client,
           clients' = [clients EXCEPT ![o] = c],
           c.job = clients[o].job,
           TriesOn(clients[o]) => TriesOn(c),
           UNCHANGED <<active, timer, workers>>,
           status' = "running" => status = "running"
    PROVE  Inv'
<1> USE OwnerFacts
<1>1. clients \in [Owner -> Client] /\ active \in [Owner -> BOOLEAN]
  BY DEF TypeInv, TypeOK
<1>2. \A q \in Owner : clients'[q].job = clients[q].job
                       /\ (TriesOn(clients[q]) => TriesOn(clients'[q]))
  BY <1>1
<1>3. Turn \in Owner /\ Turn' = Turn
  BY DEF Turn
<1>4. MinesInTurn'
  BY <1>2, <1>3 DEF Inv, MinesInTurn, workers
<1>5. DonationEnds' /\ KeepsTrying'
  BY <1>2 DEF Inv, DonationEnds, KeepsTrying
<1> QED BY <1>4, <1>5 DEF Inv

\* A close that is reported to the strategy: the pool pauses the workers.
LEMMA OnClosedInv ==
    ASSUME TypeInv, Inv, NEW o \in Owner, NEW c \in Client,
           c.job = clients[o].job,
           TriesOn(clients[o]) => TriesOn(c),
           OnClosed(o, c)
    PROVE  Inv'
<1> USE OwnerFacts
<1>1. clients \in [Owner -> Client] /\ active \in [Owner -> BOOLEAN]
  BY DEF TypeInv, TypeOK
<1>2. /\ clients' = [clients EXCEPT ![o] = c]
      /\ timer' = timer /\ status' = status
  BY DEF OnClosed
<1>3. CASE o = "pool" /\ active["pool"]
  <2>1. active' = [active EXCEPT !["pool"] = FALSE] /\ paused'
    BY <1>3 DEF OnClosed, Pauses
  <2>2. ~active'["pool"] /\ active'["donate"] = active["donate"]
    BY <1>1, <2>1
  <2>3. MinesInTurn'
    BY <2>1, <2>2 DEF MinesInTurn
  <2>4. DonationEnds'
    BY <1>2, <2>2 DEF Inv, DonationEnds
  <2>5. KeepsTrying'
    BY <1>1, <1>2 DEF Inv, KeepsTrying
  <2> QED BY <2>3, <2>4, <2>5 DEF Inv
<1>4. CASE ~(o = "pool" /\ active["pool"])
  <2>1. UNCHANGED <<active, workers>>
    BY <1>4 DEF OnClosed
  <2> QED BY <1>2, <2>1, OneClientInv
<1> QED BY <1>3, <1>4

\* A job that reaches Network::onJob(), after the strategies' m_active are set.
LEMMA OnJobInv ==
    ASSUME TypeInv, Inv, NEW o \in Owner, NEW j \in Jobs \cup {NoJob},
           active' \in [Owner -> BOOLEAN],
           clients' \in [Owner -> Client],
           clients'[o].job = j,
           \A q \in Owner \ {o} : active'[q] = active[q] /\ clients'[q].job = clients[q].job,
           active[o] => active'[o],
           status' = status,
           OnJob(o, j)
    PROVE  MinesInTurn'
<1> USE OwnerFacts
<1>1. Owner = {"pool", "donate"}
  BY DEF Owner
<1>2. CASE active'["donate"] /\ o = "pool"
  <2>1. UNCHANGED <<work, paused, stray>>
    BY <1>2 DEF OnJob, workers
  <2>2. active["donate"] /\ clients'["donate"].job = clients["donate"].job
    BY <1>2
  <2> QED BY <1>2, <2>1, <2>2 DEF Inv, MinesInTurn, Turn
<1>3. CASE ~(active'["donate"] /\ o = "pool")
  <2>1. work' = Work(o, j) /\ paused' = FALSE /\ stray' = ~active'[o]
    BY <1>3 DEF OnJob
  <2>2. CASE active'[o]
    <3>1. Turn' = o
      BY <1>1, <1>3, <2>2 DEF Turn
    <3> QED BY <2>1, <2>2, <3>1 DEF MinesInTurn
  <2>3. CASE ~active'[o]
    BY <2>1, <2>3 DEF MinesInTurn
  <2> QED BY <2>2, <2>3
<1> QED BY <1>2, <1>3

\* Every callback preserves the invariant.
LEMMA NextInv == TypeInv /\ Inv /\ [Next]_vars => Inv'
<1> SUFFICES ASSUME TypeInv, Inv, [Next]_vars PROVE Inv'
  OBVIOUS
<1> USE OwnerFacts
<1>a. /\ clients \in [Owner -> Client] /\ \A o \in Owner : clients[o] \in Client
      /\ active \in [Owner -> BOOLEAN]
  BY DEF TypeInv, TypeOK
<1>b. ASSUME NEW o \in Owner, ReadsLine(o)
      PROVE  HasSocket(clients[o]) /\ status = "running"
  BY <1>b DEF ReadsLine, TypeInv, TypeOK, HasSocket
<1>1. CASE Connect
  <2>1. resolve(clients["pool"]) \in Client
        /\ resolve(clients["pool"]).job = clients["pool"].job
        /\ TriesOn(resolve(clients["pool"]))
    BY <1>a, ResolveType, TriesOnStarts
  <2> QED BY <1>1, <2>1, OneClientInv DEF Connect, Connects, Idle
<1>2. ASSUME NEW o \in Owner, ResolveFails(o) PROVE Inv'
  <2> DEFINE d == [clients[o] EXCEPT !.resolving = FALSE]
  <2>1. d \in Client /\ d.job = clients[o].job /\ d.failures = clients[o].failures
    BY <1>a DEF Client
  <2>2. OnClosed(o, reconnect(d))
    BY <1>2 DEF ResolveFails
  <2> HIDE DEF d
  <2>3. /\ reconnect(d) \in Client /\ reconnect(d).job = clients[o].job
        /\ TriesOn(clients[o]) => TriesOn(reconnect(d))
    BY <2>1, ReconnectType, TriesOnStarts DEF TriesOn
  <2> QED BY <2>2, <2>3, OnClosedInv
<1>3. ASSUME NEW o \in Owner, Resolved(o) PROVE Inv'
  <2> DEFINE d == [clients[o] EXCEPT !.resolving = FALSE]
  <2>1. d \in Client /\ d.job = clients[o].job /\ d.failures = clients[o].failures
    BY <1>a DEF Client
  <2>2. PICK b \in BOOLEAN : clients' = [clients EXCEPT ![o] = connect(d, b)]
    BY <1>3 DEF Resolved
  <2> HIDE DEF d
  <2>3. /\ connect(d, b) \in Client /\ connect(d, b).job = clients[o].job
        /\ TriesOn(clients[o]) => TriesOn(connect(d, b))
    BY <2>1, ConnectType, TriesOnStarts DEF TriesOn
  <2> QED BY <1>3, <2>2, <2>3, OneClientInv DEF Resolved, Idle
<1>4. ASSUME NEW o \in Owner, Connected(o) PROVE Inv'
  <2>1. PICK w \in BOOLEAN : clients' = [clients EXCEPT ![o] = onConnected(@, w)]
    BY <1>4 DEF Connected
  <2>2. /\ onConnected(clients[o], w) \in Client
        /\ onConnected(clients[o], w).job = clients[o].job
        /\ TriesOn(clients[o]) => TriesOn(onConnected(clients[o], w))
    BY <1>a, ConnectedType, TriesOnStarts DEF TriesOn
  <2> QED BY <1>4, <2>1, <2>2, OneClientInv DEF Connected
<1>5. ASSUME NEW o \in Owner, Breaks(o) PROVE Inv'
  <2>1. /\ close(clients[o]) \in Client /\ close(clients[o]).job = clients[o].job
        /\ TriesOn(clients[o]) => TriesOn(close(clients[o]))
    BY <1>a, CloseType, TriesOnFacts
  <2> QED BY <1>5, <2>1, OneClientInv DEF Breaks
<1>6. ASSUME NEW o \in Owner, OnClose(o) PROVE Inv'
  <2>1. /\ onClose(clients[o]) \in Client /\ onClose(clients[o]).job = clients[o].job
        /\ TriesOn(clients[o]) => TriesOn(onClose(clients[o]))
    BY <1>a, OnCloseType, TriesOnStarts DEF TriesOn
  <2> QED BY <1>6, <2>1, OnClosedInv DEF OnClose
<1>7. ASSUME NEW o \in Owner, NEW j \in Jobs \cup {NoJob}, ParseLogin(o, j) PROVE Inv'
  <2> DEFINE c == startTimeout(clients[o])
             d == parseLogin(c, j)
  <2>1. /\ c \in Client /\ c.socket = clients[o].socket /\ c.job = clients[o].job
        /\ c.failures = clients[o].failures
    BY <1>a, StartTimeoutType
  <2>2. /\ d \in Client /\ (HasSocket(c) => HasSocket(d))
        /\ d.job = (IF Acceptable(c, j) THEN j ELSE c.job)
        /\ d.failures = (IF Acceptable(c, j) THEN 0 ELSE c.failures)
    BY <2>1, ParseLoginType DEF HasSocket
  <2>3. /\ ReadsLine(o) /\ clients' = [clients EXCEPT ![o] = d] /\ status' = status
        /\ Acceptable(c, j) => OnLoginSuccess(o) /\ OnJob(o, j)
        /\ ~Acceptable(c, j) => UNCHANGED <<active, timer, workers>>
    BY <1>7 DEF ParseLogin
  <2>4. HasSocket(d)
    BY <1>b, <2>1, <2>2, <2>3 DEF HasSocket
  <2>5. clients[o].failures # -1 \/ Acceptable(c, j) => TriesOn(d)
    BY <2>1, <2>2, <2>4, TriesOnStarts
  <2> HIDE DEF c, d
  <2>6. CASE Acceptable(c, j)
    <3>1. /\ active' = [active EXCEPT ![o] = TRUE]
          /\ timer' = (timer \/ (o = "donate" /\ ~active["donate"]))
      BY <2>3, <2>6 DEF OnLoginSuccess
    <3>2. /\ active' \in [Owner -> BOOLEAN] /\ clients' \in [Owner -> Client]
          /\ clients'[o].job = j /\ active'[o]
          /\ \A q \in Owner \ {o} : active'[q] = active[q] /\ clients'[q].job = clients[q].job
      BY <1>a, <2>2, <2>3, <2>6, <3>1
    <3>3. MinesInTurn'
      BY <2>3, <2>6, <3>2, OnJobInv
    <3>4. DonationEnds'
      <4>1. CASE active["donate"]
        BY <2>3, <3>1, <4>1 DEF Inv, DonationEnds
      <4>2. CASE ~active["donate"] /\ o = "donate"
        BY <3>1, <4>2 DEF DonationEnds
      <4>3. CASE ~active["donate"] /\ o # "donate"
        BY <1>a, <3>1, <4>3 DEF DonationEnds
      <4> QED BY <4>1, <4>2, <4>3
    <3>5. KeepsTrying'
      <4>1. \A q \in Owner : TriesOn(clients[q]) => TriesOn(clients'[q])
        BY <1>a, <2>3, <2>5, <2>6
      <4>2. timer => timer'
        BY <3>1
      <4> QED BY <2>3, <4>1, <4>2 DEF Inv, KeepsTrying
    <3> QED BY <3>3, <3>4, <3>5 DEF Inv
  <2>7. CASE ~Acceptable(c, j)
    <3>1. d.job = clients[o].job /\ (TriesOn(clients[o]) => TriesOn(d))
      BY <2>1, <2>2, <2>5, <2>7 DEF TriesOn
    <3> QED BY <2>2, <2>3, <2>7, <3>1, OneClientInv
  <2> QED BY <2>6, <2>7
<1>8. ASSUME NEW o \in Owner, NEW j \in Jobs \cup {NoJob}, ParseJob(o, j) PROVE Inv'
  <2> DEFINE c == startTimeout(clients[o])
             d == parseJob(c, j)
  <2>1. /\ c \in Client /\ c.socket = clients[o].socket /\ c.job = clients[o].job
        /\ c.failures = clients[o].failures
    BY <1>a, StartTimeoutType
  <2>2. /\ d \in Client /\ (HasSocket(c) => HasSocket(d))
        /\ d.job = (IF Acceptable(c, j) THEN j ELSE c.job)
        /\ d.failures = c.failures
    BY <2>1, ParseJobType DEF HasSocket
  <2>3. /\ ReadsLine(o) /\ clients' = [clients EXCEPT ![o] = d]
        /\ UNCHANGED <<active, timer, status>>
        /\ Acceptable(c, j) => OnJob(o, j)
        /\ ~Acceptable(c, j) => UNCHANGED workers
    BY <1>8 DEF ParseJob
  <2>4. HasSocket(d)
    BY <1>b, <2>1, <2>2, <2>3 DEF HasSocket
  <2>5. TriesOn(clients[o]) => TriesOn(d)
    BY <2>1, <2>2, <2>4, TriesOnStarts DEF TriesOn
  <2> HIDE DEF c, d
  <2>6. CASE Acceptable(c, j)
    <3>1. /\ active' \in [Owner -> BOOLEAN] /\ clients' \in [Owner -> Client]
          /\ clients'[o].job = j
          /\ \A q \in Owner \ {o} : active'[q] = active[q] /\ clients'[q].job = clients[q].job
      BY <1>a, <2>2, <2>3, <2>6
    <3>2. MinesInTurn'
      BY <2>3, <2>6, <3>1, OnJobInv
    <3>3. DonationEnds'
      BY <2>3 DEF Inv, DonationEnds
    <3>4. \A q \in Owner : TriesOn(clients[q]) => TriesOn(clients'[q])
      BY <1>a, <2>3, <2>5
    <3>5. KeepsTrying'
      BY <2>3, <3>4 DEF Inv, KeepsTrying
    <3> QED BY <3>2, <3>3, <3>5 DEF Inv
  <2>7. CASE ~Acceptable(c, j)
    BY <2>1, <2>2, <2>3, <2>5, <2>7, OneClientInv
  <2> QED BY <2>6, <2>7
<1>9. ASSUME NEW o \in Owner, ParseOther(o) PROVE Inv'
  <2> DEFINE c == startTimeout(clients[o])
  <2>1. /\ c \in Client /\ c.job = clients[o].job
        /\ ReadsLine(o) => (TriesOn(clients[o]) => TriesOn(c))
    BY <1>a, <1>b, StartTimeoutType, TriesOnFacts
  <2>2. /\ close(c) \in Client /\ close(c).job = c.job
        /\ TriesOn(c) => TriesOn(close(c))
    BY <2>1, CloseType, TriesOnFacts
  <2>3. /\ ReadsLine(o) /\ UNCHANGED <<active, timer, workers, status>>
        /\ \/ clients' = [clients EXCEPT ![o] = close(c)]
           \/ clients' = [clients EXCEPT ![o] = c]
    BY <1>9 DEF ParseOther
  <2> HIDE DEF c
  <2> QED BY <2>1, <2>2, <2>3, OneClientInv
<1>10. ASSUME NEW due \in SUBSET Owner, Tick(due) PROVE Inv'
  <2>1. /\ clients' = [o \in Owner |-> IF o \in due THEN tick(clients[o]) ELSE clients[o]]
        /\ UNCHANGED <<active, timer, workers>>
        /\ status' = "running" => status = "running"
    BY <1>10 DEF Tick
  <2>2. \A q \in Owner : clients'[q].job = clients[q].job
                         /\ (TriesOn(clients[q]) => TriesOn(clients'[q]))
    BY <1>a, <2>1, TickType, TriesOnFacts
  <2>3. Turn \in Owner /\ Turn' = Turn
    BY <2>1 DEF Turn
  <2>4. MinesInTurn'
    BY <2>1, <2>2, <2>3 DEF Inv, MinesInTurn, workers
  <2>5. DonationEnds' /\ KeepsTrying'
    BY <2>1, <2>2 DEF Inv, DonationEnds, KeepsTrying
  <2> QED BY <2>4, <2>5 DEF Inv
<1>11. ASSUME NEW o \in Owner, Ping(o) PROVE Inv'
  <2>1. PICK w \in BOOLEAN : clients' = [clients EXCEPT ![o] = ping(@, w)]
    BY <1>11 DEF Ping
  <2>2. /\ ping(clients[o], w) \in Client /\ ping(clients[o], w).job = clients[o].job
        /\ TriesOn(clients[o]) => TriesOn(ping(clients[o], w))
    BY <1>a, PingType, TriesOnFacts
  <2> QED BY <1>11, <2>1, <2>2, OneClientInv DEF Ping
<1>12. CASE OnTimer
  <2>1. CASE active["donate"]
    <3>1. Suspends /\ status' = status /\ timer'
      BY <1>12, <2>1 DEF OnTimer
    <3>2. /\ active' = [active EXCEPT !["donate"] = FALSE]
          /\ clients' = [clients EXCEPT !["donate"] = disconnect(clients["donate"])]
      BY <3>1 DEF Suspends
    <3>3. ~active'["donate"] /\ active'["pool"] = active["pool"]
          /\ clients'["pool"] = clients["pool"] /\ Turn' = "pool"
      BY <1>a, <3>2 DEF Turn
    <3>4. MinesInTurn'
      <4>1. CASE active["pool"]
        <5>1. work' = Work("pool", clients["pool"].job) /\ paused' = FALSE
          BY <3>1, <3>3, <4>1 DEF Suspends, OnJob
        <5> QED BY <3>3, <4>1, <5>1 DEF MinesInTurn
      <4>2. CASE ~active["pool"]
        <5>1. paused' = TRUE
          BY <3>1, <4>2 DEF Suspends, Pauses
        <5> QED BY <3>3, <4>2, <5>1 DEF MinesInTurn
      <4> QED BY <4>1, <4>2
    <3> QED BY <3>1, <3>3, <3>4 DEF Inv, DonationEnds, KeepsTrying
  <2>2. CASE ~active["donate"]
    <3>1. /\ clients' = [clients EXCEPT !["donate"] = resolve(clients["donate"])]
          /\ status' = "running" => status = "running"
          /\ UNCHANGED <<active, workers>>
      BY <1>12, <2>2 DEF OnTimer, Connects, Idle
    <3>2. /\ resolve(clients["donate"]).job = clients["donate"].job
          /\ TriesOn(resolve(clients["donate"]))
      BY <1>a, ResolveType, TriesOnStarts
    <3>3. /\ \A q \in Owner : clients'[q].job = clients[q].job
          /\ clients'["pool"] = clients["pool"] /\ TriesOn(clients'["donate"])
      BY <1>a, <3>1, <3>2
    <3>4. Turn \in Owner /\ Turn' = Turn
      BY <3>1 DEF Turn
    <3>5. MinesInTurn'
      BY <3>1, <3>3, <3>4 DEF Inv, MinesInTurn, workers
    <3> QED BY <2>2, <3>1, <3>3, <3>5 DEF Inv, DonationEnds, KeepsTrying
  <2> QED BY <2>1, <2>2
<1>13. ASSUME NEW o \in Owner, Found(o) PROVE Inv'
  BY <1>13 DEF Found, workers, Inv, MinesInTurn, DonationEnds, KeepsTrying, Turn
<1>14. ASSUME NEW o \in Owner, OnJobResult(o) PROVE Inv'
  <2>1. PICK w \in BOOLEAN : clients' = [clients EXCEPT ![o] = send(@, w)]
    BY <1>14 DEF OnJobResult
  <2>2. /\ send(clients[o], w) \in Client /\ send(clients[o], w).job = clients[o].job
        /\ TriesOn(clients[o]) => TriesOn(send(clients[o], w))
    BY <1>a, SendType, TriesOnFacts
  <2> QED BY <1>14, <2>1, <2>2, OneClientInv DEF OnJobResult
<1>15. CASE Stop
  BY <1>15 DEF Stop, Inv, MinesInTurn, DonationEnds, KeepsTrying
<1>16. CASE UNCHANGED vars
  BY <1>16 DEF vars, workers, Inv, MinesInTurn, DonationEnds, KeepsTrying, Turn
<1> QED
  BY <1>1, <1>2, <1>3, <1>4, <1>5, <1>6, <1>7, <1>8, <1>9, <1>10, <1>11, <1>12, <1>13,
     <1>14, <1>15, <1>16 DEF Next

\* The inductive invariant of Network holds in every reachable state.
THEOREM Invariant == Spec => [](TypeInv /\ Inv)
BY InitTypeInv, NextTypeInv, InitInv, NextInv, PTL DEF Spec

\* The workers hash the last job of the strategy whose turn it is: onJob() and
\* onPause() of Network arbitrate correctly between pool and donation.
THEOREM MinesInTurnHolds == Spec => []MinesInTurn
<1>1. Inv => MinesInTurn
  BY DEF Inv
<1> QED BY <1>1, Invariant, PTL

\* An active donation has its end scheduled, whatever happened to its connection.
THEOREM DonationEndsHolds == Spec => []DonationEnds
<1>1. Inv => DonationEnds
  BY DEF Inv
<1> QED BY <1>1, Invariant, PTL

\* Neither client is left without a callback, a deadline or the donation's timer.
THEOREM KeepsTryingHolds == Spec => []KeepsTrying
<1>1. Inv => KeepsTrying
  BY DEF Inv
<1> QED BY <1>1, Invariant, PTL
=============================================================================
