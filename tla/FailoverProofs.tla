--------------------------- MODULE FailoverProofs ---------------------------
(***************************************************************************)
(* Proofs about FailoverStrategy, for every number of pools, every         *)
(* --retries and every set of jobs.                                        *)
(***************************************************************************)
EXTENDS FailoverStrategy, ClientProofs

(***************************************************************************)
(* Type correctness, together with two facts the later proofs need: m_url  *)
(* never changes, and a pool whose buffer is being read has a socket.      *)
(***************************************************************************)
TypeInv == /\ TypeOK
           /\ \A p \in Pool : pools[p].url = Urls[p]
           /\ reading # NoPool => HasSocket(pools[reading])

\* Pool 0 exists, and pools are distinct from the markers -1 and NoPool.
LEMMA PoolFacts == /\ 0 \in Pool /\ -1 \notin Pool /\ NoPool \notin Pool
                   /\ \A p \in Pool : N - p > 1 => p + 1 \in Pool /\ p + 1 # p /\ p + 1 # 0
                   /\ \A p \in Pool : p >= 0
BY FailoverAssumption DEF Pool

\* The initial state is well typed.
LEMMA InitTypeInv == Init => TypeInv
<1> SUFFICES ASSUME Init PROVE TypeInv
  OBVIOUS
<1>1. \A p \in Pool : Urls[p] \in Url
  BY FailoverAssumption
<1>2. pools \in [Pool -> Client] /\ \A p \in Pool : pools[p].url = Urls[p]
  BY <1>1, NewClientType DEF Init
<1>3. active \in Pool \cup {-1} /\ index \in Pool /\ job \in WorkersJob /\ reading = NoPool
  BY PoolFacts DEF Init, WorkersJob
<1>4. found \in 0 .. MaxFound
  BY FailoverAssumption DEF Init
<1> QED BY <1>2, <1>3, <1>4 DEF Init, TypeInv, TypeOK

\* The strategy's onClose(), with a client record c of pool p that keeps the url.
LEMMA StrategyOnCloseType ==
    ASSUME TypeInv, reading = NoPool, NEW p \in Pool, NEW c \in Client, c.url = Urls[p],
           StrategyOnClose(p, c)
    PROVE  TypeInv'
<1> DEFINE ps == [pools EXCEPT ![p] = c]
<1>1. ps \in [Pool -> Client] /\ \A q \in Pool : ps[q].url = Urls[q]
  BY DEF TypeInv, TypeOK
<1>2. active' \in Pool \cup {-1} /\ paused' \in BOOLEAN
      /\ job' \in WorkersJob /\ found' \in 0 .. MaxFound /\ reading' = NoPool
  BY DEF StrategyOnClose, TypeInv, TypeOK
<1>3. /\ pools' \in [Pool -> Client] /\ \A q \in Pool : pools'[q].url = Urls[q]
      /\ index' \in Pool
      /\ status' \in {"running", "stopped"} \cup Fault
  <2>1. CASE Advances(p, c.failures)
    <3>1. index + 1 \in Pool /\ index \in Pool
      BY <2>1, PoolFacts DEF Advances, TypeInv, TypeOK
    <3>2. index' = index + 1 /\ pools' = [ps EXCEPT ![index + 1] = resolve(@)]
          /\ status' \in {"resolver", status}
      BY <2>1 DEF StrategyOnClose
    <3>3. resolve(ps[index + 1]) \in Client /\ resolve(ps[index + 1]).url = Urls[index + 1]
      BY <1>1, <3>1, ResolveType
    <3> HIDE DEF ps
    <3> QED BY <1>1, <3>1, <3>2, <3>3 DEF TypeInv, TypeOK, Fault
  <2>2. CASE ~Advances(p, c.failures)
    BY <1>1, <2>2 DEF StrategyOnClose, TypeInv, TypeOK
  <2> QED BY <2>1, <2>2
<1> QED BY <1>2, <1>3 DEF TypeInv, TypeOK

\* A step that only replaces the record of one pool.
LEMMA OnePoolType ==
    ASSUME TypeInv, NEW p \in Pool, NEW c \in Client, c.url = Urls[p],
           pools' = [pools EXCEPT ![p] = c],
           HasSocket(pools[p]) => HasSocket(c),
           UNCHANGED <<active, index, job, paused>>,
           found' \in 0 .. MaxFound,
           status' \in {"running", "stopped"} \cup Fault,
           \/ reading' = reading
           \/ reading' = NoPool
           \/ reading' = p /\ HasSocket(pools[p])
    PROVE  TypeInv'
BY PoolFacts DEF TypeInv, TypeOK, HasSocket

\* The workers' job and pause flag after a line.
LEMMA OnJobReceivedType ==
    ASSUME TypeInv, NEW p \in Pool, NEW j \in Jobs \cup {NoJob},
           OnJobReceived(p, j) \/ UNCHANGED <<job, paused>>
    PROVE  job' \in WorkersJob /\ paused' \in BOOLEAN
<1>1. CASE job' = [pool |-> p, job |-> j] /\ paused' = FALSE
  BY <1>1 DEF WorkersJob
<1>2. CASE UNCHANGED <<job, paused>>
  BY <1>2 DEF TypeInv, TypeOK
<1> QED BY <1>1, <1>2 DEF OnJobReceived

\* Every callback keeps the state well typed.
LEMMA NextTypeInv == TypeInv /\ [Next]_vars => TypeInv'
<1> SUFFICES ASSUME TypeInv, [Next]_vars PROVE TypeInv'
  OBVIOUS
<1> USE PoolFacts
<1>a. \A p \in Pool : pools[p] \in Client /\ pools[p].url = Urls[p]
  BY DEF TypeInv, TypeOK
<1>b. index \in Pool /\ active \in Pool \cup {-1} /\ found \in 0 .. MaxFound
      /\ status \in {"running", "stopped"} \cup Fault
  BY DEF TypeInv, TypeOK
<1>1. CASE Connect
  <2>1. /\ resolve(pools[index]) \in Client /\ resolve(pools[index]).url = Urls[index]
        /\ HasSocket(pools[index]) => HasSocket(resolve(pools[index]))
    BY <1>a, <1>b, ResolveType DEF HasSocket
  <2> QED BY <1>1, <1>b, <2>1, OnePoolType DEF Connect
<1>2. ASSUME NEW p \in Pool, ResolveFails(p) PROVE TypeInv'
  <2> DEFINE d == [pools[p] EXCEPT !.resolving = FALSE]
  <2>1. d \in Client /\ d.url = Urls[p]
    BY <1>a DEF Client
  <2> HIDE DEF d
  <2>2. reconnect(d) \in Client /\ reconnect(d).url = Urls[p]
    BY <2>1, ReconnectType
  <2> QED BY <1>2, <2>2, StrategyOnCloseType DEF ResolveFails, Idle, d
<1>3. ASSUME NEW p \in Pool, Resolved(p) PROVE TypeInv'
  <2> DEFINE d == [pools[p] EXCEPT !.resolving = FALSE]
  <2>1. d \in Client /\ d.url = Urls[p]
    BY <1>a DEF Client
  <2>2. PICK b \in BOOLEAN : pools' = [pools EXCEPT ![p] = connect(d, b)]
    BY <1>3 DEF Resolved
  <2> HIDE DEF d
  <2>3. connect(d, b) \in Client /\ connect(d, b).url = Urls[p]
    BY <2>1, ConnectType
  <2>4. pools' \in [Pool -> Client] /\ \A q \in Pool : pools'[q].url = Urls[q]
    BY <2>2, <2>3 DEF TypeInv, TypeOK
  <2>5. reading' = NoPool /\ status' \in {"running", "stopped"} \cup Fault
    BY <1>3, <1>b DEF Resolved, Idle, Fault
  <2> QED BY <1>3, <2>4, <2>5 DEF Resolved, TypeInv, TypeOK
<1>4. ASSUME NEW p \in Pool, Connected(p) PROVE TypeInv'
  <2>1. PICK w \in BOOLEAN : pools' = [pools EXCEPT ![p] = onConnected(@, w)]
    BY <1>4 DEF Connected
  <2>2. /\ onConnected(pools[p], w) \in Client /\ onConnected(pools[p], w).url = Urls[p]
        /\ HasSocket(onConnected(pools[p], w))
    BY <1>a, ConnectedType DEF HasSocket
  <2>3. status' \in {"running", "stopped"} \cup Fault
    BY <1>4, <1>b DEF Connected, Fault
  <2> QED BY <1>4, <1>b, <2>1, <2>2, <2>3, OnePoolType DEF Connected
<1>5. ASSUME NEW p \in Pool, ConnectFails(p) \/ ReadFails(p) PROVE TypeInv'
  <2>1. /\ close(pools[p]) \in Client /\ close(pools[p]).url = Urls[p]
        /\ HasSocket(pools[p]) => HasSocket(close(pools[p]))
    BY <1>a, CloseType DEF HasSocket
  <2> QED BY <1>5, <1>b, <2>1, OnePoolType DEF ConnectFails, ReadFails
<1>6. ASSUME NEW p \in Pool, OnClose(p) PROVE TypeInv'
  <2>1. onClose(pools[p]) \in Client /\ onClose(pools[p]).url = Urls[p]
    BY <1>a, OnCloseType
  <2> QED BY <1>6, <2>1, StrategyOnCloseType DEF OnClose
<1>c. ASSUME NEW p \in Pool, ReadsLine(p)
      PROVE  /\ HasSocket(pools[p])
             /\ reading' \in {p, NoPool}
             /\ startTimeout(pools[p]) \in Client
             /\ startTimeout(pools[p]).url = Urls[p]
             /\ HasSocket(startTimeout(pools[p]))
  <2>1. HasSocket(pools[p]) /\ reading' \in {p, NoPool}
    BY <1>c DEF ReadsLine, TypeInv, HasSocket
  <2> QED BY <1>a, <2>1, StartTimeoutType DEF HasSocket
<1>7. ASSUME NEW p \in Pool, ParseError(p) PROVE TypeInv'
  <2> DEFINE c == startTimeout(pools[p])
  <2>1. c \in Client /\ c.url = Urls[p] /\ HasSocket(c) /\ HasSocket(pools[p])
        /\ reading' \in {p, NoPool}
    BY <1>7, <1>c DEF ParseError
  <2>2. pools' = [pools EXCEPT ![p] = close(c)]
    BY <1>7 DEF ParseError
  <2> HIDE DEF c
  <2>3. close(c) \in Client /\ close(c).url = Urls[p] /\ HasSocket(close(c))
    BY <2>1, CloseType DEF HasSocket
  <2> QED BY <1>7, <1>b, <2>1, <2>2, <2>3, OnePoolType DEF ParseError
<1>8. ASSUME NEW p \in Pool, ParseOther(p) PROVE TypeInv'
  <2>1. pools' = [pools EXCEPT ![p] = startTimeout(pools[p])]
    BY <1>8 DEF ParseOther
  <2> QED BY <1>8, <1>b, <1>c, <2>1, OnePoolType DEF ParseOther
<1>9. ASSUME NEW p \in Pool, Ping(p) PROVE TypeInv'
  <2>1. PICK w \in BOOLEAN : pools' = [pools EXCEPT ![p] = ping(@, w)]
    BY <1>9 DEF Ping
  <2>2. /\ ping(pools[p], w) \in Client /\ ping(pools[p], w).url = Urls[p]
        /\ HasSocket(pools[p]) => HasSocket(ping(pools[p], w))
    BY <1>a, PingType DEF HasSocket
  <2> QED BY <1>9, <1>b, <2>1, <2>2, OnePoolType DEF Ping
<1>10. ASSUME NEW p \in Pool, NEW j \in Jobs \cup {NoJob}, ParseLogin(p, j) PROVE TypeInv'
  <2> DEFINE c == startTimeout(pools[p])
             d == parseLogin(c, j)
  <2>1. c \in Client /\ c.url = Urls[p] /\ HasSocket(c) /\ HasSocket(pools[p])
        /\ reading' \in {p, NoPool}
    BY <1>10, <1>c DEF ParseLogin
  <2>2. d \in Client /\ d.url = Urls[p] /\ HasSocket(d)
    BY <2>1, ParseLoginType DEF HasSocket
  <2>3. CASE ~Acceptable(c, j)
    <3>1. pools' = [pools EXCEPT ![p] = d] /\ UNCHANGED <<active, index, job, paused>>
      BY <1>10, <2>3 DEF ParseLogin
    <3> HIDE DEF d
    <3> QED BY <1>10, <1>b, <2>1, <2>2, <3>1, OnePoolType DEF ParseLogin
  <2>4. CASE Acceptable(c, j)
    <3> DEFINE ps == [pools EXCEPT ![p] = d]
    <3>1. OnLoginSuccess(p, d) /\ OnJobReceived(p, j) /\ UNCHANGED <<found, status>>
      BY <1>10, <2>4 DEF ParseLogin
    <3> HIDE DEF d
    <3>2. ps \in [Pool -> Client] /\ (\A q \in Pool : ps[q].url = Urls[q]) /\ HasSocket(ps[p])
      BY <2>2 DEF TypeInv, TypeOK
    <3>3. LoginActive(p) \in Pool
      BY <1>b DEF LoginActive, isActive
    <3>4. pools' = [i \in Pool |-> IF i = 0 \/ i = LoginActive(p) THEN ps[i]
                                   ELSE disconnect(ps[i])]
      BY <3>1 DEF OnLoginSuccess
    <3> HIDE DEF ps
    <3>5. /\ pools' \in [Pool -> Client] /\ \A q \in Pool : pools'[q].url = Urls[q]
          /\ HasSocket(pools'[p])
      BY <3>2, <3>4, DisconnectType DEF HasSocket
    <3>6. active' \in Pool \cup {-1} /\ index' \in Pool
      BY <1>b, <3>1, <3>3 DEF OnLoginSuccess
    <3>7. job' \in WorkersJob /\ paused' \in BOOLEAN
      BY <3>1, OnJobReceivedType
    <3> QED BY <1>b, <2>1, <3>1, <3>5, <3>6, <3>7 DEF TypeInv, TypeOK
  <2> QED BY <2>3, <2>4
<1>11. ASSUME NEW p \in Pool, NEW j \in Jobs \cup {NoJob}, ParseJob(p, j) PROVE TypeInv'
  <2> DEFINE c == startTimeout(pools[p])
             d == parseJob(c, j)
  <2>1. c \in Client /\ c.url = Urls[p] /\ HasSocket(c) /\ HasSocket(pools[p])
        /\ reading' \in {p, NoPool}
    BY <1>11, <1>c DEF ParseJob
  <2>2. d \in Client /\ d.url = Urls[p] /\ HasSocket(d)
    BY <2>1, ParseJobType DEF HasSocket
  <2>3. pools' = [pools EXCEPT ![p] = d] /\ UNCHANGED <<active, index, found, status>>
    BY <1>11 DEF ParseJob
  <2>4. job' \in WorkersJob /\ paused' \in BOOLEAN
    BY <1>11, OnJobReceivedType DEF ParseJob
  <2> HIDE DEF c, d
  <2>5. pools' \in [Pool -> Client] /\ (\A q \in Pool : pools'[q].url = Urls[q])
        /\ HasSocket(pools'[p])
    BY <2>2, <2>3 DEF TypeInv, TypeOK
  <2> QED BY <1>b, <2>1, <2>3, <2>4, <2>5 DEF TypeInv, TypeOK
<1>12. ASSUME NEW due \in SUBSET Pool, Tick(due) PROVE TypeInv'
  <2>1. pools' = [p \in Pool |-> IF p \in due THEN tick(pools[p]) ELSE pools[p]]
    BY <1>12 DEF Tick
  <2>2. pools' \in [Pool -> Client] /\ \A q \in Pool : pools'[q].url = Urls[q]
    BY <1>a, <2>1, TickType
  <2> QED BY <1>12, <1>b, <2>2 DEF Tick, Idle, TypeInv, TypeOK, Fault
<1>13. CASE Found
  BY <1>13, FailoverAssumption DEF Found, TypeInv, TypeOK
<1>14. CASE OnJobResult
  <2>1. found' \in 0 .. MaxFound /\ reading' = reading
    BY <1>14, <1>b, FailoverAssumption DEF OnJobResult
  <2>2. CASE isActive
    <3>1. active \in Pool
      BY <1>b, <2>2 DEF isActive
    <3>2. PICK w \in BOOLEAN : pools' = [pools EXCEPT ![active] = send(@, w)]
      BY <1>14, <2>2 DEF OnJobResult
    <3>3. /\ send(pools[active], w) \in Client /\ send(pools[active], w).url = Urls[active]
          /\ HasSocket(pools[active]) => HasSocket(send(pools[active], w))
      BY <1>a, <3>1, SendType DEF HasSocket
    <3> QED BY <1>14, <1>b, <2>1, <2>2, <3>1, <3>2, <3>3, OnePoolType DEF OnJobResult
  <2>3. CASE ~isActive
    BY <1>14, <2>1, <2>3 DEF OnJobResult, TypeInv, TypeOK, Fault
  <2> QED BY <2>2, <2>3
<1>15. CASE Stop
  <2>1. pools' = [p \in Pool |-> disconnect(pools[p])]
    BY <1>15 DEF Stop
  <2>2. pools' \in [Pool -> Client] /\ \A q \in Pool : pools'[q].url = Urls[q]
    BY <1>a, <2>1, DisconnectType
  <2> QED BY <1>15, <1>b, <2>2 DEF Stop, Idle, TypeInv, TypeOK
<1>16. CASE UNCHANGED vars
  BY <1>16 DEF vars, TypeInv, TypeOK
<1> QED
  BY <1>1, <1>2, <1>3, <1>4, <1>5, <1>6, <1>7, <1>8, <1>9, <1>10, <1>11, <1>12, <1>13,
     <1>14, <1>15, <1>16 DEF Next

\* Type correctness: whatever the pools and the network do, m_index stays the
\* index of a pool, m_active one or -1, and every client in its type.
THEOREM TypeCorrect == Spec => []TypeOK
<1>1. TypeInv => TypeOK
  BY DEF TypeInv
<1> QED BY <1>1, InitTypeInv, NextTypeInv, PTL DEF Spec

-----------------------------------------------------------------------------
(***************************************************************************)
(* The safety invariant.  ActiveIsIndex carries the others: a login makes  *)
(* m_index the pool that is not disconnected, and a loss of the active     *)
(* pool is a failure of pool m_index.                                      *)
(***************************************************************************)
Inv == ActiveIsIndex /\ MinesForActive /\ KeepsTrying

\* The initial state satisfies the invariant.
LEMMA InitInv == Init => Inv
<1> SUFFICES ASSUME Init PROVE Inv
  OBVIOUS
<1>1. Urls[0] \in Url
  BY PoolFacts, FailoverAssumption
<1>2. TriesOn(pools[0])
  BY <1>1, NewClientType, PoolFacts DEF Init, TriesOn
<1> QED BY <1>2 DEF Init, Inv, ActiveIsIndex, MinesForActive, KeepsTrying, isActive

\* A step that only replaces the record of one pool, keeping its job.
LEMMA OnePoolInv ==
    ASSUME TypeInv, Inv, NEW p \in Pool, NEW c \in Client,
           pools' = [pools EXCEPT ![p] = c],
           c.job = pools[p].job,
           TriesOn(pools[p]) => TriesOn(c),
           UNCHANGED <<active, index, job, paused>>,
           status' = "running" => status = "running"
    PROVE  Inv'
<1>1. pools \in [Pool -> Client] /\ 0 \in Pool /\ index \in Pool /\ active \in Pool \cup {-1}
  BY PoolFacts DEF TypeInv, TypeOK
<1>2. ActiveIsIndex'
  BY DEF Inv, ActiveIsIndex, isActive
<1>3. MinesForActive'
  BY <1>1 DEF Inv, MinesForActive, isActive
<1>4. KeepsTrying'
  <2> SUFFICES ASSUME status' = "running" PROVE TriesOn(pools'[0]) /\ TriesOn(pools'[index])
    BY DEF KeepsTrying
  <2>1. TriesOn(pools[0]) /\ TriesOn(pools[index])
    BY DEF Inv, KeepsTrying
  <2> QED BY <1>1, <2>1
<1> QED BY <1>2, <1>3, <1>4 DEF Inv

\* A failure: the active pool is given up, and the failure of pool m_index hands
\* the role over to a pool that has just been started.
LEMMA StrategyOnCloseInv ==
    ASSUME TypeInv, Inv, NEW p \in Pool, NEW c \in Client,
           c.job = pools[p].job,
           pools[p].failures # -1 => c.failures # -1 /\ TriesOn(c),
           StrategyOnClose(p, c)
    PROVE  Inv'
<1> DEFINE ps == [pools EXCEPT ![p] = c]
<1> USE PoolFacts
<1>1. /\ pools \in [Pool -> Client] /\ index \in Pool /\ active \in Pool \cup {-1}
      /\ ps \in [Pool -> Client]
      /\ paused \in BOOLEAN
  BY DEF TypeInv, TypeOK
<1>2. active' = (IF c.failures # -1 /\ active = p THEN -1 ELSE active)
      /\ paused' = (paused \/ (c.failures # -1 /\ active = p)) /\ job' = job
  BY DEF StrategyOnClose
<1>3. CASE Advances(p, c.failures)
  <2>1. /\ index = p /\ index + 1 \in Pool /\ index + 1 # p /\ index + 1 # 0
        /\ c.failures # -1
    BY <1>1, <1>3 DEF Advances
  <2>2. /\ index' = index + 1 /\ pools' = [ps EXCEPT ![index + 1] = resolve(ps[index + 1])]
        /\ status' = "running" => status = "running"
    BY <1>3 DEF StrategyOnClose
  <2>3. active' = -1
    BY <1>1, <1>2, <2>1 DEF Inv, ActiveIsIndex, isActive
  <2>4. status' = "running" => paused'
    BY <1>1, <1>2, <2>1, <2>2 DEF Inv, ActiveIsIndex, MinesForActive, isActive
  <2>5. TriesOn(resolve(ps[index + 1]))
    BY <1>1, <2>1, TriesOnStarts
  <2>6. status' = "running" => TriesOn(pools'[0]) /\ TriesOn(pools'[index'])
    <3> SUFFICES ASSUME status' = "running" PROVE TriesOn(pools'[0]) /\ TriesOn(pools'[index'])
      OBVIOUS
    <3>1. TriesOn(pools[0]) /\ TriesOn(pools[index])
      BY <2>2 DEF Inv, KeepsTrying
    <3>2. TriesOn(ps[0])
      BY <1>1, <2>1, <3>1 DEF TriesOn
    <3> HIDE DEF ps
    <3>3. pools'[0] = ps[0] /\ pools'[index'] = resolve(ps[index + 1])
      BY <1>1, <2>1, <2>2
    <3> QED BY <2>5, <3>2, <3>3
  <2> QED
    BY <2>3, <2>4, <2>6 DEF Inv, ActiveIsIndex, MinesForActive, KeepsTrying, isActive
<1>4. CASE ~Advances(p, c.failures)
  <2>1. pools' = ps /\ index' = index /\ status' = status
    BY <1>4 DEF StrategyOnClose
  <2>2. ActiveIsIndex'
    BY <1>2, <2>1 DEF Inv, ActiveIsIndex, isActive
  <2>3. MinesForActive'
    <3>1. CASE c.failures # -1 /\ active = p
      <4>1. active' = -1 /\ paused'
        BY <1>2, <3>1
      <4> QED BY <4>1 DEF MinesForActive, isActive
    <3>2. CASE ~(c.failures # -1 /\ active = p)
      <4>1. active' = active /\ paused' = paused
        BY <1>1, <1>2, <3>2
      <4>2. isActive => pools'[active].job = pools[active].job
        BY <1>1, <2>1 DEF isActive
      <4> QED BY <1>2, <2>1, <4>1, <4>2 DEF Inv, MinesForActive, isActive
    <3> QED BY <3>1, <3>2
  <2>4. KeepsTrying'
    BY <1>1, <2>1 DEF Inv, KeepsTrying, TriesOn
  <2> QED BY <2>2, <2>3, <2>4 DEF Inv
<1> QED BY <1>3, <1>4

\* Every callback preserves the invariant.
LEMMA NextInv == TypeInv /\ Inv /\ [Next]_vars => Inv'
<1> SUFFICES ASSUME TypeInv, Inv, [Next]_vars PROVE Inv'
  OBVIOUS
<1> USE PoolFacts
<1>a. /\ pools \in [Pool -> Client] /\ index \in Pool /\ active \in Pool \cup {-1}
      /\ \A p \in Pool : pools[p] \in Client
  BY DEF TypeInv, TypeOK
<1>1. CASE Connect
  <2>1. resolve(pools[index]) \in Client /\ resolve(pools[index]).job = pools[index].job
        /\ TriesOn(resolve(pools[index]))
    BY <1>a, ResolveType, TriesOnStarts
  <2> QED BY <1>1, <1>a, <2>1, OnePoolInv DEF Connect
<1>2. ASSUME NEW p \in Pool, ResolveFails(p) PROVE Inv'
  <2> DEFINE d == [pools[p] EXCEPT !.resolving = FALSE]
  <2>1. d \in Client /\ d.job = pools[p].job /\ d.failures = pools[p].failures
    BY <1>a DEF Client
  <2>2. StrategyOnClose(p, reconnect(d))
    BY <1>2 DEF ResolveFails
  <2> HIDE DEF d
  <2>3. /\ reconnect(d) \in Client /\ reconnect(d).job = pools[p].job
        /\ pools[p].failures # -1 => reconnect(d).failures # -1 /\ TriesOn(reconnect(d))
    BY <2>1, ReconnectType, TriesOnStarts
  <2> QED BY <2>2, <2>3, StrategyOnCloseInv
<1>3. ASSUME NEW p \in Pool, Resolved(p) PROVE Inv'
  <2> DEFINE d == [pools[p] EXCEPT !.resolving = FALSE]
  <2>1. d \in Client /\ d.job = pools[p].job /\ d.failures = pools[p].failures
    BY <1>a DEF Client
  <2>2. PICK b \in BOOLEAN : pools' = [pools EXCEPT ![p] = connect(d, b)]
    BY <1>3 DEF Resolved
  <2> HIDE DEF d
  <2>3. /\ connect(d, b) \in Client /\ connect(d, b).job = pools[p].job
        /\ TriesOn(pools[p]) => TriesOn(connect(d, b))
    BY <2>1, ConnectType, TriesOnStarts DEF TriesOn
  <2> QED BY <1>3, <2>2, <2>3, OnePoolInv DEF Resolved, Idle
<1>4. ASSUME NEW p \in Pool, Connected(p) PROVE Inv'
  <2>1. PICK w \in BOOLEAN : pools' = [pools EXCEPT ![p] = onConnected(@, w)]
    BY <1>4 DEF Connected
  <2>2. /\ onConnected(pools[p], w) \in Client
        /\ onConnected(pools[p], w).job = pools[p].job
        /\ TriesOn(pools[p]) => TriesOn(onConnected(pools[p], w))
    BY <1>a, ConnectedType, TriesOnStarts DEF TriesOn
  <2> QED BY <1>4, <2>1, <2>2, OnePoolInv DEF Connected
<1>5. ASSUME NEW p \in Pool, ConnectFails(p) \/ ReadFails(p) PROVE Inv'
  <2>1. /\ close(pools[p]) \in Client /\ close(pools[p]).job = pools[p].job
        /\ TriesOn(pools[p]) => TriesOn(close(pools[p]))
    BY <1>a, CloseType, TriesOnFacts
  <2> QED BY <1>5, <2>1, OnePoolInv DEF ConnectFails, ReadFails
<1>6. ASSUME NEW p \in Pool, OnClose(p) PROVE Inv'
  <2>1. /\ onClose(pools[p]) \in Client /\ onClose(pools[p]).job = pools[p].job
        /\ pools[p].failures # -1 => onClose(pools[p]).failures # -1 /\ TriesOn(onClose(pools[p]))
    BY <1>a, OnCloseType, TriesOnStarts
  <2> QED BY <1>6, <2>1, StrategyOnCloseInv DEF OnClose
<1>c. ASSUME NEW p \in Pool, ReadsLine(p)
      PROVE  /\ HasSocket(pools[p])
             /\ startTimeout(pools[p]) \in Client
             /\ startTimeout(pools[p]).job = pools[p].job
             /\ startTimeout(pools[p]).failures = pools[p].failures
             /\ HasSocket(startTimeout(pools[p]))
             /\ TriesOn(pools[p]) => TriesOn(startTimeout(pools[p]))
  <2>1. HasSocket(pools[p])
    BY <1>c DEF ReadsLine, TypeInv, HasSocket
  <2> QED BY <1>a, <2>1, StartTimeoutType, TriesOnFacts DEF HasSocket
<1>7. ASSUME NEW p \in Pool, ParseError(p) PROVE Inv'
  <2> DEFINE c == startTimeout(pools[p])
  <2>1. c \in Client /\ c.job = pools[p].job /\ (TriesOn(pools[p]) => TriesOn(c))
    BY <1>7, <1>c DEF ParseError
  <2>2. pools' = [pools EXCEPT ![p] = close(c)]
    BY <1>7 DEF ParseError
  <2> HIDE DEF c
  <2>3. close(c) \in Client /\ close(c).job = pools[p].job
        /\ (TriesOn(pools[p]) => TriesOn(close(c)))
    BY <2>1, CloseType, TriesOnFacts
  <2> QED BY <1>7, <2>2, <2>3, OnePoolInv DEF ParseError
<1>8. ASSUME NEW p \in Pool, ParseOther(p) PROVE Inv'
  <2>1. pools' = [pools EXCEPT ![p] = startTimeout(pools[p])]
    BY <1>8 DEF ParseOther
  <2> QED BY <1>8, <1>c, <2>1, OnePoolInv DEF ParseOther
<1>9. ASSUME NEW p \in Pool, Ping(p) PROVE Inv'
  <2>1. PICK w \in BOOLEAN : pools' = [pools EXCEPT ![p] = ping(@, w)]
    BY <1>9 DEF Ping
  <2>2. /\ ping(pools[p], w) \in Client /\ ping(pools[p], w).job = pools[p].job
        /\ TriesOn(pools[p]) => TriesOn(ping(pools[p], w))
    BY <1>a, PingType, TriesOnFacts
  <2> QED BY <1>9, <2>1, <2>2, OnePoolInv DEF Ping
<1>10. ASSUME NEW p \in Pool, NEW j \in Jobs \cup {NoJob}, ParseLogin(p, j) PROVE Inv'
  <2> DEFINE c == startTimeout(pools[p])
             d == parseLogin(c, j)
  <2>1. c \in Client /\ c.job = pools[p].job /\ HasSocket(c)
        /\ (TriesOn(pools[p]) => TriesOn(c))
    BY <1>10, <1>c DEF ParseLogin
  <2>2. CASE ~Acceptable(c, j)
    <3>1. pools' = [pools EXCEPT ![p] = close(c)] /\ UNCHANGED <<active, index, job, paused, status>>
      BY <1>10, <2>2 DEF ParseLogin, parseLogin
    <3> HIDE DEF c
    <3>2. close(c) \in Client /\ close(c).job = pools[p].job
          /\ (TriesOn(pools[p]) => TriesOn(close(c)))
      BY <2>1, CloseType, TriesOnFacts
    <3> QED BY <3>1, <3>2, OnePoolInv
  <2>3. CASE Acceptable(c, j)
    <3> DEFINE ps == [pools EXCEPT ![p] = d]
    <3>1. OnLoginSuccess(p, d) /\ OnJobReceived(p, j) /\ UNCHANGED <<found, status>>
      BY <1>10, <2>3 DEF ParseLogin
    <3>2. d \in Client /\ d.job = j /\ d.failures = 0 /\ HasSocket(d)
      BY <2>1, <2>3, ParseLoginType DEF HasSocket
    <3>3. TriesOn(d)
      BY <3>2, TriesOnStarts
    <3> HIDE DEF d
    <3>4. LoginActive(p) \in Pool /\ active' = LoginActive(p)
          /\ (LoginActive(p) # p => LoginActive(p) = active /\ isActive)
      BY <1>a, <3>1 DEF LoginActive, isActive, OnLoginSuccess
    <3>5. index' = LoginActive(p)
      BY <1>a, <3>1, <3>4 DEF OnLoginSuccess, Inv, ActiveIsIndex, isActive
    <3>6. pools'[0] = ps[0] /\ pools'[LoginActive(p)] = ps[LoginActive(p)]
      BY <3>1, <3>4 DEF OnLoginSuccess
    <3>7. KeepsTrying'
      <4> SUFFICES ASSUME status' = "running" PROVE TriesOn(pools'[0]) /\ TriesOn(pools'[index'])
        BY DEF KeepsTrying
      <4>1. TriesOn(pools[0]) /\ TriesOn(pools[index])
        BY <3>1 DEF Inv, KeepsTrying
      <4>2. TriesOn(ps[0])
        BY <1>a, <3>3, <4>1
      <4>3. TriesOn(ps[LoginActive(p)])
        <5>1. CASE LoginActive(p) = p
          BY <1>a, <3>3, <5>1
        <5>2. CASE LoginActive(p) # p
          <6>1. LoginActive(p) = index
            BY <3>4, <5>2 DEF Inv, ActiveIsIndex
          <6> QED BY <1>a, <4>1, <5>2, <6>1
        <5> QED BY <5>1, <5>2
      <4> QED BY <3>5, <3>6, <4>2, <4>3
    <3>8. MinesForActive'
      <4> SUFFICES ASSUME status' = "running"
                   PROVE ~paused' /\ job' = [pool |-> active', job |-> pools'[active'].job]
        BY <3>4 DEF MinesForActive, isActive
      <4>1. CASE LoginActive(p) = p
        <5>1. job' = [pool |-> p, job |-> j] /\ paused' = FALSE
          BY <3>1, <3>4, <4>1 DEF OnJobReceived
        <5>2. pools'[p].job = j
          BY <1>a, <3>2, <3>6, <4>1
        <5> QED BY <3>4, <4>1, <5>1, <5>2
      <4>2. CASE LoginActive(p) # p
        <5>1. job' = job /\ paused' = paused /\ active' = active /\ isActive
          BY <3>1, <3>4, <4>2 DEF OnJobReceived
        <5>2. pools'[active] = pools[active]
          BY <1>a, <3>4, <3>6, <4>2
        <5> QED BY <3>1, <5>1, <5>2 DEF Inv, MinesForActive
      <4> QED BY <4>1, <4>2
    <3>9. ActiveIsIndex'
      BY <3>4, <3>5 DEF ActiveIsIndex
    <3> QED BY <3>7, <3>8, <3>9 DEF Inv
  <2> QED BY <2>2, <2>3
<1>11. ASSUME NEW p \in Pool, NEW j \in Jobs \cup {NoJob}, ParseJob(p, j) PROVE Inv'
  <2> DEFINE c == startTimeout(pools[p])
             d == parseJob(c, j)
  <2>1. c \in Client /\ c.job = pools[p].job /\ HasSocket(c) /\ c.failures = pools[p].failures
    BY <1>11, <1>c DEF ParseJob
  <2>2. /\ d \in Client /\ d.job = (IF Acceptable(c, j) THEN j ELSE pools[p].job)
        /\ d.failures = pools[p].failures /\ HasSocket(d)
    BY <2>1, ParseJobType DEF HasSocket
  <2>3. TriesOn(pools[p]) => TriesOn(d)
    BY <2>2, TriesOnStarts DEF TriesOn
  <2>4. pools' = [pools EXCEPT ![p] = d] /\ UNCHANGED <<active, index, status>>
        /\ (Acceptable(c, j) => OnJobReceived(p, j))
        /\ (~Acceptable(c, j) => UNCHANGED <<job, paused>>)
    BY <1>11 DEF ParseJob
  <2> HIDE DEF c, d
  <2>5. CASE ~(Acceptable(c, j) /\ active = p)
    <3>1. UNCHANGED <<job, paused>>
      BY <2>4, <2>5 DEF OnJobReceived
    <3>2. KeepsTrying'
      BY <1>a, <2>3, <2>4 DEF Inv, KeepsTrying
    <3>3. isActive => pools'[active].job = pools[active].job
      BY <1>a, <2>2, <2>4, <2>5 DEF isActive
    <3> QED BY <2>4, <3>1, <3>2, <3>3 DEF Inv, ActiveIsIndex, MinesForActive, isActive
  <2>6. CASE Acceptable(c, j) /\ active = p
    <3>1. job' = [pool |-> p, job |-> j] /\ paused' = FALSE
      BY <2>4, <2>6 DEF OnJobReceived
    <3>2. pools'[p].job = j
      BY <1>a, <2>2, <2>4, <2>6
    <3>3. KeepsTrying'
      BY <1>a, <2>3, <2>4 DEF Inv, KeepsTrying
    <3> QED BY <2>4, <2>6, <3>1, <3>2, <3>3 DEF Inv, ActiveIsIndex, MinesForActive, isActive
  <2> QED BY <2>5, <2>6
<1>12. ASSUME NEW due \in SUBSET Pool, Tick(due) PROVE Inv'
  <2>1. /\ pools' = [p \in Pool |-> IF p \in due THEN tick(pools[p]) ELSE pools[p]]
        /\ UNCHANGED <<active, index, job, paused>> /\ status = "running"
    BY <1>12 DEF Tick, Idle
  <2>2. \A q \in Pool : /\ pools'[q].job = pools[q].job
                        /\ TriesOn(pools[q]) => TriesOn(pools'[q])
    BY <1>a, <2>1, TickType, TriesOnFacts
  <2> QED BY <1>a, <2>1, <2>2 DEF Inv, ActiveIsIndex, MinesForActive, KeepsTrying, isActive
<1>13. CASE Found
  BY <1>13 DEF Found, Inv, ActiveIsIndex, MinesForActive, KeepsTrying, isActive
<1>14. CASE OnJobResult
  <2>1. CASE isActive
    <3>1. active \in Pool
      BY <1>a, <2>1 DEF isActive
    <3>2. PICK w \in BOOLEAN : pools' = [pools EXCEPT ![active] = send(@, w)]
      BY <1>14, <2>1 DEF OnJobResult
    <3>3. /\ send(pools[active], w) \in Client /\ send(pools[active], w).job = pools[active].job
          /\ TriesOn(pools[active]) => TriesOn(send(pools[active], w))
      BY <1>a, <3>1, SendType, TriesOnFacts
    <3> QED BY <1>14, <2>1, <3>1, <3>2, <3>3, OnePoolInv DEF OnJobResult
  <2>2. CASE ~isActive
    BY <1>14, <2>2 DEF OnJobResult, Inv, ActiveIsIndex, MinesForActive, KeepsTrying, isActive
  <2> QED BY <2>1, <2>2
<1>15. CASE Stop
  BY <1>15 DEF Stop, Inv, ActiveIsIndex, MinesForActive, KeepsTrying, isActive
<1>16. CASE UNCHANGED vars
  BY <1>16 DEF vars, Inv, ActiveIsIndex, MinesForActive, KeepsTrying, isActive
<1> QED
  BY <1>1, <1>2, <1>3, <1>4, <1>5, <1>6, <1>7, <1>8, <1>9, <1>10, <1>11, <1>12, <1>13,
     <1>14, <1>15, <1>16 DEF Next

\* The invariant, with the types, in every reachable state.
THEOREM Invariant == Spec => [](TypeInv /\ Inv)
BY InitTypeInv, NextTypeInv, InitInv, NextInv, PTL DEF Spec

\* The pool mined for is the pool whose loss makes the strategy advance.
THEOREM ActiveIsIndexHolds == Spec => []ActiveIsIndex
<1>1. Inv => ActiveIsIndex
  BY DEF Inv
<1> QED BY <1>1, Invariant, PTL

\* The workers hash the active pool's last job, and are paused without one.
THEOREM MinesForActiveHolds == Spec => []MinesForActive
<1>1. Inv => MinesForActive
  BY DEF Inv
<1> QED BY <1>1, Invariant, PTL

\* No lost wakeup: neither the primary nor the pool m_index is given up.
THEOREM KeepsTryingHolds == Spec => []KeepsTrying
<1>1. Inv => KeepsTrying
  BY DEF Inv
<1> QED BY <1>1, Invariant, PTL

-----------------------------------------------------------------------------
(***************************************************************************)
(* The sockets.  Every pool keeps ClientInv, the primary runs one attempt  *)
(* at a time, and the active pool has a socket: KeepsTrying says that its  *)
(* close callback, which drops the socket, is a failure that is counted.   *)
(***************************************************************************)
SocketInv == /\ \A p \in Pool : ClientInv(pools[p])
             /\ PrimaryOneAttempt
             /\ ActiveHasSocket

\* The initial state satisfies the invariant.
LEMMA InitSocketInv == Init => SocketInv
<1> SUFFICES ASSUME Init PROVE SocketInv
  OBVIOUS
<1>1. ASSUME NEW p \in Pool
      PROVE  /\ pools[p].state = "Unconnected" /\ pools[p].socket = "none"
             /\ ~pools[p].resolving
  BY FailoverAssumption DEF Init, NewClient
<1> QED BY <1>1, PoolFacts DEF Init, SocketInv, ClientInv, SocketFits, NoticesSilence,
           PrimaryOneAttempt, OneAttempt, ActiveHasSocket, isActive

\* A step that only replaces the record of one pool.
LEMMA OnePoolSocket ==
    ASSUME TypeInv, SocketInv, NEW p \in Pool, NEW c \in Client,
           pools' = [pools EXCEPT ![p] = c],
           ClientInv(c), OneAttempt(pools[p]) => OneAttempt(c),
           active' = active,
           status' = "running" => status = "running" /\ (HasSocket(pools[p]) => HasSocket(c))
    PROVE  SocketInv'
<1>1. pools \in [Pool -> Client] /\ active \in Pool \cup {-1} /\ 0 \in Pool /\ ~(-1 >= 0)
  BY PoolFacts DEF TypeInv, TypeOK
<1>2. \A q \in Pool : ClientInv(pools'[q])
  BY <1>1 DEF SocketInv
<1>3. PrimaryOneAttempt'
  BY <1>1 DEF SocketInv, PrimaryOneAttempt
<1>4. ActiveHasSocket'
  BY <1>1 DEF SocketInv, ActiveHasSocket, isActive, HasSocket
<1> QED BY <1>2, <1>3, <1>4 DEF SocketInv

\* A failure: the next pool that is started is never the primary.
LEMMA StrategyOnCloseSocket ==
    ASSUME TypeInv, Inv, SocketInv, NEW p \in Pool, NEW c \in Client, ClientInv(c),
           OneAttempt(pools[p]) => OneAttempt(c),
           c.failures = -1 <=> pools[p].failures = -1,
           StrategyOnClose(p, c)
    PROVE  SocketInv'
<1> USE PoolFacts
<1> DEFINE ps == [pools EXCEPT ![p] = c]
<1>1. /\ pools \in [Pool -> Client] /\ active \in Pool \cup {-1} /\ index \in Pool
      /\ ps \in [Pool -> Client]
  BY DEF TypeInv, TypeOK
<1>2. /\ \A q \in Pool : ClientInv(ps[q])
      /\ OneAttempt(ps[0])
  BY <1>1 DEF SocketInv, PrimaryOneAttempt
<1>3. active' = (IF c.failures # -1 /\ active = p THEN -1 ELSE active)
  BY DEF StrategyOnClose
<1>4. status' = "running" /\ active' >= 0 => active' = active /\ active # p /\ active \in Pool
  <2> SUFFICES ASSUME status' = "running", active' >= 0
               PROVE  active' = active /\ active # p /\ active \in Pool
    OBVIOUS
  <2>1. status = "running"
    BY DEF StrategyOnClose
  <2>2. active' = active /\ active \in Pool
    BY <1>1, <1>3
  <2>3. pools[active].failures # -1
    BY <2>1, <2>2 DEF Inv, ActiveIsIndex, KeepsTrying, TriesOn, isActive
  <2> QED BY <1>3, <2>2, <2>3
<1>5. status' = "running" => status = "running"
  BY DEF StrategyOnClose
<1>6. status' = "running" /\ active' >= 0 => HasSocket(ps[active'])
  BY <1>1, <1>4, <1>5 DEF SocketInv, ActiveHasSocket, isActive, HasSocket
<1>7. CASE Advances(p, c.failures)
  <2>1. index + 1 \in Pool /\ index + 1 # 0
    BY <1>1, <1>7 DEF Advances
  <2>2. pools' = [ps EXCEPT ![index + 1] = resolve(ps[index + 1])]
    BY <1>7 DEF StrategyOnClose
  <2>3. /\ resolve(ps[index + 1]) \in Client
        /\ resolve(ps[index + 1]).state = "HostLookup"
        /\ resolve(ps[index + 1]).socket = ps[index + 1].socket
    BY <1>1, <2>1, ResolveType DEF resolve, Client
  <2>4. ClientInv(resolve(ps[index + 1]))
    BY <2>3, ClientInvStates
  <2> HIDE DEF ps
  <2>5. \A q \in Pool : ClientInv(pools'[q])
    BY <1>1, <1>2, <2>1, <2>2, <2>4
  <2>6. PrimaryOneAttempt'
    BY <1>1, <1>2, <2>1, <2>2 DEF PrimaryOneAttempt
  <2>7. ActiveHasSocket'
    BY <1>1, <1>4, <1>6, <2>1, <2>2, <2>3 DEF ActiveHasSocket, isActive, HasSocket
  <2> QED BY <2>5, <2>6, <2>7 DEF SocketInv
<1>8. CASE ~Advances(p, c.failures)
  <2>1. pools' = ps
    BY <1>8 DEF StrategyOnClose
  <2> HIDE DEF ps
  <2> QED BY <1>2, <1>6, <2>1 DEF SocketInv, PrimaryOneAttempt, ActiveHasSocket, isActive, HasSocket
<1> QED BY <1>7, <1>8

\* Every callback preserves the invariant.
LEMMA NextSocketInv == TypeInv /\ Inv /\ SocketInv /\ [Next]_vars => SocketInv'
<1> SUFFICES ASSUME TypeInv, Inv, SocketInv, [Next]_vars PROVE SocketInv'
  OBVIOUS
<1> USE PoolFacts
<1>a. /\ pools \in [Pool -> Client] /\ index \in Pool /\ active \in Pool \cup {-1}
      /\ \A p \in Pool : pools[p] \in Client /\ ClientInv(pools[p])
  BY DEF TypeInv, TypeOK, SocketInv
<1>1. CASE Connect
  <2> DEFINE c == resolve(pools[index])
  <2>1. c \in Client /\ c.state = "HostLookup" /\ c.socket = pools[index].socket
    BY <1>a, ResolveType DEF resolve, Client
  <2>2. pools' = [pools EXCEPT ![index] = c] /\ UNCHANGED <<active, status>>
    BY <1>1 DEF Connect
  <2>3. OneAttempt(pools[index]) => OneAttempt(c)
    BY <1>1, <1>a, OneAttemptMoves DEF Connect
  <2> HIDE DEF c
  <2>4. ClientInv(c)
    BY <2>1, ClientInvStates
  <2> QED BY <1>a, <2>1, <2>2, <2>3, <2>4, OnePoolSocket DEF HasSocket
<1>2. ASSUME NEW p \in Pool, ResolveFails(p) PROVE SocketInv'
  <2> DEFINE d == [pools[p] EXCEPT !.resolving = FALSE]
             c == reconnect(d)
  <2>1. d \in Client /\ d.failures = pools[p].failures
    BY <1>a DEF Client
  <2>2. StrategyOnClose(p, c) /\ (OneAttempt(pools[p]) => OneAttempt(c))
    BY <1>2, <1>a, OneAttemptMoves DEF ResolveFails
  <2> HIDE DEF d
  <2>3. c \in Client /\ (c.failures = -1 <=> pools[p].failures = -1) /\ c.state = "Connecting"
    BY <2>1, ReconnectType
  <2> HIDE DEF c
  <2> QED BY <2>2, <2>3, ClientInvStates, StrategyOnCloseSocket
<1>3. ASSUME NEW p \in Pool, Resolved(p) PROVE SocketInv'
  <2> DEFINE d == [pools[p] EXCEPT !.resolving = FALSE]
  <2>0. PICK b \in BOOLEAN : pools' = [pools EXCEPT ![p] = connect(d, b)]
    BY <1>3 DEF Resolved
  <2> DEFINE c == connect(d, b)
  <2>1. d \in Client
    BY <1>a DEF Client
  <2>2. /\ pools' = [pools EXCEPT ![p] = c] /\ active' = active
        /\ OneAttempt(pools[p]) => OneAttempt(c)
        /\ status' = "running" => pools[p].socket = "none" /\ status = "running"
    BY <1>3, <1>a, <2>0, OneAttemptMoves DEF Resolved, FreesSocket, Idle
  <2> HIDE DEF d
  <2>3. c \in Client /\ c.state = "Connecting"
    BY <2>1, ConnectType DEF connect, Client
  <2> HIDE DEF c
  <2> QED BY <2>2, <2>3, ClientInvStates, OnePoolSocket DEF HasSocket
<1>4. ASSUME NEW p \in Pool, Connected(p) PROVE SocketInv'
  <2>1. PICK w \in BOOLEAN : pools' = [pools EXCEPT ![p] = onConnected(@, w)]
    BY <1>4 DEF Connected
  <2> DEFINE c == onConnected(pools[p], w)
  <2>2. /\ c \in Client /\ HasSocket(c) /\ ClientInv(c)
        /\ OneAttempt(pools[p]) => OneAttempt(c)
    BY <1>4, <1>a, ConnectedType, ClientInvWrites, OneAttemptMoves DEF Connected, HasSocket
  <2>3. /\ pools' = [pools EXCEPT ![p] = c] /\ active' = active
        /\ status' = "running" => status = "running"
    BY <1>4, <2>1 DEF Connected, Idle
  <2> HIDE DEF c
  <2> QED BY <2>2, <2>3, OnePoolSocket
<1>5. ASSUME NEW p \in Pool, ConnectFails(p) \/ ReadFails(p) PROVE SocketInv'
  <2> DEFINE c == close(pools[p])
  <2>1. /\ c \in Client /\ (HasSocket(pools[p]) => HasSocket(c)) /\ ClientInv(c)
        /\ OneAttempt(pools[p]) => OneAttempt(c)
    BY <1>a, CloseType, ClientInvClose, OneAttemptCloses DEF HasSocket
  <2>2. pools' = [pools EXCEPT ![p] = c] /\ UNCHANGED <<active, status>>
    BY <1>5 DEF ConnectFails, ReadFails
  <2> HIDE DEF c
  <2> QED BY <2>1, <2>2, OnePoolSocket
<1>6. ASSUME NEW p \in Pool, OnClose(p) PROVE SocketInv'
  <2> DEFINE c == onClose(pools[p])
  <2>1. /\ c \in Client /\ (c.failures = -1 <=> pools[p].failures = -1) /\ c.state = "Connecting"
        /\ OneAttempt(pools[p]) => OneAttempt(c)
        /\ StrategyOnClose(p, c)
    BY <1>6, <1>a, OnCloseType, OneAttemptMoves DEF OnClose
  <2> HIDE DEF c
  <2> QED BY <2>1, ClientInvStates, StrategyOnCloseSocket
<1>c. ASSUME NEW p \in Pool, ReadsLine(p)
      PROVE  /\ HasSocket(pools[p])
             /\ startTimeout(pools[p]) \in Client
             /\ HasSocket(startTimeout(pools[p]))
             /\ ClientInv(startTimeout(pools[p]))
             /\ OneAttempt(pools[p]) => OneAttempt(startTimeout(pools[p]))
  <2>1. HasSocket(pools[p])
    BY <1>c DEF ReadsLine, TypeInv, HasSocket
  <2> QED BY <1>a, <2>1, StartTimeoutType, ClientInvWrites, OneAttemptCloses DEF HasSocket
<1>7. ASSUME NEW p \in Pool, ParseError(p) PROVE SocketInv'
  <2> DEFINE d == startTimeout(pools[p])
             c == close(d)
  <2>1. d \in Client /\ HasSocket(d) /\ ClientInv(d) /\ (OneAttempt(pools[p]) => OneAttempt(d))
    BY <1>7, <1>c DEF ParseError
  <2>2. pools' = [pools EXCEPT ![p] = c] /\ UNCHANGED <<active, status>>
    BY <1>7 DEF ParseError
  <2> HIDE DEF d
  <2>3. c \in Client /\ HasSocket(c) /\ ClientInv(c) /\ (OneAttempt(d) => OneAttempt(c))
    BY <2>1, CloseType, ClientInvClose, OneAttemptCloses DEF HasSocket
  <2> HIDE DEF c
  <2> QED BY <2>1, <2>2, <2>3, OnePoolSocket
<1>8. ASSUME NEW p \in Pool, ParseOther(p) PROVE SocketInv'
  <2>1. pools' = [pools EXCEPT ![p] = startTimeout(pools[p])] /\ UNCHANGED <<active, status>>
        /\ ReadsLine(p)
    BY <1>8 DEF ParseOther
  <2> QED BY <1>c, <2>1, OnePoolSocket
<1>9. ASSUME NEW p \in Pool, Ping(p) PROVE SocketInv'
  <2>1. PICK w \in BOOLEAN : pools' = [pools EXCEPT ![p] = ping(@, w)]
    BY <1>9 DEF Ping
  <2> DEFINE c == ping(pools[p], w)
  <2>2. /\ c \in Client /\ (HasSocket(pools[p]) => HasSocket(c)) /\ ClientInv(c)
        /\ OneAttempt(pools[p]) => OneAttempt(c)
    BY <1>a, PingType, ClientInvWrites, OneAttemptCloses DEF HasSocket
  <2>3. pools' = [pools EXCEPT ![p] = c] /\ UNCHANGED <<active, status>>
    BY <1>9, <2>1 DEF Ping
  <2> HIDE DEF c
  <2> QED BY <2>2, <2>3, OnePoolSocket
<1>10. ASSUME NEW p \in Pool, NEW j \in Jobs \cup {NoJob}, ParseLogin(p, j) PROVE SocketInv'
  <2> DEFINE d == startTimeout(pools[p])
             c == parseLogin(d, j)
  <2>1. d \in Client /\ HasSocket(d) /\ ClientInv(d) /\ (OneAttempt(pools[p]) => OneAttempt(d))
    BY <1>10, <1>c DEF ParseLogin
  <2>2. c \in Client /\ HasSocket(c) /\ ClientInv(c) /\ (OneAttempt(d) => OneAttempt(c))
    BY <2>1, ParseLoginType, ClientInvLines, OneAttemptCloses DEF HasSocket
  <2>3. CASE ~Acceptable(d, j)
    <3>1. pools' = [pools EXCEPT ![p] = c] /\ UNCHANGED <<active, status>>
      BY <1>10, <2>3 DEF ParseLogin
    <3> HIDE DEF c, d
    <3> QED BY <2>1, <2>2, <3>1, OnePoolSocket
  <2>4. CASE Acceptable(d, j)
    <3> DEFINE ps == [pools EXCEPT ![p] = c]
    <3>1. OnLoginSuccess(p, c) /\ status' = status
      BY <1>10, <2>4 DEF ParseLogin
    <3> HIDE DEF c, d
    <3>2. /\ ps \in [Pool -> Client] /\ OneAttempt(ps[0]) /\ HasSocket(ps[p])
          /\ \A q \in Pool : ClientInv(ps[q])
      BY <1>a, <2>1, <2>2 DEF SocketInv, PrimaryOneAttempt
    <3>3. LoginActive(p) \in Pool /\ active' = LoginActive(p)
          /\ (LoginActive(p) # p => LoginActive(p) = active /\ isActive)
      BY <1>a, <3>1 DEF LoginActive, isActive, OnLoginSuccess
    <3>4. pools' = [i \in Pool |-> IF i = 0 \/ i = LoginActive(p) THEN ps[i]
                                   ELSE disconnect(ps[i])]
      BY <3>1 DEF OnLoginSuccess
    <3>5. status = "running" => HasSocket(ps[LoginActive(p)])
      BY <1>a, <3>2, <3>3 DEF SocketInv, ActiveHasSocket, HasSocket
    <3> HIDE DEF ps
    <3>6. \A q \in Pool : ClientInv(pools'[q])
      BY <3>2, <3>4, ClientInvClose
    <3>7. PrimaryOneAttempt' /\ ActiveHasSocket'
      BY <3>1, <3>2, <3>3, <3>4, <3>5 DEF PrimaryOneAttempt, ActiveHasSocket, HasSocket
    <3> QED BY <3>6, <3>7 DEF SocketInv
  <2> QED BY <2>3, <2>4
<1>11. ASSUME NEW p \in Pool, NEW j \in Jobs \cup {NoJob}, ParseJob(p, j) PROVE SocketInv'
  <2> DEFINE d == startTimeout(pools[p])
             c == parseJob(d, j)
  <2>1. d \in Client /\ HasSocket(d) /\ ClientInv(d) /\ (OneAttempt(pools[p]) => OneAttempt(d))
    BY <1>11, <1>c DEF ParseJob
  <2>2. c \in Client /\ HasSocket(c) /\ ClientInv(c) /\ (OneAttempt(d) => OneAttempt(c))
    BY <2>1, ParseJobType, ClientInvLines, OneAttemptCloses DEF HasSocket
  <2>3. pools' = [pools EXCEPT ![p] = c] /\ UNCHANGED <<active, status>>
    BY <1>11 DEF ParseJob
  <2> HIDE DEF c, d
  <2> QED BY <2>1, <2>2, <2>3, OnePoolSocket
<1>12. ASSUME NEW due \in SUBSET Pool, Tick(due) PROVE SocketInv'
  <2>1. /\ pools' = [p \in Pool |-> IF p \in due THEN tick(pools[p]) ELSE pools[p]]
        /\ active' = active /\ status = "running" /\ \A p \in due : pools[p].expire
    BY <1>12 DEF Tick, Idle
  <2>2. \A q \in Pool : /\ ClientInv(pools'[q])
                        /\ OneAttempt(pools[q]) => OneAttempt(pools'[q])
                        /\ HasSocket(pools[q]) => HasSocket(pools'[q])
    BY <1>a, <2>1, TickType, ClientInvWrites, OneAttemptMoves DEF HasSocket
  <2> QED BY <1>a, <2>1, <2>2
          DEF SocketInv, PrimaryOneAttempt, ActiveHasSocket, isActive, HasSocket
<1>13. CASE Found
  BY <1>13 DEF Found, SocketInv, PrimaryOneAttempt, ActiveHasSocket, isActive
<1>14. CASE OnJobResult
  <2>1. CASE isActive
    <3>1. active \in Pool
      BY <1>a, <2>1 DEF isActive
    <3>2. PICK w \in BOOLEAN : pools' = [pools EXCEPT ![active] = send(@, w)]
      BY <1>14, <2>1 DEF OnJobResult
    <3> DEFINE c == send(pools[active], w)
    <3>3. /\ c \in Client /\ (HasSocket(pools[active]) => HasSocket(c)) /\ ClientInv(c)
          /\ OneAttempt(pools[active]) => OneAttempt(c)
      BY <1>a, <3>1, SendType, ClientInvWrites, OneAttemptCloses DEF HasSocket
    <3>4. pools' = [pools EXCEPT ![active] = c] /\ UNCHANGED <<active, status>>
      BY <1>14, <2>1, <3>2 DEF OnJobResult
    <3> HIDE DEF c
    <3> QED BY <3>1, <3>3, <3>4, OnePoolSocket
  <2>2. CASE ~isActive
    BY <1>14, <2>2 DEF OnJobResult, SocketInv, PrimaryOneAttempt, ActiveHasSocket, isActive
  <2> QED BY <2>1, <2>2
<1>15. CASE Stop
  <2>1. pools' = [p \in Pool |-> disconnect(pools[p])] /\ status' = "stopped"
    BY <1>15 DEF Stop
  <2>2. \A q \in Pool : ClientInv(pools'[q])
    BY <1>a, <2>1, ClientInvClose
  <2>3. PrimaryOneAttempt'
    BY <1>a, <2>1, OneAttemptCloses DEF SocketInv, PrimaryOneAttempt
  <2> QED BY <2>1, <2>2, <2>3 DEF SocketInv, ActiveHasSocket
<1>16. CASE UNCHANGED vars
  BY <1>16 DEF vars, SocketInv, PrimaryOneAttempt, ActiveHasSocket, isActive
<1> QED
  BY <1>1, <1>2, <1>3, <1>4, <1>5, <1>6, <1>7, <1>8, <1>9, <1>10, <1>11, <1>12, <1>13,
     <1>14, <1>15, <1>16 DEF Next

\* The invariant on the sockets in every reachable state.
THEOREM SocketInvariant == Spec => [](TypeInv /\ Inv /\ SocketInv)
BY Invariant, InitSocketInv, NextSocketInv, PTL DEF Spec

\* The pool mined for has a socket that is open or closes, with its callback to
\* come: m_active never outlives the connection it stands for.
THEOREM ActiveHasSocketHolds == Spec => []ActiveHasSocket
<1>1. SocketInv => ActiveHasSocket
  BY DEF SocketInv
<1> QED BY <1>1, SocketInvariant, PTL

\* The primary's m_resolver and m_socket are never used for two attempts at once.
THEOREM PrimaryOneAttemptHolds == Spec => []PrimaryOneAttempt
<1>1. SocketInv => PrimaryOneAttempt
  BY DEF SocketInv
<1> QED BY <1>1, SocketInvariant, PTL

\* With keepalive, a connected pool has its response deadline or its keepalive
\* timer armed.
THEOREM SilenceNoticedHolds == Spec => []SilenceNoticed
<1>1. TypeInv /\ SocketInv => SilenceNoticed
  BY DEF TypeInv, SocketInv, ClientInv, NoticesSilence, SilenceNoticed
<1> QED BY <1>1, SocketInvariant, PTL

\* Only a login of the primary makes it active, and this disconnects every backup.
LEMMA NextStopsBackups ==
    ASSUME TypeInv, Inv, SocketInv, [Next]_vars, active # 0, active' = 0,
           NEW q \in Pool \ {0}
    PROVE  pools'[q].failures = -1 /\ pools'[q].socket \in {"none", "closing"}
<1> USE PoolFacts
<1>a. /\ pools \in [Pool -> Client] /\ active \in Pool \cup {-1}
      /\ \A p \in Pool : pools[p] \in Client /\ ClientInv(pools[p])
  BY DEF TypeInv, TypeOK, SocketInv
<1>1. PICK p \in Pool : \E j \in Jobs \cup {NoJob} : ParseLogin(p, j)
  BY <1>a DEF Next, vars, Connect, ResolveFails, OnClose, StrategyOnClose, Resolved, Connected,
     ConnectFails, ReadFails, ParseJob, ParseError, ParseOther, Ping, Tick, Found, OnJobResult, Stop
<1>2. PICK j \in Jobs \cup {NoJob} : ParseLogin(p, j)
  BY <1>1
<1> DEFINE d == startTimeout(pools[p])
           c == parseLogin(d, j)
<1>3. OnLoginSuccess(p, c)
  BY <1>2 DEF ParseLogin
<1>4. d \in Client /\ ClientInv(d)
  BY <1>a, StartTimeoutType, ClientInvWrites
<1>5. c \in Client /\ ClientInv(c)
  BY <1>4, ParseLoginType, ClientInvLines
<1> HIDE DEF c, d
<1>6. LoginActive(p) = 0
  BY <1>3 DEF OnLoginSuccess
<1> DEFINE ps == [pools EXCEPT ![p] = c]
<1>7. pools'[q] = disconnect(ps[q])
  BY <1>3, <1>6 DEF OnLoginSuccess
<1>8. ps[q] \in Client /\ ClientInv(ps[q])
  BY <1>a, <1>5
<1> QED BY <1>7, <1>8, ClientInvClose

\* Switching to the primary stops every backup, whatever state it is in: onLoginSuccess
\* disconnects backups that connect, are connected, close, or wait for a retry.
THEOREM PrimaryStopsBackupsHolds == Spec => PrimaryStopsBackups
<1>1. TypeInv /\ Inv /\ SocketInv /\ [Next]_vars =>
          [active # 0 /\ active' = 0 =>
             \A p \in Pool \ {0} : /\ pools'[p].failures = -1
                                   /\ pools'[p].socket \in {"none", "closing"}]_vars
  BY NextStopsBackups
<1> QED BY <1>1, SocketInvariant, PTL DEF Spec, PrimaryStopsBackups

-----------------------------------------------------------------------------
(***************************************************************************)
(* FailoverStrategy implements PoolSelection.                              *)
(***************************************************************************)
work == IF paused THEN NoPool ELSE job

\* Every callback is a step of PoolSelection or leaves the selection alone.
LEMMA NextSelects ==
    TypeInv /\ Inv /\ [Next]_vars => [Selection!Next]_<<active, work>>
<1> SUFFICES ASSUME TypeInv, Inv, [Next]_vars,
                    ~UNCHANGED <<active, work>>
             PROVE  Selection!Next
  OBVIOUS
<1> USE PoolFacts
<1>a. active \in Pool \cup {-1}
  BY DEF TypeInv, TypeOK
<1>b. ~UNCHANGED <<active, job, paused>>
  BY DEF work
<1>1. ASSUME NEW p \in Pool, NEW c, StrategyOnClose(p, c) PROVE Selection!Next
  <2>1. c.failures # -1 /\ active = p
    BY <1>1, <1>a, <1>b DEF StrategyOnClose, TypeInv, TypeOK
  <2>2. active' = -1 /\ paused' /\ active # -1
    BY <1>1, <2>1 DEF StrategyOnClose
  <2>3. Selection!Lose
    BY <2>2 DEF Selection!Lose
  <2> QED BY <2>3 DEF Selection!Next
<1>2. ASSUME NEW p \in Pool, NEW j \in Jobs \cup {NoJob}, j # NoJob,
             OnJobReceived(p, j), active' \in {active, LoginActive(p)}
      PROVE  Selection!Next \/ (active' # p /\ active' = active)
  <2>1. CASE active' = p
    <3>1. job' = [pool |-> p, job |-> j] /\ paused' = FALSE /\ j \in Jobs
      BY <1>2, <2>1 DEF OnJobReceived
    <3>2. CASE active = p
      <4>1. Selection!NewJob(j)
        BY <2>1, <3>1, <3>2 DEF Selection!NewJob, Selection!Work
      <4> QED BY <3>1, <4>1 DEF Selection!Next
    <3>3. CASE active # p
      <4>1. active = -1 \/ p = 0
        BY <1>2, <1>a, <2>1, <3>3 DEF LoginActive, isActive
      <4>2. Selection!Select(p, j)
        BY <2>1, <3>1, <4>1 DEF Selection!Select, Selection!Work
      <4> QED BY <3>1, <4>2 DEF Selection!Next
    <3> QED BY <3>2, <3>3
  <2>2. CASE active' # p
    BY <1>2, <1>a, <2>2 DEF LoginActive
  <2> QED BY <2>1, <2>2
<1>3. ASSUME NEW p \in Pool, NEW j \in Jobs \cup {NoJob}, ParseLogin(p, j)
      PROVE  Selection!Next
  <2>1. Acceptable(startTimeout(pools[p]), j)
    BY <1>3, <1>b DEF ParseLogin
  <2>2. OnJobReceived(p, j) /\ active' = LoginActive(p) /\ j # NoJob
    BY <1>3, <2>1 DEF ParseLogin, OnLoginSuccess, Acceptable
  <2> QED BY <1>2, <1>b, <2>2 DEF OnJobReceived
<1>4. ASSUME NEW p \in Pool, NEW j \in Jobs \cup {NoJob}, ParseJob(p, j)
      PROVE  Selection!Next
  <2>1. active' = active
    BY <1>4 DEF ParseJob
  <2>2. Acceptable(startTimeout(pools[p]), j)
    BY <1>4, <1>b DEF ParseJob
  <2>3. OnJobReceived(p, j) /\ j # NoJob
    BY <1>4, <2>2 DEF ParseJob, Acceptable
  <2> QED BY <1>2, <1>b, <2>1, <2>3 DEF OnJobReceived
<1>5. CASE Stop
  <2>1. active' = -1 /\ paused' /\ status = "running"
    BY <1>5 DEF Stop, Idle
  <2>2. active # -1
    BY <2>1, <1>a DEF Inv, MinesForActive, isActive, work
  <2>3. Selection!Lose
    BY <2>1, <2>2 DEF Selection!Lose
  <2> QED BY <2>3 DEF Selection!Next
<1>6. ASSUME NEW p \in Pool, ResolveFails(p) \/ OnClose(p) PROVE Selection!Next
  BY <1>1, <1>6 DEF ResolveFails, OnClose
<1> QED
  BY <1>b, <1>3, <1>4, <1>5, <1>6
     DEF Next, vars, Connect, Resolved, Connected, ConnectFails, ReadFails, ParseError,
         ParseOther, Ping, Tick, Found, OnJobResult

\* The failover strategy implements its abstract specification: it selects one
\* pool at a time, and only the primary ever replaces an active one.
THEOREM Refinement == Spec => SelectsPools
<1>1. Init => Selection!Init
  BY DEF Init, Selection!Init
<1>2. TypeInv /\ Inv /\ [Next]_vars => [Selection!Next]_<<active, IF paused THEN NoPool ELSE job>>
  BY NextSelects DEF work
<1> QED BY <1>1, <1>2, Invariant, PTL DEF Spec, SelectsPools, Selection!Spec

=============================================================================
