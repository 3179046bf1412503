---------------------------- MODULE ClientProofs ----------------------------
(***************************************************************************)
(* Lemmas about the methods of a client, for the proofs about the modules  *)
(* that own clients.                                                       *)
(***************************************************************************)
EXTENDS Client, TLAPS

(***************************************************************************)
(* What the methods of a client return, change and keep.                   *)
(***************************************************************************)

\* The values m_failures takes in disconnect(), resolve() and reconnect().
LEMMA FailuresFacts ==
    /\ -1 \in Failures /\ 0 \in Failures
    /\ \A f \in Failures : NextFailure(f) \in Failures
    /\ \A f \in Failures : f # -1 => NextFailure(f) # -1
BY ClientAssumption DEF Failures, NextFailure

\* The constructor returns a client that has met no failure and has no socket.
LEMMA NewClientType ==
    ASSUME NEW u \in Url
    PROVE  /\ NewClient(u) \in Client
           /\ NewClient(u).url = u /\ NewClient(u).failures = 0
           /\ NewClient(u).state = "Unconnected" /\ NewClient(u).socket = "none"
BY FailuresFacts DEF NewClient, Client, SocketState, Socket

\* resolve() ends the effect of an earlier disconnect() and starts a lookup.
LEMMA ResolveType ==
    ASSUME NEW c \in Client
    PROVE  /\ resolve(c) \in Client
           /\ resolve(c).url = c.url /\ resolve(c).job = c.job
           /\ resolve(c).socket = c.socket /\ resolve(c).failures # -1
           /\ c.url.resolvable => resolve(c).resolving
<1> DEFINE f == IF c.failures = -1 THEN 0 ELSE c.failures
           b == c.resolving \/ c.url.resolvable
<1>1. f \in Failures /\ f # -1 /\ b \in BOOLEAN
  BY FailuresFacts DEF Client, Url
<1>2. resolve(c) = [c EXCEPT !.state = "HostLookup", !.expire = FALSE,
                             !.failures = f, !.resolving = b]
  BY DEF resolve
<1>3. c.url.resolvable => b
  OBVIOUS
<1> HIDE DEF f, b
<1> QED BY <1>1, <1>2, <1>3 DEF Client, SocketState

\* close() keeps everything but the state and the socket, and drops no socket.
LEMMA CloseType ==
    ASSUME NEW c \in Client
    PROVE  /\ close(c) \in Client
           /\ close(c).url = c.url /\ close(c).job = c.job
           /\ close(c).failures = c.failures /\ close(c).expire = c.expire
           /\ close(c).resolving = c.resolving
           /\ c.socket # "none" => close(c).socket # "none"
           /\ c.socket = "none" => close(c) = c
           /\ c.socket \in {"open", "closing"} => close(c).socket \in {"open", "closing"}
           /\ close(c) = c \/ close(c).socket = "closing"
           /\ close(c).state = "Unconnected" <=> c.state = "Unconnected"
BY DEF close, Client, SocketState, Socket

\* disconnect() marks the client as not wanted and closes its socket.
LEMMA DisconnectType ==
    ASSUME NEW c \in Client
    PROVE  /\ disconnect(c) \in Client
           /\ disconnect(c).url = c.url /\ disconnect(c).job = c.job
           /\ c.socket \in {"open", "closing"} => disconnect(c).socket \in {"open", "closing"}
<1> DEFINE d == [c EXCEPT !.ping = FALSE, !.expire = FALSE, !.failures = -1]
<1>1. d \in Client /\ d.url = c.url /\ d.job = c.job /\ d.socket = c.socket
  BY FailuresFacts DEF Client
<1> HIDE DEF d
<1>2. disconnect(c) = close(d)
  BY DEF disconnect, d
<1> QED BY <1>1, <1>2, CloseType

\* reconnect() schedules a retry unless the client was disconnected.
LEMMA ReconnectType ==
    ASSUME NEW c \in Client
    PROVE  /\ reconnect(c) \in Client
           /\ reconnect(c).url = c.url /\ reconnect(c).job = c.job
           /\ reconnect(c).socket = c.socket
           /\ reconnect(c).state = "Connecting"
           /\ reconnect(c).failures = -1 <=> c.failures = -1
           /\ c.failures # -1 => reconnect(c).expire
<1> DEFINE b == c.ping /\ ~c.url.keepAlive
           f == NextFailure(c.failures)
<1>1. b \in BOOLEAN /\ f \in Failures /\ (c.failures # -1 => f # -1)
  BY FailuresFacts DEF Client
<1>2. reconnect(c) = IF c.failures = -1
                     THEN [c EXCEPT !.state = "Connecting", !.ping = b]
                     ELSE [c EXCEPT !.state = "Connecting", !.ping = b,
                                    !.failures = f, !.expire = TRUE]
  BY DEF reconnect
<1> HIDE DEF b, f
<1>3. CASE c.failures = -1
  <2>1. reconnect(c) = [c EXCEPT !.state = "Connecting", !.ping = b]
    BY <1>2, <1>3
  <2> QED BY <1>1, <1>3, <2>1 DEF Client, SocketState
<1>4. CASE c.failures # -1
  <2>1. reconnect(c) = [c EXCEPT !.state = "Connecting", !.ping = b,
                                 !.failures = f, !.expire = TRUE]
    BY <1>2, <1>4
  <2> QED BY <1>1, <1>4, <2>1 DEF Client, SocketState
<1> QED BY <1>3, <1>4

\* connect(addr) gives the client a new socket.
LEMMA ConnectType ==
    ASSUME NEW c \in Client, NEW b \in BOOLEAN
    PROVE  /\ connect(c, b) \in Client
           /\ connect(c, b).url = c.url /\ connect(c, b).job = c.job
           /\ connect(c, b).failures = c.failures
           /\ connect(c, b).socket \in {"idle", "connecting"}
<1> DEFINE s == IF b THEN "connecting" ELSE "idle"
<1>1. s \in {"idle", "connecting"}
  OBVIOUS
<1>2. connect(c, b) = [c EXCEPT !.state = "Connecting", !.socket = s]
  BY DEF connect
<1> HIDE DEF s
<1> QED BY <1>1, <1>2 DEF Client, SocketState, Socket

\* The close callback drops the socket and schedules a retry, if one is wanted.
LEMMA OnCloseType ==
    ASSUME NEW c \in Client
    PROVE  /\ onClose(c) \in Client
           /\ onClose(c).url = c.url /\ onClose(c).job = c.job
           /\ onClose(c).socket = "none"
           /\ onClose(c).state = "Connecting"
           /\ onClose(c).failures = -1 <=> c.failures = -1
           /\ c.failures # -1 => onClose(c).expire
<1> DEFINE d == [c EXCEPT !.socket = "none", !.state = "Unconnected"]
<1>1. d \in Client /\ d.url = c.url /\ d.job = c.job
      /\ d.socket = "none" /\ d.failures = c.failures
  BY DEF Client, Socket, SocketState
<1> HIDE DEF d
<1>2. onClose(c) = reconnect(d)
  BY DEF onClose, d
<1> QED BY <1>1, <1>2, ReconnectType

\* send() keeps the socket, and a client that will be called back stays so.
LEMMA SendType ==
    ASSUME NEW c \in Client, NEW w \in BOOLEAN
    PROVE  /\ send(c, w) \in Client
           /\ send(c, w).url = c.url /\ send(c, w).job = c.job
           /\ send(c, w).failures = c.failures
           /\ c.socket \in {"open", "closing"} => send(c, w).socket \in {"open", "closing"}
           /\ send(c, w).state = "Unconnected" <=> c.state = "Unconnected"
           /\ Wakes(c) => Wakes(send(c, w))
           /\ c.socket = "idle" => send(c, w).socket = "idle" \/ Wakes(send(c, w))
<1>1. CASE c.state # "Connected"
  BY <1>1 DEF send
<1>2. CASE c.state = "Connected" /\ w
  <2>1. send(c, w) = [c EXCEPT !.expire = TRUE]
    BY <1>2 DEF send
  <2> QED BY <1>2, <2>1 DEF Client, Wakes
<1>3. CASE c.state = "Connected" /\ ~w
  <2>1. send(c, w) = close(c)
    BY <1>3 DEF send
  <2> QED BY <1>3, <2>1, CloseType DEF Wakes
<1> QED BY <1>1, <1>2, <1>3

\* A connected client is read from, or already closes after a failed login.
LEMMA ConnectedType ==
    ASSUME NEW c \in Client, NEW w \in BOOLEAN
    PROVE  /\ onConnected(c, w) \in Client
           /\ onConnected(c, w).url = c.url /\ onConnected(c, w).job = c.job
           /\ onConnected(c, w).failures = c.failures
           /\ onConnected(c, w).socket \in {"open", "closing"}
<1> DEFINE d == [c EXCEPT !.state = "Connected", !.socket = "open"]
<1>1. d \in Client /\ d.url = c.url /\ d.job = c.job
      /\ d.socket = "open" /\ d.failures = c.failures
  BY DEF Client, Socket, SocketState
<1> HIDE DEF d
<1>2. onConnected(c, w) \in {send(d, w), d}
  BY DEF onConnected, login, d
<1> QED BY <1>1, <1>2, SendType

\* The keepalive request is a send().
LEMMA PingType ==
    ASSUME NEW c \in Client, NEW w \in BOOLEAN
    PROVE  /\ ping(c, w) \in Client
           /\ ping(c, w).url = c.url /\ ping(c, w).job = c.job
           /\ ping(c, w).failures = c.failures
           /\ c.socket \in {"open", "closing"} => ping(c, w).socket \in {"open", "closing"}
           /\ ping(c, w).state = "Unconnected" <=> c.state = "Unconnected"
           /\ Wakes(c) => Wakes(ping(c, w))
           /\ c.socket = "idle" => ping(c, w).socket = "idle" \/ Wakes(ping(c, w))
<1> DEFINE d == [c EXCEPT !.ping = FALSE]
<1>1. d \in Client /\ d.url = c.url /\ d.job = c.job /\ d.socket = c.socket
      /\ d.failures = c.failures /\ d.state = c.state /\ (Wakes(c) => Wakes(d))
  BY DEF Client, Wakes
<1> HIDE DEF d
<1>2. ping(c, w) = send(d, w)
  BY DEF ping, d
<1> QED BY <1>1, <1>2, SendType

\* Reading a line only touches the two timers.
LEMMA StartTimeoutType ==
    ASSUME NEW c \in Client
    PROVE  /\ startTimeout(c) \in Client
           /\ startTimeout(c).url = c.url /\ startTimeout(c).job = c.job
           /\ startTimeout(c).failures = c.failures
           /\ startTimeout(c).socket = c.socket
<1> DEFINE b == c.ping \/ c.url.keepAlive
<1>1. b \in BOOLEAN
  BY DEF Client, Url
<1>2. startTimeout(c) = [c EXCEPT !.expire = FALSE, !.ping = b]
  BY DEF startTimeout
<1> HIDE DEF b
<1> QED BY <1>1, <1>2 DEF Client

\* A due deadline closes the connection or starts the next lookup.
LEMMA TickType ==
    ASSUME NEW c \in Client
    PROVE  /\ tick(c) \in Client
           /\ tick(c).url = c.url /\ tick(c).job = c.job
           /\ c.failures # -1 => tick(c).failures # -1
           /\ c.socket \in {"open", "closing"} => tick(c).socket \in {"open", "closing"}
           /\ c.state = "Unconnected" => tick(c) = c
           /\ c.url.resolvable /\ Wakes(c) => Wakes(tick(c))
           /\ c.socket = "idle" => tick(c).socket = "idle" \/ Wakes(tick(c))
<1>1. CASE c.state = "Connected"
  <2>1. tick(c) = close(c)
    BY <1>1 DEF tick
  <2> QED BY <1>1, <2>1, CloseType DEF Wakes
<1>2. CASE c.state = "Connecting"
  <2>1. tick(c) = resolve(c)
    BY <1>2 DEF tick
  <2> QED BY <1>2, <2>1, ResolveType DEF Wakes
<1>3. CASE c.state \notin {"Connected", "Connecting"}
  <2>1. tick(c) = c
    BY <1>3 DEF tick
  <2> QED BY <2>1
<1> QED BY <1>1, <1>2, <1>3

\* A job notification replaces the job, closes the connection or does nothing.
LEMMA ParseJobType ==
    ASSUME NEW c \in Client, NEW j \in Jobs \cup {NoJob}
    PROVE  /\ parseJob(c, j) \in Client
           /\ parseJob(c, j).url = c.url
           /\ parseJob(c, j).job = IF Acceptable(c, j) THEN j ELSE c.job
           /\ parseJob(c, j).failures = c.failures
           /\ c.socket \in {"open", "closing"} => parseJob(c, j).socket \in {"open", "closing"}
<1>1. CASE Acceptable(c, j)
  <2>1. parseJob(c, j) = [c EXCEPT !.job = j]
    BY <1>1 DEF parseJob, Acceptable
  <2> QED BY <1>1, <2>1 DEF Client
<1>2. CASE j = NoJob
  BY <1>2 DEF parseJob, Acceptable
<1>3. CASE j = c.job /\ j # NoJob
  <2>1. parseJob(c, j) = close(c)
    BY <1>3 DEF parseJob, Acceptable
  <2> QED BY <1>3, <2>1, CloseType DEF Acceptable
<1> QED BY <1>1, <1>2, <1>3 DEF Acceptable

\* A login stores the job and forgets the failures, or closes the connection.
LEMMA ParseLoginType ==
    ASSUME NEW c \in Client, NEW j \in Jobs \cup {NoJob}
    PROVE  /\ parseLogin(c, j) \in Client
           /\ parseLogin(c, j).url = c.url
           /\ parseLogin(c, j).job = IF Acceptable(c, j) THEN j ELSE c.job
           /\ parseLogin(c, j).failures = IF Acceptable(c, j) THEN 0 ELSE c.failures
           /\ c.socket \in {"open", "closing"} => parseLogin(c, j).socket \in {"open", "closing"}
<1>1. CASE Acceptable(c, j)
  <2>1. parseLogin(c, j) = [c EXCEPT !.job = j, !.failures = 0]
    BY <1>1 DEF parseLogin
  <2> QED BY <1>1, <2>1, FailuresFacts DEF Client
<1>2. CASE ~Acceptable(c, j)
  BY <1>2, CloseType DEF parseLogin
<1> QED BY <1>1, <1>2
-----------------------------------------------------------------------------
\* The client is connected, or was and is closing.
HasSocket(c) == c.socket \in {"open", "closing"}

\* No method but disconnect() makes a client that tries on give up.
LEMMA TriesOnFacts ==
    ASSUME NEW c \in Client, TriesOn(c)
    PROVE  /\ TriesOn(close(c))
           /\ TriesOn(tick(c))
           /\ HasSocket(c) => TriesOn(startTimeout(c))
           /\ \A w \in BOOLEAN : TriesOn(send(c, w)) /\ TriesOn(ping(c, w))
<1>1. TriesOn(close(c))
  <2>1. CASE close(c) = c
    BY <2>1
  <2>2. CASE close(c).socket = "closing"
    BY <2>2, CloseType DEF TriesOn, Wakes, Stranded
  <2> QED BY <2>1, <2>2, CloseType
<1>2. TriesOn(tick(c))
  <2>1. CASE c.state = "Unconnected"
    BY <2>1, TickType
  <2>2. CASE c.state # "Unconnected"
    BY <2>2, TickType DEF TriesOn, Stranded
  <2> QED BY <2>1, <2>2
<1>3. HasSocket(c) => TriesOn(startTimeout(c))
  BY StartTimeoutType DEF TriesOn, Wakes, HasSocket, Stranded
<1>4. ASSUME NEW w \in BOOLEAN PROVE TriesOn(send(c, w)) /\ TriesOn(ping(c, w))
  BY SendType, PingType DEF TriesOn, Stranded
<1> QED BY <1>1, <1>2, <1>3, <1>4

\* A lookup, a connect and a scheduled retry each keep a client trying.
LEMMA TriesOnStarts ==
    ASSUME NEW c \in Client
    PROVE  /\ TriesOn(resolve(c))
           /\ c.failures # -1 => TriesOn(reconnect(c)) /\ TriesOn(onClose(c))
           /\ c.failures # -1 => \A b \in BOOLEAN : TriesOn(connect(c, b))
           /\ c.failures # -1 => \A w \in BOOLEAN : TriesOn(onConnected(c, w))
           /\ c.failures # -1 /\ HasSocket(c) => TriesOn(c)
<1>1. TriesOn(resolve(c))
  BY ResolveType DEF TriesOn, Wakes, Stranded
<1>2. c.failures # -1 => TriesOn(reconnect(c)) /\ TriesOn(onClose(c))
  BY ReconnectType, OnCloseType DEF TriesOn, Wakes
<1>3. c.failures # -1 => \A w \in BOOLEAN : TriesOn(onConnected(c, w))
  BY ConnectedType DEF TriesOn, Wakes
<1>4. c.failures # -1 /\ HasSocket(c) => TriesOn(c)
  BY DEF TriesOn, Wakes, HasSocket
<1>5. c.failures # -1 => \A b \in BOOLEAN : TriesOn(connect(c, b))
  BY ConnectType DEF TriesOn, Wakes, Stranded
<1> QED BY <1>1, <1>2, <1>3, <1>4, <1>5
-----------------------------------------------------------------------------
(***************************************************************************)
(* m_state and m_socket.  A client is connected exactly while its stream   *)
(* is read, and then a silence of the pool is noticed, with keepalive: a   *)
(* deadline or the timer that sets one is armed.                           *)
(***************************************************************************)
SocketFits(c) == /\ c.state = "Unconnected" => c.socket = "none"
                 /\ c.state = "Closing" => c.socket = "closing"
                 /\ c.state = "Connected" => c.socket = "open"

NoticesSilence(c) ==
    c.url.keepAlive /\ c.url.login # "refused" /\ c.state = "Connected" => c.expire \/ c.ping

ClientInv(c) == SocketFits(c) /\ NoticesSilence(c)

\* A client in another state than these three satisfies both.
LEMMA ClientInvStates ==
    ASSUME NEW c \in Client, c.state \in {"HostLookup", "Connecting"}
    PROVE  ClientInv(c)
BY DEF ClientInv, SocketFits, NoticesSilence

\* close() and disconnect() leave no client connected.
LEMMA ClientInvClose ==
    ASSUME NEW c \in Client, ClientInv(c)
    PROVE  /\ ClientInv(close(c)) /\ close(c).state # "Connected"
           /\ ClientInv(disconnect(c))
           /\ disconnect(c).failures = -1
           /\ disconnect(c).socket \in {"none", "closing"}
<1>1. ASSUME NEW d \in Client, SocketFits(d)
      PROVE  /\ SocketFits(close(d)) /\ close(d).state # "Connected"
             /\ close(d).socket \in {"none", "closing"}
  BY <1>1 DEF close, SocketFits, Client, SocketState, Socket
<1>2. ClientInv(close(c)) /\ close(c).state # "Connected"
  BY <1>1 DEF ClientInv, NoticesSilence
<1> DEFINE d == [c EXCEPT !.ping = FALSE, !.expire = FALSE, !.failures = -1]
<1>3. d \in Client /\ d.state = c.state /\ d.socket = c.socket /\ d.failures = -1
  BY FailuresFacts DEF Client
<1>4. disconnect(c) = close(d)
  BY DEF disconnect
<1> HIDE DEF d
<1>5. SocketFits(d)
  BY <1>3 DEF ClientInv, SocketFits
<1> QED BY <1>1, <1>2, <1>3, <1>4, <1>5, CloseType DEF ClientInv, NoticesSilence

\* A write arms the deadline or closes the connection, and a line that is read
\* starts the keepalive timer.
LEMMA ClientInvWrites ==
    ASSUME NEW c \in Client, ClientInv(c)
    PROVE  /\ \A w \in BOOLEAN : ClientInv(send(c, w)) /\ ClientInv(ping(c, w))
           /\ \A w \in BOOLEAN : ClientInv(onConnected(c, w))
           /\ ClientInv(startTimeout(c))
           /\ ClientInv(tick(c))
<1>1. ASSUME NEW d \in Client, SocketFits(d), NEW w \in BOOLEAN, d.state = "Connected"
      PROVE  ClientInv(send(d, w))
  <2>1. CASE w
    <3>1. send(d, w) = [d EXCEPT !.expire = TRUE]
      BY <1>1, <2>1 DEF send
    <3> QED BY <1>1, <3>1 DEF Client, ClientInv, SocketFits, NoticesSilence
  <2>2. CASE ~w
    <3>1. send(d, w) = close(d)
      BY <1>1, <2>2 DEF send
    <3> QED BY <1>1, <3>1 DEF close, Client, SocketState, Socket, ClientInv, SocketFits,
                              NoticesSilence
  <2> QED BY <2>1, <2>2
<1>2. ASSUME NEW w \in BOOLEAN PROVE ClientInv(send(c, w))
  <2>1. c.state # "Connected" => send(c, w) = c
    BY DEF send
  <2> QED BY <1>1, <2>1 DEF ClientInv
<1>3. ASSUME NEW w \in BOOLEAN PROVE ClientInv(ping(c, w))
  <2> DEFINE d == [c EXCEPT !.ping = FALSE]
  <2>1. d \in Client /\ d.state = c.state /\ d.socket = c.socket
    BY DEF Client
  <2>2. ping(c, w) = send(d, w) /\ (d.state # "Connected" => send(d, w) = d)
    BY DEF ping, send
  <2> HIDE DEF d
  <2>3. SocketFits(d)
    BY <2>1 DEF ClientInv, SocketFits
  <2>4. d.state # "Connected" => ClientInv(d)
    BY <2>3 DEF ClientInv, NoticesSilence
  <2> QED BY <1>1, <2>1, <2>2, <2>3, <2>4
<1>4. ASSUME NEW w \in BOOLEAN PROVE ClientInv(onConnected(c, w))
  <2> DEFINE d == [c EXCEPT !.state = "Connected", !.socket = "open"]
  <2>1. d \in Client /\ d.state = "Connected" /\ d.socket = "open"
    BY DEF Client, SocketState, Socket
  <2>2. onConnected(c, w) = IF d.url.login = "refused" THEN d ELSE send(d, w)
    BY DEF onConnected, login
  <2> HIDE DEF d
  <2>3. SocketFits(d) /\ (d.url.login = "refused" => ClientInv(d))
    BY <2>1 DEF ClientInv, SocketFits, NoticesSilence
  <2> QED BY <1>1, <2>1, <2>2, <2>3
<1>5. ClientInv(startTimeout(c))
  <2> DEFINE b == c.ping \/ c.url.keepAlive
             d == [c EXCEPT !.expire = FALSE, !.ping = b]
  <2>1. startTimeout(c) = d /\ (c.url.keepAlive => b)
    BY DEF startTimeout
  <2>2. d.url = c.url /\ d.state = c.state /\ d.socket = c.socket /\ d.ping = b
    BY DEF Client
  <2> HIDE DEF b, d
  <2> QED BY <2>1, <2>2 DEF ClientInv, SocketFits, NoticesSilence
<1>6. ClientInv(tick(c))
  <2>1. CASE c.state = "Connecting"
    <3>1. tick(c) = resolve(c) /\ resolve(c).state = "HostLookup"
      BY <2>1 DEF tick, resolve, Client
    <3> QED BY <3>1, ResolveType, ClientInvStates
  <2>2. CASE c.state # "Connecting"
    BY <2>2, ClientInvClose DEF tick
  <2> QED BY <2>1, <2>2
<1> QED BY <1>2, <1>3, <1>4, <1>5, <1>6

\* The lines of a pool.
LEMMA ClientInvLines ==
    ASSUME NEW c \in Client, ClientInv(c), NEW j \in Jobs \cup {NoJob}
    PROVE  /\ ClientInv(parseJob(c, j))
           /\ ClientInv(parseLogin(c, j))
<1>1. ASSUME NEW d \in Client, d.url = c.url, d.state = c.state, d.socket = c.socket,
             d.expire = c.expire, d.ping = c.ping
      PROVE  ClientInv(d)
  BY <1>1 DEF ClientInv, SocketFits, NoticesSilence
<1>2. ClientInv([c EXCEPT !.job = j]) /\ ClientInv([c EXCEPT !.job = j, !.failures = 0])
  <2>1. [c EXCEPT !.job = j] \in Client /\ [c EXCEPT !.job = j, !.failures = 0] \in Client
    BY FailuresFacts DEF Client
  <2> QED BY <1>1, <2>1 DEF Client
<1> QED BY <1>2, ClientInvClose DEF parseJob, parseLogin

-----------------------------------------------------------------------------
(***************************************************************************)
(* One attempt at a time.  Every method keeps it, called where the code    *)
(* calls it and never between disconnect() and the next resolve().         *)
(***************************************************************************)

\* close(), disconnect(), and the methods that end in them.
LEMMA OneAttemptCloses ==
    ASSUME NEW c \in Client, OneAttempt(c)
    PROVE  /\ OneAttempt(close(c))
           /\ OneAttempt(disconnect(c))
           /\ \A w \in BOOLEAN : OneAttempt(send(c, w)) /\ OneAttempt(ping(c, w))
           /\ OneAttempt(startTimeout(c))
           /\ \A j \in Jobs \cup {NoJob} : /\ OneAttempt(parseJob(c, j))
                                           /\ OneAttempt(parseLogin(c, j))
<1>1. ASSUME NEW d \in Client, OneAttempt(d) PROVE OneAttempt(close(d))
  BY <1>1 DEF OneAttempt, close, Client
<1>2. OneAttempt(disconnect(c))
  <2> DEFINE d == [c EXCEPT !.ping = FALSE, !.expire = FALSE, !.failures = -1]
  <2>1. d \in Client /\ OneAttempt(d)
    BY FailuresFacts DEF Client, OneAttempt
  <2> QED BY <1>1, <2>1 DEF disconnect
<1>3. ASSUME NEW d \in Client, OneAttempt(d), NEW w \in BOOLEAN PROVE OneAttempt(send(d, w))
  <2>1. CASE d.state = "Connected" /\ w
    <3>1. send(d, w) = [d EXCEPT !.expire = TRUE]
      BY <2>1 DEF send
    <3> QED BY <1>3, <2>1, <3>1 DEF OneAttempt, Client
  <2>2. CASE ~(d.state = "Connected" /\ w)
    BY <1>1, <1>3, <2>2 DEF send
  <2> QED BY <2>1, <2>2
<1>4. ASSUME NEW w \in BOOLEAN PROVE OneAttempt(ping(c, w))
  <2> DEFINE d == [c EXCEPT !.ping = FALSE]
  <2>1. d \in Client /\ OneAttempt(d)
    BY DEF Client, OneAttempt
  <2> QED BY <1>3, <2>1 DEF ping
<1>5. OneAttempt(startTimeout(c))
  <2> DEFINE b == c.ping \/ c.url.keepAlive
             d == [c EXCEPT !.expire = FALSE, !.ping = b]
  <2>1. startTimeout(c) = d
    BY DEF startTimeout
  <2>2. ~d.expire /\ d.resolving = c.resolving /\ d.socket = c.socket /\ d.state = c.state
    BY DEF Client
  <2> HIDE DEF d
  <2> QED BY <2>1, <2>2 DEF OneAttempt
<1>6. ASSUME NEW j \in Jobs \cup {NoJob}
      PROVE  OneAttempt(parseJob(c, j)) /\ OneAttempt(parseLogin(c, j))
  <2>1. OneAttempt([c EXCEPT !.job = j]) /\ OneAttempt([c EXCEPT !.job = j, !.failures = 0])
    BY DEF OneAttempt, Client
  <2> QED BY <1>1, <2>1 DEF parseJob, parseLogin
<1> QED BY <1>1, <1>2, <1>3, <1>4, <1>5, <1>6

\* The methods that start, make and end an attempt.
LEMMA OneAttemptMoves ==
    ASSUME NEW c \in Client, OneAttempt(c)
    PROVE  /\ c.state = "Unconnected" => OneAttempt(resolve(c))
           /\ c.expire => OneAttempt(tick(c))
           /\ c.resolving =>
                 /\ OneAttempt(reconnect([c EXCEPT !.resolving = FALSE]))
                 /\ \A b \in BOOLEAN : OneAttempt(connect([c EXCEPT !.resolving = FALSE], b))
           /\ c.socket = "connecting" => \A w \in BOOLEAN : OneAttempt(onConnected(c, w))
           /\ c.socket = "closing" => OneAttempt(onClose(c))
<1>1. c.socket = "none" => OneAttempt(resolve(c))
  <2> DEFINE b == c.resolving \/ c.url.resolvable
             f == IF c.failures = -1 THEN 0 ELSE c.failures
             d == [c EXCEPT !.state = "HostLookup", !.expire = FALSE,
                            !.failures = f, !.resolving = b]
  <2>1. resolve(c) = d
    BY DEF resolve
  <2>2. d.socket = c.socket /\ ~d.expire /\ d.state = "HostLookup"
    BY DEF Client
  <2> HIDE DEF d
  <2> QED BY <2>1, <2>2 DEF OneAttempt
<1>2. c.state = "Unconnected" \/ (c.state = "Connecting" /\ c.expire) => c.socket = "none"
  BY DEF OneAttempt, Client, Socket
<1>3. c.expire => OneAttempt(tick(c))
  BY <1>1, <1>2, OneAttemptCloses DEF tick
<1>4. ASSUME c.resolving, NEW b \in BOOLEAN
      PROVE  /\ OneAttempt(connect([c EXCEPT !.resolving = FALSE], b))
             /\ OneAttempt(reconnect([c EXCEPT !.resolving = FALSE]))
  <2> DEFINE d == [c EXCEPT !.resolving = FALSE]
  <2>1. d \in Client /\ d.socket = "none" /\ ~d.expire /\ ~d.resolving
    BY <1>4 DEF Client, OneAttempt
  <2> HIDE DEF d
  <2>2. OneAttempt(connect(d, b))
    <3> DEFINE s == IF b THEN "connecting" ELSE "idle"
    <3>1. s \in {"idle", "connecting"}
      OBVIOUS
    <3>2. connect(d, b) = [d EXCEPT !.state = "Connecting", !.socket = s]
      BY DEF connect
    <3> HIDE DEF s
    <3> QED BY <2>1, <3>1, <3>2 DEF OneAttempt, Client
  <2>3. OneAttempt(reconnect(d))
    <3>1. reconnect(d).socket = "none" /\ reconnect(d).resolving = d.resolving
      BY <2>1 DEF reconnect, Client
    <3> QED BY <2>1, <3>1 DEF OneAttempt
  <2> QED BY <2>2, <2>3 DEF d
<1>5. ASSUME c.socket = "connecting", NEW w \in BOOLEAN PROVE OneAttempt(onConnected(c, w))
  <2> DEFINE d == [c EXCEPT !.state = "Connected", !.socket = "open"]
  <2>1. d \in Client /\ OneAttempt(d)
    BY <1>5 DEF Client, OneAttempt, SocketState, Socket
  <2> QED BY <2>1, OneAttemptCloses DEF onConnected, login
<1>6. c.socket = "closing" => OneAttempt(onClose(c))
  <2> SUFFICES ASSUME c.socket = "closing" PROVE OneAttempt(onClose(c))
    OBVIOUS
  <2> DEFINE d == [c EXCEPT !.socket = "none", !.state = "Unconnected"]
  <2>1. d \in Client /\ d.socket = "none" /\ ~d.resolving
    BY DEF Client, OneAttempt, SocketState, Socket
  <2>2. onClose(c) = reconnect(d)
    BY DEF onClose
  <2> HIDE DEF d
  <2>3. reconnect(d).socket = "none" /\ reconnect(d).resolving = d.resolving
    BY <2>1 DEF reconnect, Client
  <2> QED BY <2>1, <2>2, <2>3 DEF OneAttempt
<1> QED BY <1>1, <1>2, <1>3, <1>4, <1>5, <1>6
=============================================================================
