------------------------------- MODULE Client -------------------------------
(***************************************************************************)
(* The connection of one pool: class Client of src/src/net/Client.cpp.     *)
(*                                                                         *)
(* The module has no variables.  A client is a record, and every method    *)
(* that changes it is an operator from a record to a record; the modules   *)
(* that own clients (FailoverStrategy) turn them into actions and add what *)
(* the listener callbacks do.  Times are abstracted: m_expire is only      *)
(* "armed" or not, and the owner decides when an armed deadline is due.    *)
(***************************************************************************)
EXTENDS Integers

CONSTANTS Jobs,         \* the jobs a pool may send
          NoJob,        \* a job that setId, setBlob or setTarget refuses; also
                        \* the value of m_job before the first job
          MaxFailures   \* bound: m_failures counts up to here and stays

ASSUME ClientAssumption == /\ NoJob \notin Jobs
                           /\ MaxFailures \in Nat \ {0}

SocketState == {"Unconnected", "HostLookup", "Connecting", "Connected", "Closing"}

(***************************************************************************)
(* What m_socket points to: nothing, a handle for which uv_tcp_connect     *)
(* started no request, one with the request pending, a stream that is      *)
(* read, or a handle whose uv_close callback is pending.                   *)
(***************************************************************************)
Socket == {"none", "idle", "connecting", "open", "closing"}

(***************************************************************************)
(* What the state machine reads of m_url: the keepalive flag, whether      *)
(* uv_getaddrinfo accepts the host name at once, and the size of the login *)
(* request, which is compared with that of m_buf (2048 bytes) and then     *)
(* copied to m_sendBuf (768 bytes).                                        *)
(***************************************************************************)
Url == [keepAlive : BOOLEAN, resolvable : BOOLEAN,
        login : {"fits", "overruns", "refused"}]

\* m_failures: -1 after disconnect(), or the failures since the last login.
Failures == -1 .. MaxFailures

Client == [url       : Url,
           state     : SocketState,
           failures  : Failures,
           expire    : BOOLEAN,             \* m_expire # 0
           resolving : BOOLEAN,             \* m_resolver is in use by libuv
           socket    : Socket,
           ping      : BOOLEAN,             \* m_keepAliveTimer is running
           job       : Jobs \cup {NoJob}]

\* The constructor: m_failures(0), m_state(UnconnectedState), m_expire(0).
NewClient(url) ==
    [url |-> url, state |-> "Unconnected", failures |-> 0, expire |-> FALSE,
     resolving |-> FALSE, socket |-> "none", ping |-> FALSE, job |-> NoJob]

\* Mutant of resolve: the deadline of the retry stays armed.
resolve_KeepsExpire(c) ==
    [c EXCEPT !.state     = "HostLookup",
              !.failures  = IF @ = -1 THEN 0 ELSE @,
              !.resolving = @ \/ c.url.resolvable]

(***************************************************************************)
(* uv_getaddrinfo that refuses its arguments returns at once: the client   *)
(* is then in HostLookupState with no callback and no deadline.            *)
(***************************************************************************)
resolve(c) ==
    [c EXCEPT !.state     = "HostLookup",
              !.expire    = FALSE,
              !.failures  = IF @ = -1 THEN 0 ELSE @,
              !.resolving = @ \/ c.url.resolvable]

\* resolve() hands m_resolver to libuv again while libuv still owns it.
ReusesResolver(c) == c.url.resolvable /\ c.resolving

\* close(): nothing happens without a socket, whatever the state.
close(c) ==
    IF c.state \in {"Unconnected", "Closing"} \/ c.socket = "none"
    THEN c
    ELSE [c EXCEPT !.state = "Closing", !.socket = "closing"]

disconnect(c) ==
    close([c EXCEPT !.ping = FALSE, !.expire = FALSE, !.failures = -1])

(***************************************************************************)
(* connect(addr): the old m_socket is deleted, whatever libuv still does   *)
(* with it, and a new one starts to connect.  The result of uv_tcp_connect *)
(* is not looked at: where the system refuses at once (no route, no file   *)
(* descriptor) no callback and no deadline will come.                      *)
(***************************************************************************)
connect(c, started) ==
    [c EXCEPT !.state = "Connecting", !.socket = IF started THEN "connecting" ELSE "idle"]

\* connect(addr) frees a handle libuv still owns.
FreesSocket(c) == c.socket # "none"

NextFailure(f) == IF f < MaxFailures THEN f + 1 ELSE f

\* Mutant of reconnect: the retry is not scheduled.
reconnect_NoRetry(c) ==
    IF c.failures = -1
    THEN [c EXCEPT !.state = "Connecting", !.ping = @ /\ ~c.url.keepAlive]
    ELSE [c EXCEPT !.state    = "Connecting",
                   !.ping     = @ /\ ~c.url.keepAlive,
                   !.failures = NextFailure(@)]

(***************************************************************************)
(* reconnect(): after disconnect() (m_failures = -1) the function returns  *)
(* before it sets m_expire, and so keeps the m_expire it finds.            *)
(***************************************************************************)
reconnect(c) ==
    IF c.failures = -1
    THEN [c EXCEPT !.state = "Connecting",
                   !.ping  = @ /\ ~c.url.keepAlive]
    ELSE [c EXCEPT !.state    = "Connecting",
                   !.ping     = @ /\ ~c.url.keepAlive,
                   !.failures = NextFailure(@),
                   !.expire   = TRUE]

\* onClose(handle), up to the call of the listener in reconnect().
onClose(c) == reconnect([c EXCEPT !.socket = "none", !.state = "Unconnected"])

(***************************************************************************)
(* send(): only a connected client writes; a write that fails closes the   *)
(* connection, one that succeeds arms the response timeout.                *)
(***************************************************************************)
send(c, written) ==
    IF c.state # "Connected" THEN c
    ELSE IF written THEN [c EXCEPT !.expire = TRUE] ELSE close(c)

login(c, written) == IF c.url.login = "refused" THEN c ELSE send(c, written)

\* login() writes past the end of m_sendBuf.
Overruns(c) == c.url.login = "overruns"

\* onConnect with status 0: reading starts and the login request is sent.
onConnected(c, written) ==
    login([c EXCEPT !.state = "Connected", !.socket = "open"], written)

\* ping(), called by m_keepAliveTimer, which does not repeat.
ping(c, written) == send([c EXCEPT !.ping = FALSE], written)

\* Mutant of startTimeout: the keepalive timer is not restarted.
startTimeout_NoTimer(c) == [c EXCEPT !.expire = FALSE]

startTimeout(c) ==
    [c EXCEPT !.expire = FALSE, !.ping = @ \/ c.url.keepAlive]

\* tick() when m_expire has passed; both tests look at the current state.
tick(c) ==
    CASE c.state = "Connected"  -> close(c)
      [] c.state = "Connecting" -> resolve(c)
      [] OTHER                  -> c

\* parseJob() stores j; it refuses an invalid job and the job it already has.
Acceptable(c, j) == j # NoJob /\ j # c.job

\* parseJob() called from parseNotification().
parseJob(c, j) ==
    IF Acceptable(c, j) THEN [c EXCEPT !.job = j]
    ELSE IF j = NoJob THEN c ELSE close(c)

\* parseResponse() with id 1: parseLogin(), and m_failures = 0 or close().
parseLogin(c, j) ==
    IF Acceptable(c, j) THEN [c EXCEPT !.job = j, !.failures = 0] ELSE close(c)
-----------------------------------------------------------------------------
\* Something will call the client back: a lookup, a socket, or the retry timer.
Wakes(c) == \/ c.resolving
            \/ c.socket \in {"connecting", "open", "closing"}
            \/ c.state = "Connecting" /\ c.expire

\* libuv refused the attempt at once: a lookup (the result of resolve() is not
\* looked at) or a connect.  Nothing is armed then, and the client is lost.
Stranded(c) == ~c.url.resolvable \/ c.socket = "idle"

\* The client is wanted (not given up by disconnect()) and, once started, waits
\* for a callback unless it is stranded.
TriesOn(c) == /\ c.failures # -1
              /\ c.state # "Unconnected" /\ ~Stranded(c) => Wakes(c)

\* One attempt at a time: no lookup beside a socket, no deadline beside a lookup
\* or a connect.
OneAttempt(c) ==
    /\ c.resolving => c.socket = "none" /\ ~c.expire /\ c.state = "HostLookup"
    /\ c.socket \in {"idle", "connecting"} => ~c.expire /\ c.state = "Connecting"
    /\ c.socket = "open" => c.state = "Connected"
    /\ c.socket = "closing" => c.state = "Closing"
=============================================================================
