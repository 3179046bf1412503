-------------------------- MODULE FailoverStrategy --------------------------
(***************************************************************************)
(* A primary pool and its backups: src/src/net/strategies/                 *)
(* FailoverStrategy.cpp over the clients of src/src/net/Client.cpp, with   *)
(* what Network and Workers keep of their callbacks (no donation).         *)
(*                                                                         *)
(* Everything here runs on the thread of the libuv loop: one action is one *)
(* callback, run to its end.  The environment (name servers, pools, the    *)
(* worker threads that find shares) chooses which callback comes next and  *)
(* with which status.                                                      *)
(***************************************************************************)
EXTENDS Client

CONSTANTS N,         \* number of pools; pool 0 is the primary
          Urls,      \* m_url of every pool
          Retries,   \* option --retries
          MaxFound,  \* bound: shares queued by the worker threads
          NoPool     \* no pool is reading

Pool == 0 .. N - 1

ASSUME FailoverAssumption ==
    /\ N \in Nat /\ N >= 2
    /\ Urls \in [Pool -> Url]
    /\ Retries \in Nat \ {0} /\ Retries <= MaxFailures
    /\ MaxFound \in Nat
    /\ NoPool \notin Pool

VARIABLES pools,    \* m_pools: the clients
          active,   \* m_active: the pool that is mined for, or -1
          index,    \* m_index: the pool whose failure makes the strategy advance
          job,      \* Workers::m_job, as the pool and the job it came from
          paused,   \* Workers::m_paused
          found,    \* results queued in Workers::m_queue
          reading,  \* the pool whose onRead() has further lines in its buffer
          status    \* "running"; "stopped"; or the undefined behaviour met

vars == <<pools, active, index, job, paused, found, reading, status>>

(***************************************************************************)
(* Undefined behaviour ends a behaviour of the model.  "resolver": an      *)
(* m_resolver that libuv owns is passed to uv_getaddrinfo again; "socket": *)
(* an m_socket that libuv owns is deleted; "sendbuf": login() writes past  *)
(* the end of m_sendBuf; "nopool": m_pools[-1].                            *)
(***************************************************************************)
Fault == {"resolver", "socket", "sendbuf", "nopool"}

WorkersJob == [pool : Pool \cup {-1}, job : Jobs \cup {NoJob}]

TypeOK ==
    /\ pools \in [Pool -> Client]
    /\ active \in Pool \cup {-1}
    /\ index \in Pool
    /\ job \in WorkersJob
    /\ paused \in BOOLEAN
    /\ found \in 0 .. MaxFound
    /\ reading \in Pool \cup {NoPool}
    /\ status \in {"running", "stopped"} \cup Fault

Init ==
    /\ pools = [p \in Pool |-> NewClient(Urls[p])]
    /\ active = -1
    /\ index = 0
    /\ job = [pool |-> -1, job |-> NoJob]
    /\ paused = TRUE
    /\ found = 0
    /\ reading = NoPool
    /\ status = "running"

isActive == active >= 0

\* The loop may call the next callback: no onRead() is in the middle of a buffer.
Idle == status = "running" /\ reading = NoPool

(***************************************************************************)
(* connect(): the application connects the strategy once, at startup.      *)
(***************************************************************************)
Connect ==
    /\ Idle
    /\ pools[index].state = "Unconnected"
    /\ pools' = [pools EXCEPT ![index] = resolve(@)]
    /\ UNCHANGED <<active, index, job, paused, found, reading, status>>

(***************************************************************************)
(* The strategy's onClose(), called by reconnect() of client p, whose new  *)
(* record is c.  Losing the active pool pauses the workers; the failure of *)
(* pool m_index starts the next pool, for the primary only after Retries   *)
(* failures.                                                               *)
(***************************************************************************)
Advances(p, failures) ==
    /\ failures # -1
    /\ ~(index = 0 /\ failures < Retries)
    /\ index = p
    /\ N - index > 1

\* Mutant of StrategyOnClose: the start of the next backup comes first and returns
\* before the active pool is given up.
StrategyOnClose_SwitchesFirst(p, c) ==
    LET lost == c.failures # -1 /\ active = p /\ ~Advances(p, c.failures)
        next == index + 1
        ps   == [pools EXCEPT ![p] = c]
    IN  /\ active' = IF lost THEN -1 ELSE active
        /\ paused' = (paused \/ lost)
        /\ IF Advances(p, c.failures)
           THEN /\ index' = next
                /\ pools' = [ps EXCEPT ![next] = resolve(@)]
                /\ status' = IF ReusesResolver(ps[next]) THEN "resolver" ELSE status
           ELSE /\ pools' = ps
                /\ UNCHANGED <<index, status>>
        /\ UNCHANGED <<job, found, reading>>

StrategyOnClose(p, c) ==
    LET lost == c.failures # -1 /\ active = p
        next == index + 1
        ps   == [pools EXCEPT ![p] = c]
    IN  /\ active' = IF lost THEN -1 ELSE active
        /\ paused' = (paused \/ lost)
        /\ IF Advances(p, c.failures)
           THEN /\ index' = next
                /\ pools' = [ps EXCEPT ![next] = resolve(@)]
                /\ status' = IF ReusesResolver(ps[next]) THEN "resolver" ELSE status
           ELSE /\ pools' = ps
                /\ UNCHANGED <<index, status>>
        /\ UNCHANGED <<job, found, reading>>

\* onResolved() with an error, or without an IPv4 address.
ResolveFails(p) ==
    /\ Idle
    /\ pools[p].resolving
    /\ StrategyOnClose(p, reconnect([pools[p] EXCEPT !.resolving = FALSE]))

\* onResolved() with an address.
Resolved(p) ==
    /\ Idle
    /\ pools[p].resolving
    /\ \E started \in BOOLEAN :
          pools' = [pools EXCEPT ![p] = connect([@ EXCEPT !.resolving = FALSE], started)]
    /\ status' = IF FreesSocket(pools[p]) THEN "socket" ELSE status
    /\ UNCHANGED <<active, index, job, paused, found, reading>>

\* onConnect() with status 0; the login request is written or not.
Connected(p) ==
    /\ Idle
    /\ pools[p].socket = "connecting"
    /\ \E written \in BOOLEAN :
          pools' = [pools EXCEPT ![p] = onConnected(@, written)]
    /\ status' = IF Overruns(pools[p]) THEN "sendbuf" ELSE status
    /\ UNCHANGED <<active, index, job, paused, found, reading>>

\* onConnect() with an error.
ConnectFails(p) ==
    /\ Idle
    /\ pools[p].socket = "connecting"
    /\ pools' = [pools EXCEPT ![p] = close(@)]
    /\ UNCHANGED <<active, index, job, paused, found, reading, status>>

\* onRead() with end of file, an error, or more bytes than the buffer holds.
ReadFails(p) ==
    /\ Idle
    /\ pools[p].socket = "open"
    /\ pools' = [pools EXCEPT ![p] = close(@)]
    /\ UNCHANGED <<active, index, job, paused, found, reading, status>>

(***************************************************************************)
(* onRead() parses every complete line of the buffer, one Parse... step    *)
(* per line and nothing in between, also after a line that closed the      *)
(* connection.                                                             *)
(***************************************************************************)
ReadsLine(p) ==
    /\ status = "running"
    /\ \/ reading = NoPool /\ pools[p].socket = "open"
       \/ reading = p
    /\ reading' \in {p, NoPool}

\* Mutant of OnJobReceived: the test of m_active is missing.
OnJobReceived_AnyPool(p, j) == job' = [pool |-> p, job |-> j] /\ paused' = FALSE

\* onJobReceived(): only the active pool's job reaches the workers.
OnJobReceived(p, j) ==
    IF active' = p
    THEN job' = [pool |-> p, job |-> j] /\ paused' = FALSE
    ELSE UNCHANGED <<job, paused>>

\* Mutants of LoginActive: the last login wins; the primary has no privilege.
LoginActive_Last(p) == p
LoginActive_First(p) == IF ~isActive THEN p ELSE active

(***************************************************************************)
(* onLoginSuccess(): the primary always takes over, a backup only when     *)
(* nobody is active; every other backup is disconnected.                   *)
(***************************************************************************)
LoginActive(p) == IF p = 0 \/ ~isActive THEN p ELSE active

\* Mutants of OnLoginSuccess: m_index is not assigned; the loop starts at 0;
\* the loop ends before the last pool.
OnLoginSuccess_KeepsIndex(p, c) ==
    /\ active' = LoginActive(p)
    /\ index'  = index
    /\ pools'  = LET ps == [pools EXCEPT ![p] = c]
                 IN  [i \in Pool |-> IF i = 0 \/ i = LoginActive(p)
                                     THEN ps[i] ELSE disconnect(ps[i])]
OnLoginSuccess_FromZero(p, c) ==
    /\ active' = LoginActive(p)
    /\ index'  = IF LoginActive(p) # active THEN LoginActive(p) ELSE index
    /\ pools'  = LET ps == [pools EXCEPT ![p] = c]
                 IN  [i \in Pool |-> IF i = LoginActive(p)
                                     THEN ps[i] ELSE disconnect(ps[i])]
OnLoginSuccess_SkipsLast(p, c) ==
    /\ active' = LoginActive(p)
    /\ index'  = IF LoginActive(p) # active THEN LoginActive(p) ELSE index
    /\ pools'  = LET ps == [pools EXCEPT ![p] = c]
                 IN  [i \in Pool |-> IF i \in {0, N - 1} \/ i = LoginActive(p)
                                     THEN ps[i] ELSE disconnect(ps[i])]

OnLoginSuccess(p, c) ==
    /\ active' = LoginActive(p)
    /\ index'  = IF LoginActive(p) # active THEN LoginActive(p) ELSE index
    /\ pools'  = LET ps == [pools EXCEPT ![p] = c]
                 IN  [i \in Pool |-> IF i = 0 \/ i = LoginActive(p)
                                     THEN ps[i] ELSE disconnect(ps[i])]

\* A line that answers the login request.
ParseLogin(p, j) ==
    /\ ReadsLine(p)
    /\ LET c == startTimeout(pools[p])
       IN  IF Acceptable(c, j)
           THEN /\ OnLoginSuccess(p, parseLogin(c, j))
                /\ OnJobReceived(p, j)
           ELSE /\ pools' = [pools EXCEPT ![p] = parseLogin(c, j)]
                /\ UNCHANGED <<active, index, job, paused>>
    /\ UNCHANGED <<found, status>>

\* A line with a job notification.
ParseJob(p, j) ==
    /\ ReadsLine(p)
    /\ LET c == startTimeout(pools[p])
       IN  /\ pools' = [pools EXCEPT ![p] = parseJob(c, j)]
           /\ UNCHANGED <<active, index>>
           /\ IF Acceptable(c, j) THEN OnJobReceived(p, j)
                                  ELSE UNCHANGED <<job, paused>>
    /\ UNCHANGED <<found, status>>

\* A line with an error that ends the session: of the login, or a critical one.
ParseError(p) ==
    /\ ReadsLine(p)
    /\ pools' = [pools EXCEPT ![p] = close(startTimeout(@))]
    /\ UNCHANGED <<active, index, job, paused, found, status>>

\* Any other line: not JSON, an answer to a share, a keepalive or nothing.
ParseOther(p) ==
    /\ ReadsLine(p)
    /\ pools' = [pools EXCEPT ![p] = startTimeout(@)]
    /\ UNCHANGED <<active, index, job, paused, found, status>>

\* onClose(handle): the uv_close callback of p's socket.
OnClose(p) ==
    /\ reading = NoPool
    /\ status \in {"running", "stopped"}
    /\ pools[p].socket = "closing"
    /\ StrategyOnClose(p, onClose(pools[p]))

(***************************************************************************)
(* tick(): the once-a-second timer.  due: the clients whose deadline has   *)
(* passed.                                                                 *)
(***************************************************************************)
Tick(due) ==
    /\ Idle
    /\ due # {}
    /\ \A p \in due : pools[p].expire
    /\ pools' = [p \in Pool |-> IF p \in due THEN tick(pools[p]) ELSE pools[p]]
    /\ status' = IF \E p \in due : pools[p].state = "Connecting" /\ ReusesResolver(pools[p])
                 THEN "resolver" ELSE status
    /\ UNCHANGED <<active, index, job, paused, found, reading>>

\* The keepalive timer of pool p.
Ping(p) ==
    /\ Idle
    /\ pools[p].ping
    /\ \E written \in BOOLEAN : pools' = [pools EXCEPT ![p] = ping(@, written)]
    /\ UNCHANGED <<active, index, job, paused, found, reading, status>>

(***************************************************************************)
(* A worker thread, which may be in a hash it started before a pause,      *)
(* queues a share: Workers::submit().                                      *)
(***************************************************************************)
Found ==
    /\ status = "running"
    /\ job.pool # -1
    /\ found < MaxFound
    /\ found' = found + 1
    /\ UNCHANGED <<pools, active, index, job, paused, reading, status>>

\* Workers::onResult() hands a queued share to the strategy's submit().
OnJobResult ==
    /\ Idle
    /\ found > 0
    /\ found' = found - 1
    /\ IF isActive
       THEN /\ \E written \in BOOLEAN :
                  pools' = [pools EXCEPT ![active] = send(@, written)]
            /\ UNCHANGED status
       ELSE status' = "nopool" /\ UNCHANGED pools
    /\ UNCHANGED <<active, index, job, paused, reading>>

\* Mutant of Stop: both indices are reset to -1.
Stop_IndexReset ==
    /\ Idle
    /\ pools' = [p \in Pool |-> disconnect(pools[p])]
    /\ index' = -1
    /\ active' = -1
    /\ paused' = TRUE
    /\ status' = "stopped"
    /\ UNCHANGED <<job, found, reading>>

\* stop(), on a signal or a quit command; then the loop only runs close callbacks.
Stop ==
    /\ Idle
    /\ pools' = [p \in Pool |-> disconnect(pools[p])]
    /\ index' = 0
    /\ active' = -1
    /\ paused' = TRUE
    /\ status' = "stopped"
    /\ UNCHANGED <<job, found, reading>>

Next ==
    \/ Connect
    \/ \E p \in Pool : \/ ResolveFails(p) \/ Resolved(p)
                       \/ ConnectFails(p) \/ Connected(p)
                       \/ ReadFails(p)    \/ OnClose(p)
                       \/ ParseError(p)   \/ ParseOther(p)
                       \/ Ping(p)
                       \/ \E j \in Jobs \cup {NoJob} : ParseLogin(p, j) \/ ParseJob(p, j)
    \/ \E due \in SUBSET Pool : Tick(due)
    \/ Found
    \/ OnJobResult
    \/ Stop

Spec == Init /\ [][Next]_vars
-----------------------------------------------------------------------------
(***************************************************************************)
(* Safety                                                                  *)
(***************************************************************************)

\* The pool mined for is the pool whose loss makes the strategy advance.  The
\* two indices are assigned apart (onClose, onLoginSuccess, stop); were they to
\* differ, losing the active pool would pause the workers and start nobody.
ActiveIsIndex == isActive => index = active

\* The workers hash exactly the active pool's last job, and are paused exactly
\* while there is none: onJob/onPause never get out of step with m_active and
\* with the m_job that the client replaced.
MinesForActive ==
    status = "running" =>
        IF isActive THEN ~paused /\ job = [pool |-> active, job |-> pools[active].job]
                    ELSE paused

\* A pool becomes active by logging in and is given up by its close callback,
\* so its socket is open, or closing with that callback still to come.
ActiveHasSocket ==
    status = "running" /\ isActive => pools[active].socket \in {"open", "closing"}

\* No lost wakeup: once started, the primary (which must be able to take over
\* again) and the pool m_index (whose failure is what moves the strategy on)
\* are never given up by disconnect() and never left without a callback, in any
\* order of logins, losses and retries.  The exception is named: an attempt that
\* libuv refuses at once arms nothing (Stranded).
KeepsTrying == status = "running" => TriesOn(pools[0]) /\ TriesOn(pools[index])

\* The primary, which is never disconnected, runs one attempt at a time.  This
\* keeps its m_resolver and m_socket from being reused while libuv owns them.
PrimaryOneAttempt == OneAttempt(pools[0])

\* With keepalive, a connected pool that falls silent is noticed: a response
\* deadline or the timer that will set one is always armed.
SilenceNoticed ==
    \A p \in Pool :
        Urls[p].keepAlive /\ Urls[p].login # "refused" /\ pools[p].state = "Connected"
            => pools[p].expire \/ pools[p].ping

(***************************************************************************)
(* Action properties                                                       *)
(***************************************************************************)

\* Switching to the primary stops the backups: each loses its connection or,
\* when only a lookup is in flight, is marked as not wanted (m_failures = -1).
PrimaryStopsBackups ==
    [][active # 0 /\ active' = 0 =>
         \A p \in Pool \ {0} : /\ pools'[p].failures = -1
                               /\ pools'[p].socket \in {"none", "closing"}]_vars

(***************************************************************************)
(* The abstract specification this one implements: active is m_active, and *)
(* the work is the workers' job while they are not paused.                 *)
(***************************************************************************)
Selection == INSTANCE PoolSelection
                 WITH Pools <- Pool, Nothing <- NoPool,
                      work <- IF paused THEN NoPool ELSE job

\* Every callback of every client changes what is mined as PoolSelection allows:
\* backups that connected in parallel, or that disconnect() could not stop, never
\* preempt the active pool nor slip their jobs to the workers.
SelectsPools == Selection!Spec

(***************************************************************************)
(* A claim of the program's text that does not hold                        *)
(***************************************************************************)

\* "no active pools, stop mining": a share that a worker queued before the pool
\* was lost is still handed to submit(), which reads m_pools[-1].
SubmitsToPool == status # "nopool"
=============================================================================
