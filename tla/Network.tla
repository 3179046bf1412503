------------------------------ MODULE Network -------------------------------
(***************************************************************************)
(* The user's pool and the donation pool that share the workers:           *)
(* src/src/net/Network.cpp over strategies/SinglePoolStrategy.cpp and      *)
(* strategies/DonateStrategy.cpp, each with one client of Client.cpp.      *)
(*                                                                         *)
(* As in FailoverStrategy, one action is one callback of the libuv loop,   *)
(* run to its end.  The donation is switched on (donateLevel() > 0).       *)
(***************************************************************************)
EXTENDS Client

CONSTANTS Urls,       \* m_url of the two clients
          MaxFound,   \* bound: shares queued by the worker threads, per owner
          NoOwner     \* nobody is reading

Owner == {"pool", "donate"}

ASSUME NetworkAssumption ==
    /\ Urls \in [Owner -> Url]
    /\ MaxFound \in Nat
    /\ NoOwner \notin Owner

VARIABLES clients,   \* m_client of the two strategies
          active,    \* m_active of the two strategies
          timer,     \* DonateStrategy::m_timer is running
          work,      \* Workers::m_job, with the owner its poolId() names
          paused,    \* Workers::m_paused
          found,     \* results queued in Workers::m_queue
          reading,   \* whose onRead() has further lines in its buffer
          stray,     \* history: the workers' job came from an inactive strategy
          status     \* "running"; "stopped"; or the undefined behaviour met

workers == <<work, paused, stray>>
vars    == <<clients, active, timer, workers, found, reading, status>>

Work(o, j) == [owner |-> o, job |-> j]

TypeOK ==
    /\ clients \in [Owner -> Client]
    /\ active \in [Owner -> BOOLEAN]
    /\ timer \in BOOLEAN
    /\ work \in [owner : Owner \cup {NoOwner}, job : Jobs \cup {NoJob}]
    /\ paused \in BOOLEAN
    /\ found \in [Owner -> 0 .. MaxFound]
    /\ reading \in Owner \cup {NoOwner}
    /\ stray \in BOOLEAN
    /\ status \in {"running", "stopped", "resolver", "socket", "sendbuf"}

\* The constructors: the donation begins with idle().
Init ==
    /\ clients = [o \in Owner |-> NewClient(Urls[o])]
    /\ active = [o \in Owner |-> FALSE]
    /\ timer = TRUE
    /\ work = Work(NoOwner, NoJob) /\ paused = TRUE
    /\ found = [o \in Owner |-> 0]
    /\ reading = NoOwner
    /\ stray = FALSE
    /\ status = "running"

Idle == status = "running" /\ reading = NoOwner

\* connect() of o's client, whose record is c.
Connects(o, c) ==
    /\ clients' = [clients EXCEPT ![o] = resolve(c)]
    /\ status' = IF ReusesResolver(c) THEN "resolver" ELSE status

\* Network::connect(), called once, at startup.
Connect ==
    /\ Idle
    /\ clients["pool"].state = "Unconnected"
    /\ Connects("pool", clients["pool"])
    /\ UNCHANGED <<active, timer, workers, found, reading>>
-----------------------------------------------------------------------------
(***************************************************************************)
(* The listener callbacks                                                  *)
(***************************************************************************)

\* Workers::pause(), called by Network::onPause() while the pool is not active.
Pauses == paused' = TRUE /\ stray' = FALSE /\ UNCHANGED work

\* Mutant of OnJob: the pool's jobs are not held back during a donation.
OnJob_Always(o, j) == work' = Work(o, j) /\ paused' = FALSE /\ stray' = ~active'[o]

\* Network::onJob(): during a donation the pool's jobs are dropped.
OnJob(o, j) ==
    IF active'["donate"] /\ o = "pool"
    THEN UNCHANGED workers
    ELSE work' = Work(o, j) /\ paused' = FALSE /\ stray' = ~active'[o]

(***************************************************************************)
(* onClose() of the two strategies, called by reconnect() of o's client,   *)
(* whose new record is c.  The single pool gives up m_active whatever the  *)
(* number of failures, and Network::onPause() pauses the workers, also     *)
(* when they work for the donation; DonateStrategy does nothing.           *)
(***************************************************************************)
OnClosed(o, c) ==
    /\ clients' = [clients EXCEPT ![o] = c]
    /\ IF o = "pool" /\ active["pool"]
       THEN active' = [active EXCEPT !["pool"] = FALSE] /\ Pauses
       ELSE UNCHANGED <<active, workers>>
    /\ UNCHANGED <<timer, found, reading, status>>

\* Mutant of OnLoginSuccess: the end of the donation is not scheduled.
OnLoginSuccess_NoTimer(o) ==
    /\ active' = [active EXCEPT ![o] = TRUE]
    /\ timer' = timer

\* onLoginSuccess(): a donation that begins schedules its end.
OnLoginSuccess(o) ==
    /\ active' = [active EXCEPT ![o] = TRUE]
    /\ timer' = (timer \/ (o = "donate" /\ ~active["donate"]))
-----------------------------------------------------------------------------
(***************************************************************************)
(* The callbacks of libuv                                                  *)
(***************************************************************************)
ResolveFails(o) ==
    /\ Idle
    /\ clients[o].resolving
    /\ OnClosed(o, reconnect([clients[o] EXCEPT !.resolving = FALSE]))

Resolved(o) ==
    /\ Idle
    /\ clients[o].resolving
    /\ \E started \in BOOLEAN :
          clients' = [clients EXCEPT ![o] = connect([@ EXCEPT !.resolving = FALSE], started)]
    /\ status' = IF FreesSocket(clients[o]) THEN "socket" ELSE status
    /\ UNCHANGED <<active, timer, workers, found, reading>>

Connected(o) ==
    /\ Idle
    /\ clients[o].socket = "connecting"
    /\ \E written \in BOOLEAN :
          clients' = [clients EXCEPT ![o] = onConnected(@, written)]
    /\ status' = IF Overruns(clients[o]) THEN "sendbuf" ELSE status
    /\ UNCHANGED <<active, timer, workers, found, reading>>

\* onConnect() with an error, or onRead() with an error or too many bytes.
Breaks(o) ==
    /\ Idle
    /\ clients[o].socket \in {"connecting", "open"}
    /\ clients' = [clients EXCEPT ![o] = close(@)]
    /\ UNCHANGED <<active, timer, workers, found, reading, status>>

OnClose(o) ==
    /\ reading = NoOwner
    /\ status \in {"running", "stopped"}
    /\ clients[o].socket = "closing"
    /\ OnClosed(o, onClose(clients[o]))

\* One line of onRead(), also after a line that closed the connection.
ReadsLine(o) ==
    /\ status = "running"
    /\ \/ reading = NoOwner /\ clients[o].socket = "open"
       \/ reading = o
    /\ reading' \in {o, NoOwner}

\* A line that answers the login request.
ParseLogin(o, j) ==
    /\ ReadsLine(o)
    /\ LET c == startTimeout(clients[o])
       IN  /\ clients' = [clients EXCEPT ![o] = parseLogin(c, j)]
           /\ IF Acceptable(c, j)
              THEN OnLoginSuccess(o) /\ OnJob(o, j)
              ELSE UNCHANGED <<active, timer, workers>>
    /\ UNCHANGED <<found, status>>

\* A line with a job; neither strategy looks at m_active.
ParseJob(o, j) ==
    /\ ReadsLine(o)
    /\ LET c == startTimeout(clients[o])
       IN  /\ clients' = [clients EXCEPT ![o] = parseJob(c, j)]
           /\ UNCHANGED <<active, timer>>
           /\ IF Acceptable(c, j) THEN OnJob(o, j) ELSE UNCHANGED workers
    /\ UNCHANGED <<found, status>>

\* A line with an error that ends the session, or any other line.
ParseOther(o) ==
    /\ ReadsLine(o)
    /\ \/ clients' = [clients EXCEPT ![o] = close(startTimeout(@))]
       \/ clients' = [clients EXCEPT ![o] = startTimeout(@)]
    /\ UNCHANGED <<active, timer, workers, found, status>>

\* Network::tick().  due: the clients whose deadline has passed.
Tick(due) ==
    /\ Idle
    /\ due # {}
    /\ \A o \in due : clients[o].expire
    /\ clients' = [o \in Owner |-> IF o \in due THEN tick(clients[o]) ELSE clients[o]]
    /\ status' = IF \E o \in due : /\ clients[o].state = "Connecting"
                                   /\ ReusesResolver(clients[o])
                 THEN "resolver" ELSE status
    /\ UNCHANGED <<active, timer, workers, found, reading>>

Ping(o) ==
    /\ Idle
    /\ clients[o].ping
    /\ \E written \in BOOLEAN : clients' = [clients EXCEPT ![o] = ping(@, written)]
    /\ UNCHANGED <<active, timer, workers, found, reading, status>>

\* Mutant of Suspends: Network::onPause() forgets resume().
Suspends_NoResume ==
    /\ clients' = [clients EXCEPT !["donate"] = disconnect(@)]
    /\ active' = [active EXCEPT !["donate"] = FALSE]
    /\ IF active["pool"] THEN UNCHANGED workers ELSE Pauses

(***************************************************************************)
(* DonateStrategy::suspend() up to idle(): Network::onPause() gives the    *)
(* workers the pool's job back (resume()) or pauses them.                  *)
(***************************************************************************)
Suspends ==
    /\ clients' = [clients EXCEPT !["donate"] = disconnect(@)]
    /\ active' = [active EXCEPT !["donate"] = FALSE]
    /\ IF active["pool"] THEN OnJob("pool", clients["pool"].job) ELSE Pauses

\* Mutant of OnTimer: suspend() forgets idle().
OnTimer_NoIdle ==
    /\ Idle
    /\ timer
    /\ timer' = FALSE
    /\ IF active["donate"]
       THEN Suspends /\ UNCHANGED status
       ELSE Connects("donate", clients["donate"]) /\ UNCHANGED <<active, workers>>
    /\ UNCHANGED <<found, reading>>

\* DonateStrategy::onTimer(): the timer does not repeat, idle() starts it again.
OnTimer ==
    /\ Idle
    /\ timer
    /\ timer' = active["donate"]
    /\ IF active["donate"]
       THEN Suspends /\ UNCHANGED status
       ELSE Connects("donate", clients["donate"]) /\ UNCHANGED <<active, workers>>
    /\ UNCHANGED <<found, reading>>

\* A worker thread, which may be in a hash for an earlier job, queues a share.
Found(o) ==
    /\ status = "running"
    /\ clients[o].job # NoJob
    /\ found[o] < MaxFound
    /\ found' = [found EXCEPT ![o] = @ + 1]
    /\ UNCHANGED <<clients, active, timer, workers, reading, status>>

\* Mutant of OnJobResult: a merged signal delivers a result once more.
OnJobResult_Empty(o) ==
    /\ Idle
    /\ found' = [found EXCEPT ![o] = @ - 1]
    /\ \E written \in BOOLEAN : clients' = [clients EXCEPT ![o] = send(@, written)]
    /\ UNCHANGED <<active, timer, workers, reading, status>>

\* Network::onJobResult(): a share goes to the owner of its job.
OnJobResult(o) ==
    /\ Idle
    /\ found[o] > 0
    /\ found' = [found EXCEPT ![o] = @ - 1]
    /\ \E written \in BOOLEAN : clients' = [clients EXCEPT ![o] = send(@, written)]
    /\ UNCHANGED <<active, timer, workers, reading, status>>

\* Network::stop(), and the application stops the workers and the loop.
Stop ==
    /\ Idle
    /\ clients' = [o \in Owner |-> disconnect(clients[o])]
    /\ timer' = FALSE
    /\ status' = "stopped"
    /\ UNCHANGED <<active, workers, found, reading>>

Next ==
    \/ Connect
    \/ \E o \in Owner : \/ ResolveFails(o) \/ Resolved(o) \/ Connected(o)
                        \/ Breaks(o) \/ OnClose(o)
                        \/ ParseOther(o) \/ Ping(o) \/ Found(o) \/ OnJobResult(o)
                        \/ \E j \in Jobs \cup {NoJob} : ParseLogin(o, j) \/ ParseJob(o, j)
    \/ \E due \in SUBSET Owner : Tick(due)
    \/ OnTimer
    \/ Stop

Spec == Init /\ [][Next]_vars

(***************************************************************************)
(* A buffer has finitely many lines, and between callbacks libuv calls the *)
(* timers that have expired.  Nothing is assumed of the servers.           *)
(***************************************************************************)
LiveSpec == Spec /\ []<>(reading = NoOwner) /\ SF_vars(OnTimer)
-----------------------------------------------------------------------------
\* The workers hash the last job of the strategy whose turn it is, the donation
\* while it is active and else the pool, and an active pool is never left without
\* workers outside a donation.  Jobs, logins and losses of either server come in
\* any order with the donation's begin and end.  The one exception: a job line
\* from a server whose strategy is not active, which neither strategy refuses.
Turn == IF active["donate"] THEN "donate" ELSE "pool"

MinesInTurn ==
    status = "running" /\ ~stray =>
        /\ ~paused => active[Turn] /\ work = Work(Turn, clients[Turn].job)
        /\ paused => ~active["pool"] \/ active["donate"]

\* A donation that is active has its end scheduled, whatever happened to its
\* connection: DonateStrategy ignores onClose() and keeps m_active.
DonationEnds == status = "running" /\ active["donate"] => timer

\* No lost wakeup: the pool is never given up, and while no timer will start the
\* next donation, its client is connecting or connected.  A client whose attempt
\* libuv refused at once is the exception (Stranded): nothing will call it back.
KeepsTrying ==
    status = "running" => TriesOn(clients["pool"]) /\ (timer \/ TriesOn(clients["donate"]))

\* A pool that stays active gets the workers again and again: no donation, and no
\* loss of the donation's connection, keeps them for ever.
PoolWorks ==
    [](status = "running" /\ ~stray) /\ <>[]active["pool"]
        => []<>(~paused /\ work.owner = "pool")
=============================================================================
