-------------------------- MODULE FailoverLiveness --------------------------
(***************************************************************************)
(* What the failover strategy achieves once a pool is healthy: the steps   *)
(* of FailoverStrategy in an environment in which every pool may fail at   *)
(* first and one of Healthy serves from some moment on, under the          *)
(* fairness of the libuv loop.                                             *)
(***************************************************************************)
EXTENDS FailoverStrategy

CONSTANT Healthy    \* pools of which one recovers

ASSUME HealthyAssumption == Healthy \subseteq Pool /\ Healthy # {}

VARIABLE serving    \* the pools that, from now on, resolve, accept and answer

liveVars == <<vars, serving>>

\* A serving pool never makes the client close, but for answers to a login that
\* repeat the job the client has; and its connects are started.
Serves(h) ==
    /\ pools'[h].state = "Closing" => \/ pools[h].state = "Closing"
                                      \/ pools'[h].failures = -1
                                      \/ active # h /\ ParseLogin(h, pools[h].job)
    /\ pools[h].resolving /\ ~pools'[h].resolving => pools'[h].socket = "connecting"

\* One pool is the hardest case: where more serve, less goes wrong.
Recover == serving = {} /\ (\E p \in Healthy : serving' = {p}) /\ UNCHANGED vars

(***************************************************************************)
(* Steps of Next.  A pool that has not logged in sends nothing but answers *)
(* to the login: any other line would disarm the response timeout and      *)
(* leave a pool that never logs in waiting for ever.  Reads bring one line *)
(* at a time.                                                              *)
(***************************************************************************)
LoopStep ==
    /\ \/ Connect
       \/ \E p \in Pool : Resolved(p) \/ Connected(p) \/ OnClose(p) \/ Ping(p)
       \/ \E p \in Pool, j \in Jobs \cup {NoJob} : ParseLogin(p, j)
       \/ \E p \in Pool \ serving :
             ResolveFails(p) \/ ConnectFails(p) \/ ReadFails(p) \/ ParseError(p)
       \/ isActive /\ (ParseOther(active) \/ \E j \in Jobs : ParseJob(active, j))
       \/ \E due \in SUBSET Pool : Tick(due)
       \/ Found
       \/ OnJobResult
    /\ reading' = NoPool
    /\ \A h \in serving : Serves(h)
    /\ UNCHANGED serving

LiveNext == Recover \/ LoopStep

LookupEnds(p)  == Resolved(p) \/ (p \notin serving /\ ResolveFails(p))
ConnectEnds(p) == Connected(p) \/ (p \notin serving /\ ConnectFails(p))
LoginAnswered(h) ==
    \E j \in Jobs : /\ h \in serving /\ Acceptable(pools[h], j)
                    /\ reading' = NoPool
                    /\ ParseLogin(h, j)

\* A deadline that has passed is seen by a tick; serving pools answer in time.
DeadlineSeen(p) ==
    /\ p \in serving => pools[p].state = "Connecting"
    /\ \E due \in SUBSET Pool : p \in due /\ Tick(due)

(***************************************************************************)
(* libuv completes every lookup, connect and close request and the tick    *)
(* timer repeats; a serving pool that is asked again and again answers a   *)
(* login with a new job some time, though it may repeat the one the client *)
(* kept (and closes for) any number of times before.  Nothing is assumed   *)
(* of pings, shares, or of what the other pools send.                      *)
(***************************************************************************)
Fairness ==
    /\ WF_liveVars(Recover)
    /\ WF_vars(Connect)
    /\ \A p \in Pool : /\ WF_vars(LookupEnds(p))
                       /\ WF_vars(ConnectEnds(p))
                       /\ WF_vars(OnClose(p))
                       /\ WF_vars(DeadlineSeen(p))
                       /\ SF_vars(LoginAnswered(p))

LiveSpec == Init /\ serving = {} /\ [][LiveNext]_liveVars /\ Fairness

\* libuv starts every connect of the pools ps: one that it refuses at once is not
\* tried again.
Started(ps) == \A p \in ps : pools[p].socket # "idle"

\* Whatever the other pools do, the strategy does not stay without a pool while the
\* primary or the last backup serves: retries of the primary, advances through the
\* backups, answers that repeat a job and disconnect() never end in a state where
\* neither will log in again.  It does not hold of a backup between them: passed
\* over once, that one is disconnected by the login of a later backup and not tried
\* again while m_index stays at the later one.
FailsOver ==
    [](status = "running" /\ Started(Pool)) /\ <>({0, N - 1} \cap serving # {})
        => []<>isActive

\* A primary that serves is taken back from any backup and then kept.
ReturnsToPrimary ==
    [](status = "running" /\ Started({0})) /\ <>(0 \in serving) => <>[](active = 0)
=============================================================================
