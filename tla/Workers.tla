------------------------------- MODULE Workers ------------------------------
(***************************************************************************)
(* The mining threads, the loop thread that drives them, and the thread    *)
(* that watches for other programs: src/src/workers/Workers.cpp and        *)
(* MultiWorker.cpp, and Check() of App.cpp.                                *)
(*                                                                         *)
(* The loop thread publishes a job or a pause by writing m_job, m_sequence *)
(* and m_paused one after the other; each worker reads them one at a time. *)
(* setEnabled() is called by the loop thread (console, remote commands)    *)
(* and by the detached thread of Check(), without a lock.                  *)
(* One action is one access to a variable that another thread uses (the    *)
(* lock of m_job makes a read or a write of it one access), with the       *)
(* thread's own work up to the next one; two writes in a row that no third *)
(* thread tells apart are one action.  Accesses are interleaved, those of  *)
(* the plain bools m_active and m_enabled too: the reorderings of          *)
(* memory_order_relaxed are not modelled.                                  *)
(***************************************************************************)
EXTENDS Naturals

CONSTANTS Threads,      \* the worker threads
          PoolJobs,     \* jobs of the user's pools (poolId >= 0)
          DonateJobs,   \* jobs of the donation pool (poolId = -1)
          NoJob,        \* a default constructed Job
          MaxSequence,  \* bound: publications are made while m_sequence is below
          MaxQueue      \* bound: shares waiting in m_queue

Jobs == PoolJobs \cup DonateJobs

ASSUME WorkersAssumption ==
    /\ Threads # {}
    /\ PoolJobs \cap DonateJobs = {}
    /\ NoJob \notin Jobs
    /\ MaxSequence \in Nat \ {0}
    /\ MaxQueue \in Nat

VARIABLES main,       \* what the loop thread does next
          job,        \* m_job
          sequence,   \* m_sequence
          paused,     \* m_paused = 1
          enabled,    \* m_enabled
          active,     \* m_active
          queue,      \* size of m_queue
          async,      \* m_async has been sent and onResult() not yet called
          setter,     \* the calls of setEnabled() under way
          worker,     \* the threads
          overlap,    \* history: what was published while a thread was reading
          raced       \* history: calls of the two threads may have overlapped

shared  == <<job, sequence, paused, enabled, active>>
setting == <<setter, raced>>
vars    == <<main, shared, queue, async, setting, worker, overlap>>

(***************************************************************************)
(* Control points.  Loop thread: in the loop; in setJob() before the test  *)
(* of m_enabled and the two writes after it; before the last write of      *)
(* pause(); in setEnabled(); in onResult(); in the application's stop(),   *)
(* which is a pause() and then Workers::stop(); joining.  setEnabled():    *)
(* before the write of m_enabled, the test of m_active and the two writes  *)
(* after it; the loop thread and Check() may each be in a call of it.      *)
(* Worker: before reading m_sequence or m_paused in the outer loop, in the *)
(* sleep loop, after it, before the two reads of consumeJob(), at the test *)
(* of isOutdated(), in a hash, and inside submit().                        *)
(***************************************************************************)
MainPC   == {"loop", "setJobTest", "setJobSequence", "setJobPaused", "pauseSequence",
             "setEnabled", "onResult", "quitSequence", "stop", "stopSequence",
             "join", "joined"}
SetterPC == {"none", "enabled", "active", "paused", "sequence"}
Setters  == {"loop", "check"}
WorkerPC == {"loop", "isPaused", "sleep", "woke", "readJob", "readSequence",
             "isOutdated", "hash", "send", "done"}

(***************************************************************************)
(* A worker: m_state->job, the job whose bytes are in m_state->blob,       *)
(* m_pausedState->job, m_sequence, the local job of consumeJob() and where *)
(* consumeJob() returns to.  One blob is enough: State has no copy         *)
(* assignment of its own, so the first save() makes m_pausedState share    *)
(* the buffers of m_state.                                                 *)
(***************************************************************************)
Worker == [pc     : WorkerPC,
           job    : Jobs \cup {NoJob},
           blob   : Jobs \cup {NoJob},
           saved  : PoolJobs \cup {NoJob},
           seq    : 0 .. MaxSequence + 2,
           local  : Jobs \cup {NoJob},
           return : {"loop", "isOutdated"}]

\* A call of setEnabled(value), or none.
Call   == [pc : SetterPC, value : BOOLEAN]
NoCall == [pc |-> "none", value |-> TRUE]

TypeOK ==
    /\ main \in MainPC
    /\ job \in Jobs \cup {NoJob}
    /\ sequence \in 0 .. MaxSequence + 2
    /\ paused \in BOOLEAN /\ enabled \in BOOLEAN /\ active \in BOOLEAN
    /\ queue \in 0 .. MaxQueue
    /\ async \in BOOLEAN
    /\ setter \in [Setters -> Call]
    /\ worker \in [Threads -> Worker]
    /\ overlap \in [Threads -> SUBSET {"job", "pause", "stop"}]
    /\ raced \in BOOLEAN

\* start(): the threads run, paused, until the first job.
Init ==
    /\ main = "loop"
    /\ job = NoJob /\ sequence = 1 /\ paused = TRUE
    /\ enabled = TRUE /\ active = FALSE
    /\ queue = 0 /\ async = FALSE
    /\ setter = [c \in Setters |-> NoCall] /\ raced = FALSE
    /\ worker = [t \in Threads |->
                   [pc |-> "loop", job |-> NoJob, blob |-> NoJob, saved |-> NoJob,
                    seq |-> 0, local |-> NoJob, return |-> "loop"]]
    /\ overlap = [t \in Threads |-> {}]

(***************************************************************************)
(* History.  A thread that has left the sleep loop, or has read m_job, and *)
(* has not yet read m_sequence takes the new sequence number of whatever   *)
(* is published meanwhile without seeing the publication itself.  A thread *)
(* that has never read m_sequence has 0, the number stop() publishes.      *)
(***************************************************************************)
HasReadJob(t) == worker[t].pc = "readSequence"
HasWoken(t)   == /\ worker[t].pc \in {"woke", "readJob", "readSequence"}
                 /\ worker[t].return = "isOutdated"

HasNoNumber(t) == worker[t].pc \in {"isPaused", "isOutdated"} /\ worker[t].seq = 0

Overlaps(t, what) ==
    CASE what = "job"   -> HasReadJob(t)
      [] what = "pause" -> HasWoken(t)
      [] what = "stop"  -> HasWoken(t) \/ HasNoNumber(t)

Publishes(what) ==
    overlap' = [t \in Threads |-> IF Overlaps(t, what) THEN overlap[t] \cup {what}
                                                      ELSE overlap[t]]

\* Calls that write the flags, by the loop thread and by the thread of Check().
LoopCalls  == main \in {"setJobTest", "setJobSequence", "setJobPaused",
                        "pauseSequence", "setEnabled"}
CheckCalls == setter["check"].pc # "none"

\* A call of Check() will still write m_paused or m_sequence.
CheckWrites == CheckCalls /\ (active \/ setter["check"].pc \in {"paused", "sequence"})

\* History.  A call that begins beside one of the other thread may leave m_paused
\* at odds with the other flags, or undo what stop() writes; one that is alone and
\* writes m_paused puts that right.
Begins(beside, writes) == raced' = (beside \/ (raced /\ ~writes))
-----------------------------------------------------------------------------
(***************************************************************************)
(* The loop thread                                                         *)
(***************************************************************************)
CanPublish == sequence < MaxSequence

\* setJob(): m_job and m_active,
SetJob(j) ==
    /\ main = "loop" /\ CanPublish
    /\ job' = j
    /\ active' = TRUE
    /\ main' = "setJobTest"
    /\ Publishes("job")
    /\ Begins(CheckCalls, enabled)
    /\ UNCHANGED <<sequence, paused, enabled, queue, async, setter, worker>>

\* Mutants of SetJobTest: m_enabled is not looked at; the sequence is not advanced.
SetJobTest_IgnoresEnabled ==
    /\ main = "setJobTest"
    /\ main' = "setJobSequence"
    /\ UNCHANGED <<shared, queue, async, setting, worker, overlap>>
SetJobTest_KeepsSequence ==
    /\ main = "setJobTest"
    /\ main' = IF enabled THEN "setJobPaused" ELSE "loop"
    /\ UNCHANGED <<shared, queue, async, setting, worker, overlap>>

\* while disabled, nothing else,
SetJobTest ==
    /\ main = "setJobTest"
    /\ main' = IF enabled THEN "setJobSequence" ELSE "loop"
    /\ UNCHANGED <<shared, queue, async, setting, worker, overlap>>

\* and else the sequence and m_paused.
SetJobSequence ==
    /\ main = "setJobSequence"
    /\ sequence' = sequence + 1
    /\ main' = "setJobPaused"
    /\ UNCHANGED <<job, paused, enabled, active, queue, async, setting, worker, overlap>>

SetJobPaused ==
    /\ main = "setJobPaused"
    /\ paused' = FALSE
    /\ main' = "loop"
    /\ UNCHANGED <<job, sequence, enabled, active, queue, async, setting, worker, overlap>>

\* Mutant of Pause: the sequence is not advanced.
Pause_KeepsSequence ==
    /\ main = "loop" /\ CanPublish
    /\ active' = FALSE
    /\ paused' = TRUE
    /\ main' = "loop"
    /\ Publishes("pause")
    /\ Begins(CheckCalls, TRUE)
    /\ UNCHANGED <<job, sequence, enabled, queue, async, setter, worker>>

\* pause(): m_active and m_paused, then the sequence.
Pause ==
    /\ main = "loop" /\ CanPublish
    /\ active' = FALSE
    /\ paused' = TRUE
    /\ main' = "pauseSequence"
    /\ Publishes("pause")
    /\ Begins(CheckCalls, TRUE)
    /\ UNCHANGED <<job, sequence, enabled, queue, async, setter, worker>>

PauseSequence ==
    /\ main = "pauseSequence"
    /\ sequence' = sequence + 1
    /\ main' = "loop"
    /\ UNCHANGED <<job, paused, enabled, active, queue, async, setting, worker, overlap>>

\* onResult(), in two steps: libuv takes the signal, then the queue is emptied.
OnAsync ==
    /\ main = "loop"
    /\ async
    /\ async' = FALSE
    /\ main' = "onResult"
    /\ UNCHANGED <<shared, queue, setting, worker, overlap>>

\* Mutant of OnResult: one result is taken per signal.
OnResult_TakesOne ==
    /\ main = "onResult"
    /\ queue' = IF queue > 0 THEN queue - 1 ELSE 0
    /\ main' = "loop"
    /\ UNCHANGED <<shared, async, setting, worker, overlap>>

OnResult ==
    /\ main = "onResult"
    /\ queue' = 0
    /\ main' = "loop"
    /\ UNCHANGED <<shared, async, setting, worker, overlap>>

(***************************************************************************)
(* App::stop(), on a signal or a quit command: Network::stop(), and then   *)
(* Workers::stop(): m_paused, m_sequence, and a join of every thread.      *)
(* FailoverStrategy::stop() reports a pause, which calls pause();          *)
(* SinglePoolStrategy::stop() only disconnects.                            *)
(***************************************************************************)
QuitSinglePool ==
    /\ main = "loop"
    /\ main' = "stop"
    /\ UNCHANGED <<shared, queue, async, setting, worker, overlap>>

Quit ==
    /\ main = "loop"
    /\ active' = FALSE
    /\ paused' = TRUE
    /\ main' = "quitSequence"
    /\ Publishes("pause")
    /\ UNCHANGED <<job, sequence, enabled, queue, async, setting, worker>>

QuitSequence ==
    /\ main = "quitSequence"
    /\ sequence' = sequence + 1
    /\ main' = "stop"
    /\ UNCHANGED <<job, paused, enabled, active, queue, async, setting, worker, overlap>>

\* Mutant of Stop: m_paused is not cleared.
Stop_StaysPaused ==
    /\ main = "stop"
    /\ main' = "stopSequence"
    /\ Begins(CheckWrites, TRUE)
    /\ UNCHANGED <<shared, queue, async, setter, worker, overlap>>

Stop ==
    /\ main = "stop"
    /\ paused' = FALSE
    /\ main' = "stopSequence"
    /\ Begins(CheckWrites, TRUE)
    /\ UNCHANGED <<job, sequence, enabled, active, queue, async, setter, worker, overlap>>

StopSequence ==
    /\ main = "stopSequence"
    /\ sequence' = 0
    /\ main' = "join"
    /\ Publishes("stop")
    /\ UNCHANGED <<job, paused, enabled, active, queue, async, setting, worker>>

Join ==
    /\ main = "join"
    /\ \A t \in Threads : worker[t].pc = "done"
    /\ main' = "joined"
    /\ UNCHANGED <<shared, queue, async, setting, worker, overlap>>
-----------------------------------------------------------------------------
(***************************************************************************)
(* setEnabled(), by the loop thread for the console, or by the thread of   *)
(* Check(), every second and also while the application stops.             *)
(***************************************************************************)
Steps(c, from, to) ==
    /\ setter[c].pc = from
    /\ setter' = [setter EXCEPT ![c].pc = to]
    /\ UNCHANGED <<main, raced>>

Returns(c) ==
    /\ setter' = [setter EXCEPT ![c] = NoCall]
    /\ main' = IF c = "loop" THEN "loop" ELSE main
    /\ UNCHANGED raced

\* if (m_enabled == enabled) return
SetEnabled(c) ==
    /\ setter[c].pc = "none" /\ CanPublish
    /\ c = "loop" => main = "loop"
    /\ setter' = [setter EXCEPT ![c] = [pc |-> "enabled", value |-> ~enabled]]
    /\ main' = IF c = "loop" THEN "setEnabled" ELSE main
    /\ Begins(IF c = "loop" THEN CheckCalls
              ELSE LoopCalls \/ (active /\ main \in {"stopSequence", "join"}), active)
    /\ UNCHANGED <<shared, queue, async, worker, overlap>>

WriteEnabled(c) ==
    /\ Steps(c, "enabled", "active")
    /\ enabled' = setter[c].value
    /\ UNCHANGED <<job, sequence, paused, active, queue, async, worker, overlap>>

\* if (!m_active) return
ActiveTest(c) ==
    /\ IF active THEN Steps(c, "active", "paused")
                 ELSE setter[c].pc = "active" /\ Returns(c)
    /\ UNCHANGED <<shared, queue, async, worker, overlap>>

WritePaused(c) ==
    /\ Steps(c, "paused", "sequence")
    /\ paused' = ~setter[c].value
    /\ IF setter[c].value THEN UNCHANGED overlap ELSE Publishes("pause")
    /\ UNCHANGED <<job, sequence, enabled, active, queue, async, worker>>

SetEnabledSequence(c) ==
    /\ setter[c].pc = "sequence"
    /\ sequence' = sequence + 1
    /\ Returns(c)
    /\ UNCHANGED <<job, paused, enabled, active, queue, async, worker, overlap>>
-----------------------------------------------------------------------------
(***************************************************************************)
(* A worker thread: MultiWorker::start() and consumeJob()                  *)
(***************************************************************************)
Moves(t, from, to) ==
    /\ worker[t].pc = from
    /\ worker' = [worker EXCEPT ![t].pc = to]

Calls(t, from, return) ==
    /\ worker[t].pc = from
    /\ worker' = [worker EXCEPT ![t].pc = "readJob", ![t].return = return]

\* while (Workers::sequence() > 0)
LoopTest(t) ==
    /\ Moves(t, "loop", IF sequence > 0 THEN "isPaused" ELSE "done")
    /\ UNCHANGED <<main, shared, queue, async, setting, overlap>>

\* if (Workers::isPaused())
PausedTest(t) ==
    /\ Moves(t, "isPaused", IF paused THEN "sleep" ELSE "isOutdated")
    /\ UNCHANGED <<main, shared, queue, async, setting, overlap>>

\* do sleep_for(200) while (Workers::isPaused()): the test that ends it.
WakeUp(t) ==
    /\ ~paused
    /\ worker[t].pc = "sleep"
    /\ worker' = [worker EXCEPT ![t].pc = "woke", ![t].return = "isOutdated"]
    /\ overlap' = [overlap EXCEPT ![t] = {}]
    /\ UNCHANGED <<main, shared, queue, async, setting>>

\* Mutant of StopTest: the test after the sleep loop is missing.
StopTest_Missing(t) ==
    /\ Moves(t, "woke", "readJob")
    /\ UNCHANGED <<main, shared, queue, async, setting, overlap>>

\* if (Workers::sequence() == 0) break
StopTest(t) ==
    /\ Moves(t, "woke", IF sequence = 0 THEN "done" ELSE "readJob")
    /\ UNCHANGED <<main, shared, queue, async, setting, overlap>>

\* while (!Workers::isOutdated(m_sequence))
OutdatedTest(t) ==
    /\ IF sequence = worker[t].seq
       THEN Moves(t, "isOutdated", "hash") /\ UNCHANGED overlap
       ELSE /\ Calls(t, "isOutdated", "loop")
            /\ overlap' = [overlap EXCEPT ![t] = {}]
    /\ UNCHANGED <<main, shared, queue, async, setting>>

\* consumeJob(), its first read: Job job = Workers::job().
ReadJob(t) ==
    /\ worker[t].pc = "readJob"
    /\ worker' = [worker EXCEPT ![t].pc = "readSequence", ![t].local = job]
    /\ UNCHANGED <<main, shared, queue, async, setting, overlap>>

\* Mutant of save: the pool ids are not looked at.
save_Always(w) == [w EXCEPT !.saved = w.job]

(***************************************************************************)
(* The rest of consumeJob() on a worker's state: the job it already has is *)
(* left alone; save() keeps a pool job that a donation replaces; resume()  *)
(* puts it back, but not its blob; any other job is copied.                *)
(***************************************************************************)
save(w) ==
    IF w.local \in DonateJobs /\ w.job \in PoolJobs THEN [w EXCEPT !.saved = w.job] ELSE w

resume(w) == w.job \in DonateJobs /\ w.local \in PoolJobs /\ w.local = w.saved

\* Mutant of TakeJob: the blob is not copied.
TakeJob_NoBlob(w) ==
    IF w.job = w.local THEN w
    ELSE IF resume(save(w)) THEN [w EXCEPT !.job = w.saved]
    ELSE [save(w) EXCEPT !.job = w.local]

TakeJob(w) ==
    IF w.job = w.local THEN w
    ELSE IF resume(save(w)) THEN [w EXCEPT !.job = w.saved]
    ELSE [save(w) EXCEPT !.job = w.local, !.blob = w.local]

\* consumeJob(), its second read: m_sequence = Workers::sequence().
ReadSequence(t) ==
    /\ worker[t].pc = "readSequence"
    /\ worker' = [worker EXCEPT ![t] =
                    TakeJob([@ EXCEPT !.pc = worker[t].return, !.seq = sequence])]
    /\ UNCHANGED <<main, shared, queue, async, setting, overlap>>

\* A hash without, or with, a share below the target; submit() first queues it,
Hash(t) ==
    /\ Moves(t, "hash", "isOutdated")
    /\ UNCHANGED <<main, shared, queue, async, setting, overlap>>

FindShare(t) ==
    /\ queue < MaxQueue
    /\ Moves(t, "hash", "send")
    /\ queue' = queue + 1
    /\ UNCHANGED <<main, shared, async, setting, overlap>>

\* Mutant of SendAsync: nothing is sent.
SendAsync_Missing(t) ==
    /\ Moves(t, "send", "isOutdated")
    /\ UNCHANGED <<main, shared, queue, async, setting, overlap>>

\* then wakes the loop: uv_async_send(&m_async).
SendAsync(t) ==
    /\ Moves(t, "send", "isOutdated")
    /\ async' = TRUE
    /\ UNCHANGED <<main, shared, queue, setting, overlap>>
-----------------------------------------------------------------------------
MainStep == \/ \E j \in Jobs : SetJob(j)
            \/ SetJobTest \/ SetJobSequence \/ SetJobPaused
            \/ Pause \/ PauseSequence
            \/ OnAsync \/ OnResult
            \/ QuitSinglePool \/ Quit \/ QuitSequence
            \/ Stop \/ StopSequence \/ Join

SetterStep(c) == \/ SetEnabled(c) \/ WriteEnabled(c) \/ ActiveTest(c)
                 \/ WritePaused(c) \/ SetEnabledSequence(c)

WorkerStep(t) == \/ LoopTest(t) \/ PausedTest(t) \/ WakeUp(t) \/ StopTest(t)
                 \/ OutdatedTest(t) \/ ReadJob(t) \/ ReadSequence(t)
                 \/ Hash(t) \/ FindShare(t) \/ SendAsync(t)

Next == \/ MainStep
        \/ \E c \in Setters : SetterStep(c)
        \/ \E t \in Threads : WorkerStep(t)

Spec == Init /\ [][Next]_vars

(***************************************************************************)
(* A function that was begun is ended, a signalled onResult() is called,   *)
(* and the threads run.  libuv serves every handle that is ready in a turn *)
(* of the loop, so jobs that keep coming cannot keep a signal waiting (SF: *)
(* between two turns the loop thread is in the middle of a call).  Nothing *)
(* makes pools, users, other programs or shares come.                      *)
(***************************************************************************)
MainProgress == \/ SetJobTest \/ SetJobSequence \/ SetJobPaused \/ PauseSequence
                \/ OnAsync \/ OnResult
                \/ QuitSequence \/ Stop \/ StopSequence \/ Join

SetterProgress(c) == \/ WriteEnabled(c) \/ ActiveTest(c)
                     \/ WritePaused(c) \/ SetEnabledSequence(c)

Fairness == /\ WF_vars(MainProgress)
            /\ SF_vars(OnAsync)
            /\ \A c \in Setters : WF_vars(SetterProgress(c))
            /\ \A t \in Threads : WF_vars(WorkerStep(t))

LiveSpec == Spec /\ Fairness
-----------------------------------------------------------------------------
Stopping == main \in {"quitSequence", "stop", "stopSequence", "join", "joined"}

\* No call that writes the flags is under way.
BetweenCalls == main = "loop" /\ ~CheckCalls

\* t hashes and will go on: nothing it tests tells it to look for a new job.
Settled(t) == worker[t].pc \in {"isOutdated", "hash", "send"} /\ worker[t].seq = sequence

\* Between calls the pause flag is what m_active and m_enabled say, after any
\* sequence of setJob(), pause() and setEnabled() of both threads, each of which
\* writes some of the three.  Where a call of Check() ran beside one of the loop
\* thread this may fail, with mining on while disabled or idle while enabled,
\* until a call that runs alone writes the flag again.
PausedIffIdle == BetweenCalls /\ ~raced => paused = ~(active /\ enabled)

\* A thread that believes it is up to date hashes the current job, unless a job
\* was published between its two reads in consumeJob(): the job is read before
\* the sequence, so such a thread takes the new number for the old job.  No
\* overlap of setJob() with setEnabled() keeps a job back: the one writes m_active
\* and then tests m_enabled, the other writes m_enabled and then tests m_active.
MinesCurrentJob ==
    \A t \in Threads : BetweenCalls /\ enabled /\ Settled(t) /\ "job" \notin overlap[t]
                           => worker[t].job = job

\* While mining is paused no thread settles down to hash, unless the pause came
\* after it left the sleep loop and before it read the sequence: whichever thread
\* paused, and whatever overlapped, the number was advanced after the flag.
PauseStopsHashing ==
    \A t \in Threads : BetweenCalls /\ paused /\ Settled(t) => "pause" \in overlap[t]

\* After stop() has cleared the sequence, only a thread that was between the end
\* of its sleep loop and its read of the sequence, or that has not consumed its
\* first job, can take 0 for up to date.  This needs that 0 stays: setEnabled() of
\* Check(), beside stop() or after it, advances it again.
StopReachesThreads ==
    \A t \in Threads : main = "join" /\ ~raced /\ Settled(t)
                           => sequence = 0 /\ "stop" \in overlap[t]

\* No share waits in the queue without a signal for onResult(), pending or about
\* to be sent by the thread that queued it: uv_async_send may merge signals.
NoShareForgotten ==
    queue > 0 => \/ async \/ main = "onResult"
                 \/ \E t \in Threads : worker[t].pc = "send"

\* The bytes a thread hashes belong to the job it submits shares for, except
\* for a pool job that resume() put back after a donation.
HashesOwnBlob ==
    \A t \in Threads : worker[t].blob = worker[t].job \/ worker[t].job = worker[t].saved

\* Claimed, but not so: when the donation is reported as finished, threads go
\* back to the pool's work.  resume() restores the job but not its blob.
HashesBlobOfJob ==
    \A t \in Threads : worker[t].pc = "hash" => worker[t].blob = worker[t].job

\* stop() returns, unless a thread took the sequence 0 for up to date, or Check(),
\* whose thread nobody tells to stop, wrote m_paused or m_sequence after stop() did.
StopJoins ==
    Stopping ~> \/ main = "joined"
                \/ main = "join" /\ raced
                \/ \E t \in Threads : "stop" \in overlap[t]

\* A job that stays published comes to be hashed by every thread, for good,
\* unless the thread raced with its publication, and also if setEnabled() did.
JobReachesThreads ==
    \A t \in Threads : \A j \in Jobs :
        <>[](main = "loop" /\ enabled /\ ~paused /\ job = j)
            => <>[](worker[t].job = j \/ "job" \in overlap[t])

\* Shares reach the loop thread: the queue is emptied again and again.
SharesDelivered == queue > 0 ~> queue = 0 \/ Stopping
=============================================================================
