---------------------------- MODULE WorkersProofs ---------------------------
(***************************************************************************)
(* Proofs about Workers, for every number of threads and jobs.             *)
(*                                                                         *)
(* None of the properties of Workers is inductive.  They are stated        *)
(* between calls of the loop thread and of Check(), for threads that have  *)
(* settled; the parts of IInv say what holds in the middle of a call, or   *)
(* of two, and while a thread is on its way to its next reads.             *)
(***************************************************************************)
EXTENDS Workers, TLAPS

Joins == main \in {"join", "joined"}

\* Calls that have still to advance m_sequence, at most one of each thread.
LoopDue  == IF main \in {"setJobTest", "setJobSequence", "pauseSequence", "setEnabled",
                         "quitSequence"} THEN 1 ELSE 0
CheckDue == IF CheckCalls THEN 1 ELSE 0

\* m_sequence stays positive until stop() clears it, and below its bound where
\* it is about to be advanced; it stays 0 unless Check() is beside stop().
SequenceInv ==
    /\ sequence + LoopDue + CheckDue <= MaxSequence + 2
    /\ ~Stopping => sequence + LoopDue + CheckDue <= MaxSequence + 1
    /\ setter["loop"].pc # "none" <=> main = "setEnabled"
    /\ ~Joins => sequence > 0
    /\ main = "stopSequence" /\ ~raced => ~CheckWrites
    /\ main = "join" /\ ~raced => sequence = 0 /\ ~CheckWrites

\* The flags within a call that is alone: what it has still to write.
CallInv(c) ==
    /\ setter[c].pc = "enabled"  => (enabled <=> ~setter[c].value) /\ (active \/ paused)
    /\ setter[c].pc = "active"   => (enabled <=> setter[c].value) /\ (active \/ paused)
    /\ setter[c].pc = "paused"   => (enabled <=> setter[c].value) /\ active
    /\ setter[c].pc = "sequence" => /\ (enabled <=> setter[c].value) /\ active
                                    /\ (paused <=> ~setter[c].value)

\* The pause flag, also within a call.
PauseInv ==
    /\ main \in {"setJobTest", "setJobSequence", "setJobPaused"} => active
    /\ ~raced /\ ~Stopping =>
        /\ ~LoopCalls \/ ~CheckCalls
        /\ ~LoopCalls /\ ~CheckCalls => (paused <=> ~(active /\ enabled))
        /\ main = "setJobTest" => enabled \/ paused
        /\ main \in {"setJobSequence", "setJobPaused"} => enabled
        /\ main = "pauseSequence" => ~active /\ paused
        /\ \A c \in Setters : CallInv(c)

\* The current job has not been published by a new number: its call, or the one
\* that will enable mining, has still to advance the sequence.
Unpublished ==
    \/ Stopping
    \/ main \in {"setJobTest", "setJobSequence", "pauseSequence"}
    \/ ~enabled /\ active
    \/ \E c \in Setters :
          setter[c].value /\ \/ setter[c].pc \in {"paused", "sequence"}
                             \/ setter[c].pc = "active" /\ active

\* A pause whose number is still to come.
PauseDue == \/ main \in {"pauseSequence", "quitSequence"}
            \/ \E c \in Setters : setter[c].pc = "sequence"

\* No thread is ahead of m_sequence, and none hashes before it has a number.
NumberInv(t) ==
    ~Joins => /\ worker[t].seq <= sequence
              /\ worker[t].pc \in {"hash", "send"} => worker[t].seq > 0

\* The job a thread read is the current one unless one was published since; and
\* so is the job of a thread with the current number, unless that number is about
\* to be outdated.
JobInv(t) ==
    /\ worker[t].pc = "readSequence" /\ "job" \notin overlap[t] => worker[t].local = job
    /\ /\ worker[t].pc \in {"loop", "isPaused", "isOutdated", "hash", "send"}
       /\ worker[t].seq = sequence
       /\ "job" \notin overlap[t]
       => worker[t].job = job \/ Unpublished

\* A pause reaches the threads that are awake: those that have still to read the
\* sequence, and those that have read it since.
AwakeInv(t) ==
    /\ HasWoken(t) /\ paused => "pause" \in overlap[t]
    /\ ~Joins /\ paused /\ Settled(t) => "pause" \in overlap[t] \/ PauseDue

\* A stop reaches the threads that could still take 0 for their number.
StopInv(t) ==
    main = "join" /\ ~raced =>
        /\ Settled(t) \/ HasNoNumber(t) => "stop" \in overlap[t]
        /\ HasWoken(t) /\ worker[t].pc # "woke" => "stop" \in overlap[t]

BlobInv(t) == worker[t].blob = worker[t].job \/ worker[t].job = worker[t].saved

ThreadInv(t) == NumberInv(t) /\ JobInv(t) /\ AwakeInv(t) /\ StopInv(t) /\ BlobInv(t)

IInv == /\ TypeOK /\ SequenceInv /\ PauseInv
        /\ \A t \in Threads : ThreadInv(t)
        /\ NoShareForgotten
-----------------------------------------------------------------------------
\* The initial state satisfies the invariant.
LEMMA InitIInv == Init => IInv
<1> SUFFICES ASSUME Init PROVE IInv
  OBVIOUS
<1> USE WorkersAssumption
<1> DEFINE w == [pc |-> "loop", job |-> NoJob, blob |-> NoJob, saved |-> NoJob,
                 seq |-> 0, local |-> NoJob, return |-> "loop"]
<1>1. TypeOK
  <2>1. w \in Worker
    BY DEF Worker, WorkerPC
  <2>2. worker = [t \in Threads |-> w]
    BY DEF Init
  <2> HIDE DEF w
  <2>3. worker \in [Threads -> Worker]
    BY <2>1, <2>2
  <2>4. setter \in [Setters -> Call]
    BY DEF Init, NoCall, Call, SetterPC
  <2>5. 1 \in 0 .. MaxSequence + 2 /\ 0 \in 0 .. MaxQueue
    OBVIOUS
  <2> QED BY <2>3, <2>4, <2>5 DEF Init, TypeOK, MainPC
<1>2. SequenceInv /\ PauseInv /\ NoShareForgotten
  BY DEF Init, Setters, NoCall, SequenceInv, LoopDue, CheckDue, PauseInv, CallInv,
         NoShareForgotten, Joins, Stopping, LoopCalls, CheckCalls, CheckWrites
<1>3. ASSUME NEW t \in Threads PROVE ThreadInv(t)
  BY DEF Init, ThreadInv, NumberInv, JobInv, AwakeInv, StopInv, BlobInv, Joins,
         HasWoken, HasNoNumber, Settled
<1> QED BY <1>1, <1>2, <1>3 DEF IInv

\* What a publication leaves in the history of a thread.
LEMMA PublishesFacts ==
    ASSUME TypeOK, NEW what \in {"job", "pause", "stop"}, Publishes(what)
    PROVE  /\ overlap' \in [Threads -> SUBSET {"job", "pause", "stop"}]
           /\ \A t \in Threads : overlap[t] \subseteq overlap'[t]
           /\ \A t \in Threads : Overlaps(t, what) => what \in overlap'[t]
           /\ \A t \in Threads : \A x \in overlap'[t] : x = what \/ x \in overlap[t]
BY DEF Publishes, TypeOK

\* The calls of setEnabled(), one by one.
LEMMA SetterFacts ==
    ASSUME TypeOK
    PROVE  /\ setter["loop"] \in Call /\ setter["check"] \in Call
           /\ \A c \in Setters : c = "loop" \/ c = "check"
           /\ "loop" \in Setters /\ "check" \in Setters
BY DEF TypeOK, Setters
-----------------------------------------------------------------------------
(***************************************************************************)
(* The steps of the loop thread leave the threads alone, and the steps of  *)
(* setEnabled() too.                                                       *)
(***************************************************************************)

\* Every step of the loop thread outside setEnabled() keeps the invariant.
LEMMA MainStepIInv == IInv /\ MainStep => IInv'
<1> SUFFICES ASSUME IInv, MainStep PROVE IInv'
  OBVIOUS
<1> USE WorkersAssumption
<1>a. /\ TypeOK /\ SequenceInv /\ PauseInv /\ NoShareForgotten
      /\ \A t \in Threads : ThreadInv(t)
      /\ \A t \in Threads : worker[t].seq \in 0 .. MaxSequence + 2
  BY DEF IInv, TypeOK, Worker
<1>1. ASSUME NEW j \in Jobs, SetJob(j) PROVE IInv'
  <2>1. TypeOK'
    BY <1>a, <1>1, PublishesFacts DEF SetJob, CanPublish, Begins, TypeOK, MainPC,
       SequenceInv, LoopDue, CheckDue
  <2>2. SequenceInv' /\ NoShareForgotten'
    BY <1>a, <1>1, SetterFacts DEF SetJob, CanPublish, Begins, TypeOK, SequenceInv, LoopDue,
       CheckDue, NoShareForgotten, Joins, Stopping, CheckCalls, CheckWrites
  <2>3. PauseInv'
    BY <1>a, <1>1, SetterFacts DEF SetJob, CanPublish, Begins, SequenceInv, PauseInv,
       CallInv, Stopping, LoopCalls, CheckCalls, CheckWrites
  <2>4. ASSUME NEW t \in Threads PROVE ThreadInv(t)'
    BY <1>a, <1>1, <2>2, SetterFacts, PublishesFacts DEF SetJob, CanPublish, Begins,
       TypeOK, SequenceInv, PauseInv, ThreadInv, NumberInv, JobInv, AwakeInv, StopInv,
       BlobInv, Unpublished, PauseDue, Joins, Stopping, HasWoken, HasNoNumber, Settled,
       Overlaps, HasReadJob
  <2> QED BY <2>1, <2>2, <2>3, <2>4 DEF IInv
<1>2. CASE SetJobTest
  <2>1. TypeOK'
    BY <1>a, <1>2 DEF SetJobTest, setting, shared, TypeOK, MainPC, SequenceInv, LoopDue,
       CheckDue
  <2>2. SequenceInv' /\ NoShareForgotten'
    BY <1>a, <1>2, SetterFacts DEF SetJobTest, setting, shared, TypeOK, SequenceInv,
       LoopDue, CheckDue, NoShareForgotten, Joins, Stopping, CheckCalls, CheckWrites
  <2>3. PauseInv'
    BY <1>a, <1>2, SetterFacts DEF SetJobTest, setting, shared, SequenceInv, PauseInv,
       CallInv, Stopping, LoopCalls, CheckCalls, CheckWrites
  <2>4. ASSUME NEW t \in Threads PROVE ThreadInv(t)'
    BY <1>a, <1>2, <2>2, SetterFacts DEF SetJobTest, setting, shared, TypeOK,
       SequenceInv, PauseInv, ThreadInv, NumberInv, JobInv, AwakeInv, StopInv, BlobInv,
       Unpublished, PauseDue, Joins, Stopping, HasWoken, HasNoNumber, Settled
  <2> QED BY <2>1, <2>2, <2>3, <2>4 DEF IInv
<1>3. CASE SetJobSequence
  <2>1. TypeOK'
    BY <1>a, <1>3 DEF SetJobSequence, setting, TypeOK, MainPC, SequenceInv, LoopDue,
       CheckDue
  <2>2. SequenceInv' /\ NoShareForgotten'
    BY <1>a, <1>3, SetterFacts DEF SetJobSequence, setting, TypeOK, SequenceInv, LoopDue,
       CheckDue, NoShareForgotten, Joins, Stopping, CheckCalls, CheckWrites
  <2>3. PauseInv'
    BY <1>a, <1>3, SetterFacts DEF SetJobSequence, setting, SequenceInv, PauseInv, CallInv,
       Stopping, LoopCalls, CheckCalls, CheckWrites
  <2>4. ASSUME NEW t \in Threads PROVE ThreadInv(t)'
    BY <1>a, <1>3, <2>2, SetterFacts DEF SetJobSequence, setting, TypeOK, SequenceInv,
       PauseInv, ThreadInv, NumberInv, JobInv, AwakeInv, StopInv, BlobInv, Unpublished,
       PauseDue, Joins, Stopping, HasWoken, HasNoNumber, Settled
  <2> QED BY <2>1, <2>2, <2>3, <2>4 DEF IInv
<1>4. CASE SetJobPaused
  <2>1. TypeOK'
    BY <1>a, <1>4 DEF SetJobPaused, setting, TypeOK, MainPC, SequenceInv, LoopDue, CheckDue
  <2>2. SequenceInv' /\ NoShareForgotten'
    BY <1>a, <1>4, SetterFacts DEF SetJobPaused, setting, TypeOK, SequenceInv, LoopDue,
       CheckDue, NoShareForgotten, Joins, Stopping, CheckCalls, CheckWrites
  <2>3. PauseInv'
    BY <1>a, <1>4, SetterFacts DEF SetJobPaused, setting, SequenceInv, PauseInv, CallInv,
       Stopping, LoopCalls, CheckCalls, CheckWrites
  <2>4. ASSUME NEW t \in Threads PROVE ThreadInv(t)'
    BY <1>a, <1>4, <2>2, SetterFacts DEF SetJobPaused, setting, TypeOK, SequenceInv,
       PauseInv, ThreadInv, NumberInv, JobInv, AwakeInv, StopInv, BlobInv, Unpublished,
       PauseDue, Joins, Stopping, HasWoken, HasNoNumber, Settled
  <2> QED BY <2>1, <2>2, <2>3, <2>4 DEF IInv
<1>5. CASE Pause
  <2>1. TypeOK'
    BY <1>a, <1>5, PublishesFacts DEF Pause, CanPublish, Begins, TypeOK, MainPC,
       SequenceInv, LoopDue, CheckDue
  <2>2. SequenceInv' /\ NoShareForgotten'
    BY <1>a, <1>5, SetterFacts DEF Pause, CanPublish, Begins, TypeOK, SequenceInv, LoopDue,
       CheckDue, NoShareForgotten, Joins, Stopping, CheckCalls, CheckWrites
  <2>3. PauseInv'
    BY <1>a, <1>5, SetterFacts DEF Pause, CanPublish, Begins, SequenceInv, PauseInv,
       CallInv, Stopping, LoopCalls, CheckCalls, CheckWrites
  <2>4. ASSUME NEW t \in Threads PROVE ThreadInv(t)'
    BY <1>a, <1>5, <2>2, SetterFacts, PublishesFacts DEF Pause, CanPublish, Begins,
       TypeOK, SequenceInv, PauseInv, ThreadInv, NumberInv, JobInv, AwakeInv, StopInv,
       BlobInv, Unpublished, PauseDue, Joins, Stopping, HasWoken, HasNoNumber, Settled,
       Overlaps, HasReadJob
  <2> QED BY <2>1, <2>2, <2>3, <2>4 DEF IInv
<1>6. CASE PauseSequence
  <2>1. TypeOK'
    BY <1>a, <1>6 DEF PauseSequence, setting, TypeOK, MainPC, SequenceInv, LoopDue, CheckDue
  <2>2. SequenceInv' /\ NoShareForgotten'
    BY <1>a, <1>6, SetterFacts DEF PauseSequence, setting, TypeOK, SequenceInv, LoopDue,
       CheckDue, NoShareForgotten, Joins, Stopping, CheckCalls, CheckWrites
  <2>3. PauseInv'
    BY <1>a, <1>6, SetterFacts DEF PauseSequence, setting, SequenceInv, PauseInv, CallInv,
       Stopping, LoopCalls, CheckCalls, CheckWrites
  <2>4. ASSUME NEW t \in Threads PROVE ThreadInv(t)'
    BY <1>a, <1>6, <2>2, SetterFacts DEF PauseSequence, setting, TypeOK, SequenceInv,
       PauseInv, ThreadInv, NumberInv, JobInv, AwakeInv, StopInv, BlobInv, Unpublished,
       PauseDue, Joins, Stopping, HasWoken, HasNoNumber, Settled
  <2> QED BY <2>1, <2>2, <2>3, <2>4 DEF IInv
<1>7. CASE OnAsync
  <2>1. TypeOK'
    BY <1>a, <1>7 DEF OnAsync, setting, shared, TypeOK, MainPC, SequenceInv, LoopDue,
       CheckDue
  <2>2. SequenceInv' /\ NoShareForgotten'
    BY <1>a, <1>7, SetterFacts DEF OnAsync, setting, shared, TypeOK, SequenceInv, LoopDue,
       CheckDue, NoShareForgotten, Joins, Stopping, CheckCalls, CheckWrites
  <2>3. PauseInv'
    BY <1>a, <1>7, SetterFacts DEF OnAsync, setting, shared, SequenceInv, PauseInv, CallInv,
       Stopping, LoopCalls, CheckCalls, CheckWrites
  <2>4. ASSUME NEW t \in Threads PROVE ThreadInv(t)'
    BY <1>a, <1>7, <2>2, SetterFacts DEF OnAsync, setting, shared, TypeOK, SequenceInv,
       PauseInv, ThreadInv, NumberInv, JobInv, AwakeInv, StopInv, BlobInv, Unpublished,
       PauseDue, Joins, Stopping, HasWoken, HasNoNumber, Settled
  <2> QED BY <2>1, <2>2, <2>3, <2>4 DEF IInv
<1>8. CASE OnResult
  <2>1. TypeOK'
    BY <1>a, <1>8 DEF OnResult, setting, shared, TypeOK, MainPC, SequenceInv, LoopDue,
       CheckDue
  <2>2. SequenceInv' /\ NoShareForgotten'
    BY <1>a, <1>8, SetterFacts DEF OnResult, setting, shared, TypeOK, SequenceInv, LoopDue,
       CheckDue, NoShareForgotten, Joins, Stopping, CheckCalls, CheckWrites
  <2>3. PauseInv'
    BY <1>a, <1>8, SetterFacts DEF OnResult, setting, shared, SequenceInv, PauseInv,
       CallInv, Stopping, LoopCalls, CheckCalls, CheckWrites
  <2>4. ASSUME NEW t \in Threads PROVE ThreadInv(t)'
    BY <1>a, <1>8, <2>2, SetterFacts DEF OnResult, setting, shared, TypeOK, SequenceInv,
       PauseInv, ThreadInv, NumberInv, JobInv, AwakeInv, StopInv, BlobInv, Unpublished,
       PauseDue, Joins, Stopping, HasWoken, HasNoNumber, Settled
  <2> QED BY <2>1, <2>2, <2>3, <2>4 DEF IInv
<1>9. CASE QuitSinglePool
  <2>1. TypeOK'
    BY <1>a, <1>9 DEF QuitSinglePool, setting, shared, TypeOK, MainPC, SequenceInv,
       LoopDue, CheckDue
  <2>2. SequenceInv' /\ NoShareForgotten'
    BY <1>a, <1>9, SetterFacts DEF QuitSinglePool, setting, shared, TypeOK, SequenceInv,
       LoopDue, CheckDue, NoShareForgotten, Joins, Stopping, CheckCalls, CheckWrites
  <2>3. PauseInv'
    BY <1>a, <1>9, SetterFacts DEF QuitSinglePool, setting, shared, SequenceInv,
       PauseInv, CallInv, Stopping, LoopCalls, CheckCalls, CheckWrites
  <2>4. ASSUME NEW t \in Threads PROVE ThreadInv(t)'
    BY <1>a, <1>9, <2>2, SetterFacts DEF QuitSinglePool, setting, shared, TypeOK,
       SequenceInv, PauseInv, ThreadInv, NumberInv, JobInv, AwakeInv, StopInv, BlobInv,
       Unpublished, PauseDue, Joins, Stopping, HasWoken, HasNoNumber, Settled
  <2> QED BY <2>1, <2>2, <2>3, <2>4 DEF IInv
<1>10. CASE Quit
  <2>1. TypeOK'
    BY <1>a, <1>10, PublishesFacts DEF Quit, setting, TypeOK, MainPC
  <2>2. SequenceInv' /\ NoShareForgotten'
    BY <1>a, <1>10, SetterFacts DEF Quit, setting, TypeOK, SequenceInv, LoopDue,
       CheckDue, NoShareForgotten, Joins, Stopping, CheckCalls, CheckWrites
  <2>3. PauseInv'
    BY <1>a, <1>10, SetterFacts DEF Quit, setting, SequenceInv, PauseInv, CallInv,
       Stopping, LoopCalls, CheckCalls, CheckWrites
  <2>4. ASSUME NEW t \in Threads PROVE ThreadInv(t)'
    BY <1>a, <1>10, <2>2, SetterFacts, PublishesFacts DEF Quit, setting, TypeOK,
       SequenceInv, PauseInv, ThreadInv, NumberInv, JobInv, AwakeInv, StopInv, BlobInv,
       Unpublished, PauseDue, Joins, Stopping, HasWoken, HasNoNumber, Settled, Overlaps,
       HasReadJob
  <2> QED BY <2>1, <2>2, <2>3, <2>4 DEF IInv
<1>11. CASE QuitSequence
  <2>1. TypeOK'
    BY <1>a, <1>11 DEF QuitSequence, setting, TypeOK, MainPC, SequenceInv, LoopDue, CheckDue
  <2>2. SequenceInv' /\ NoShareForgotten'
    BY <1>a, <1>11, SetterFacts DEF QuitSequence, setting, TypeOK, SequenceInv, LoopDue,
       CheckDue, NoShareForgotten, Joins, Stopping, CheckCalls, CheckWrites
  <2>3. PauseInv'
    BY <1>a, <1>11, SetterFacts DEF QuitSequence, setting, SequenceInv, PauseInv, CallInv,
       Stopping, LoopCalls, CheckCalls, CheckWrites
  <2>4. ASSUME NEW t \in Threads PROVE ThreadInv(t)'
    BY <1>a, <1>11, <2>2, SetterFacts DEF QuitSequence, setting, TypeOK, SequenceInv,
       PauseInv, ThreadInv, NumberInv, JobInv, AwakeInv, StopInv, BlobInv, Unpublished,
       PauseDue, Joins, Stopping, HasWoken, HasNoNumber, Settled
  <2> QED BY <2>1, <2>2, <2>3, <2>4 DEF IInv
<1>12. CASE Stop
  <2>1. TypeOK'
    BY <1>a, <1>12 DEF Stop, Begins, TypeOK, MainPC, SequenceInv, LoopDue, CheckDue
  <2>2. SequenceInv' /\ NoShareForgotten'
    BY <1>a, <1>12, SetterFacts DEF Stop, Begins, TypeOK, SequenceInv, LoopDue,
       CheckDue, NoShareForgotten, Joins, Stopping, CheckCalls, CheckWrites
  <2>3. PauseInv'
    BY <1>a, <1>12, SetterFacts DEF Stop, Begins, SequenceInv, PauseInv, CallInv,
       Stopping, LoopCalls, CheckCalls, CheckWrites
  <2>4. ASSUME NEW t \in Threads PROVE ThreadInv(t)'
    BY <1>a, <1>12, <2>2, SetterFacts DEF Stop, Begins, TypeOK, SequenceInv, PauseInv,
       ThreadInv, NumberInv, JobInv, AwakeInv, StopInv, BlobInv, Unpublished, PauseDue,
       Joins, Stopping, HasWoken, HasNoNumber, Settled, CheckWrites
  <2> QED BY <2>1, <2>2, <2>3, <2>4 DEF IInv
<1>13. CASE StopSequence
  <2>1. TypeOK'
    BY <1>a, <1>13, PublishesFacts DEF StopSequence, setting, TypeOK, MainPC,
       SequenceInv, LoopDue, CheckDue
  <2>2. SequenceInv' /\ NoShareForgotten'
    BY <1>a, <1>13, SetterFacts DEF StopSequence, setting, TypeOK, SequenceInv, LoopDue,
       CheckDue, NoShareForgotten, Joins, Stopping, CheckCalls, CheckWrites
  <2>3. PauseInv'
    BY <1>a, <1>13, SetterFacts DEF StopSequence, setting, SequenceInv, PauseInv, CallInv,
       Stopping, LoopCalls, CheckCalls, CheckWrites
  <2>4. ASSUME NEW t \in Threads PROVE ThreadInv(t)'
    BY <1>a, <1>13, <2>2, SetterFacts, PublishesFacts DEF StopSequence, setting, TypeOK,
       SequenceInv, PauseInv, ThreadInv, NumberInv, JobInv, AwakeInv, StopInv, BlobInv,
       Unpublished, PauseDue, Joins, Stopping, HasWoken, HasNoNumber, Settled, Overlaps,
       HasReadJob
  <2> QED BY <2>1, <2>2, <2>3, <2>4 DEF IInv
<1>14. CASE Join
  <2>1. TypeOK'
    BY <1>a, <1>14 DEF Join, setting, shared, TypeOK, MainPC, SequenceInv, LoopDue, CheckDue
  <2>2. SequenceInv' /\ NoShareForgotten'
    BY <1>a, <1>14, SetterFacts DEF Join, setting, shared, TypeOK, SequenceInv, LoopDue,
       CheckDue, NoShareForgotten, Joins, Stopping, CheckCalls, CheckWrites
  <2>3. PauseInv'
    BY <1>a, <1>14, SetterFacts DEF Join, setting, shared, SequenceInv, PauseInv, CallInv,
       Stopping, LoopCalls, CheckCalls, CheckWrites
  <2>4. ASSUME NEW t \in Threads PROVE ThreadInv(t)'
    BY <1>a, <1>14, <2>2, SetterFacts DEF Join, setting, shared, TypeOK, SequenceInv,
       PauseInv, ThreadInv, NumberInv, JobInv, AwakeInv, StopInv, BlobInv, Unpublished,
       PauseDue, Joins, Stopping, HasWoken, HasNoNumber, Settled
  <2> QED BY <2>1, <2>2, <2>3, <2>4 DEF IInv
<1> QED BY <1>1, <1>2, <1>3, <1>4, <1>5, <1>6, <1>7, <1>8, <1>9, <1>10, <1>11, <1>12,
   <1>13, <1>14 DEF MainStep

\* Every step of setEnabled() keeps the invariant.
LEMMA SetterStepIInv == ASSUME IInv, NEW c \in Setters, SetterStep(c) PROVE IInv'
<1> USE WorkersAssumption
<1>a. /\ TypeOK /\ SequenceInv /\ PauseInv /\ NoShareForgotten
      /\ \A t \in Threads : ThreadInv(t)
      /\ \A t \in Threads : worker[t].seq \in 0 .. MaxSequence + 2
  BY DEF IInv, TypeOK, Worker
<1>1. CASE SetEnabled(c)
  <2>1. TypeOK'
    BY <1>a, <1>1, SetterFacts DEF SetEnabled, CanPublish, Begins, shared, TypeOK,
       MainPC, Call, NoCall, SetterPC, SequenceInv, LoopDue, CheckDue, CheckCalls
  <2>2. SequenceInv' /\ NoShareForgotten'
    BY <1>a, <1>1, SetterFacts DEF SetEnabled, CanPublish, Begins, shared, TypeOK, Call,
       NoCall, SequenceInv, LoopDue, CheckDue, NoShareForgotten, Joins, Stopping,
       CheckCalls, CheckWrites, LoopCalls
  <2>3. PauseInv'
    BY <1>a, <1>1, SetterFacts DEF SetEnabled, CanPublish, Begins, shared, TypeOK, Call,
       NoCall, SequenceInv, PauseInv, CallInv, Stopping, LoopCalls, CheckCalls,
       CheckWrites
  <2>4. ASSUME NEW t \in Threads PROVE ThreadInv(t)'
    BY <1>a, <1>1, <2>2, SetterFacts DEF SetEnabled, CanPublish, Begins, shared, TypeOK,
       Call, NoCall, SequenceInv, PauseInv, ThreadInv, NumberInv, JobInv, AwakeInv,
       StopInv, BlobInv, Unpublished, PauseDue, Joins, Stopping, HasWoken, HasNoNumber,
       Settled
  <2> QED BY <2>1, <2>2, <2>3, <2>4 DEF IInv
<1>2. CASE WriteEnabled(c)
  <2>1. TypeOK'
    BY <1>a, <1>2, SetterFacts DEF WriteEnabled, Steps, TypeOK, MainPC, Call,
       NoCall, SetterPC, SequenceInv, LoopDue, CheckDue, CheckCalls
  <2>2. SequenceInv' /\ NoShareForgotten'
    BY <1>a, <1>2, SetterFacts DEF WriteEnabled, Steps, TypeOK, Call, NoCall,
       SequenceInv, LoopDue, CheckDue, NoShareForgotten, Joins, Stopping, CheckCalls,
       CheckWrites, LoopCalls
  <2>3. PauseInv'
    BY <1>a, <1>2, SetterFacts DEF WriteEnabled, Steps, TypeOK, Call, NoCall, SequenceInv,
       PauseInv, CallInv, Stopping, LoopCalls, CheckCalls, CheckWrites
  <2>4. ASSUME NEW t \in Threads PROVE ThreadInv(t)'
    BY <1>a, <1>2, <2>2, SetterFacts DEF WriteEnabled, Steps, TypeOK, Call, NoCall,
       SequenceInv, PauseInv, ThreadInv, NumberInv, JobInv, AwakeInv, StopInv, BlobInv,
       Unpublished, PauseDue, Joins, Stopping, HasWoken, HasNoNumber, Settled
  <2> QED BY <2>1, <2>2, <2>3, <2>4 DEF IInv
<1>3. CASE ActiveTest(c)
  <2>1. TypeOK'
    <3>1. setter' \in [Setters -> Call]
      <4>1. CASE active
        BY <1>a, <1>3, <4>1, SetterFacts DEF ActiveTest, Steps, TypeOK, Call, SetterPC
      <4>2. CASE ~active
        <5>1. NoCall \in Call
          BY DEF NoCall, Call, SetterPC
        <5>2. setter' = [setter EXCEPT ![c] = NoCall]
          BY <1>3, <4>2 DEF ActiveTest, Returns
        <5> QED BY <1>a, <5>1, <5>2 DEF TypeOK
      <4> QED BY <4>1, <4>2
    <3>2. main' = main \/ main' = "loop"
      <4>1. CASE active
        BY <1>3, <4>1 DEF ActiveTest, Steps
      <4>2. CASE ~active
        BY <1>3, <4>2 DEF ActiveTest, Returns
      <4> QED BY <4>1, <4>2
    <3>3. UNCHANGED <<shared, queue, async, raced, worker, overlap>>
      <4>1. CASE active
        BY <1>3, <4>1 DEF ActiveTest, Steps
      <4>2. CASE ~active
        BY <1>3, <4>2 DEF ActiveTest, Returns
      <4> QED BY <4>1, <4>2
    <3> QED BY <1>a, <3>1, <3>2, <3>3 DEF shared, TypeOK, MainPC
  <2>2. SequenceInv' /\ NoShareForgotten'
    BY <1>a, <1>3, SetterFacts DEF ActiveTest, Steps, Returns, shared, TypeOK, Call,
       NoCall, SequenceInv, LoopDue, CheckDue, NoShareForgotten, Joins, Stopping,
       CheckCalls, CheckWrites, LoopCalls
  <2>3. PauseInv'
    BY <1>a, <1>3, SetterFacts DEF ActiveTest, Steps, Returns, shared, TypeOK, Call,
       NoCall, SequenceInv, PauseInv, CallInv, Stopping, LoopCalls, CheckCalls,
       CheckWrites
  <2>4. ASSUME NEW t \in Threads PROVE ThreadInv(t)'
    BY <1>a, <1>3, <2>2, SetterFacts DEF ActiveTest, Steps, Returns, shared, TypeOK,
       Call, NoCall, SequenceInv, PauseInv, ThreadInv, NumberInv, JobInv, AwakeInv,
       StopInv, BlobInv, Unpublished, PauseDue, Joins, Stopping, HasWoken, HasNoNumber,
       Settled
  <2> QED BY <2>1, <2>2, <2>3, <2>4 DEF IInv
<1>4. CASE WritePaused(c)
  <2>1. TypeOK'
    BY <1>a, <1>4, SetterFacts, PublishesFacts DEF WritePaused, Steps, TypeOK, MainPC, Call,
       NoCall, SetterPC, SequenceInv, LoopDue, CheckDue, CheckCalls
  <2>2. SequenceInv' /\ NoShareForgotten'
    BY <1>a, <1>4, SetterFacts DEF WritePaused, Steps, TypeOK, Call, NoCall,
       SequenceInv, LoopDue, CheckDue, NoShareForgotten, Joins, Stopping, CheckCalls,
       CheckWrites, LoopCalls
  <2>3. PauseInv'
    BY <1>a, <1>4, SetterFacts DEF WritePaused, Steps, TypeOK, Call, NoCall, SequenceInv,
       PauseInv, CallInv, Stopping, LoopCalls, CheckCalls, CheckWrites
  <2>4. ASSUME NEW t \in Threads PROVE ThreadInv(t)'
    BY <1>a, <1>4, <2>2, SetterFacts, PublishesFacts DEF WritePaused, Steps, TypeOK,
       Call, NoCall, SequenceInv, PauseInv, ThreadInv, NumberInv, JobInv, AwakeInv,
       StopInv, BlobInv, Unpublished, PauseDue, Joins, Stopping, HasWoken, HasNoNumber,
       Settled, Overlaps
  <2> QED BY <2>1, <2>2, <2>3, <2>4 DEF IInv
<1>5. CASE SetEnabledSequence(c)
  <2>1. TypeOK'
    BY <1>a, <1>5, SetterFacts DEF SetEnabledSequence, Returns, TypeOK, MainPC, Call,
       NoCall, SetterPC, SequenceInv, LoopDue, CheckDue, CheckCalls
  <2>2. SequenceInv' /\ NoShareForgotten'
    BY <1>a, <1>5, SetterFacts DEF SetEnabledSequence, Returns, TypeOK, Call, NoCall,
       SequenceInv, LoopDue, CheckDue, NoShareForgotten, Joins, Stopping, CheckCalls,
       CheckWrites, LoopCalls
  <2>3. PauseInv'
    BY <1>a, <1>5, SetterFacts DEF SetEnabledSequence, Returns, TypeOK, Call, NoCall,
       SequenceInv, PauseInv, CallInv, Stopping, LoopCalls, CheckCalls, CheckWrites
  <2>4. ASSUME NEW t \in Threads PROVE ThreadInv(t)'
    BY <1>a, <1>5, <2>2, SetterFacts DEF SetEnabledSequence, Returns, TypeOK, Call,
       NoCall, SequenceInv, PauseInv, ThreadInv, NumberInv, JobInv, AwakeInv, StopInv,
       BlobInv, Unpublished, PauseDue, Joins, Stopping, HasWoken, HasNoNumber, Settled
  <2> QED BY <2>1, <2>2, <2>3, <2>4 DEF IInv
<1> QED BY <1>1, <1>2, <1>3, <1>4, <1>5 DEF SetterStep
-----------------------------------------------------------------------------
(***************************************************************************)
(* The steps of the threads.  A thread changes its own record and its own  *)
(* history, and otherwise at most the queue and the signal.                *)
(***************************************************************************)

\* What the loop thread and the other threads rely on is not touched.
LEMMA OneThreadIInv ==
    ASSUME IInv, NEW t \in Threads, NEW w \in Worker,
           worker' = [worker EXCEPT ![t] = w],
           UNCHANGED <<main, shared, setting>>,
           queue' \in 0 .. MaxQueue, async' \in BOOLEAN,
           overlap' = overlap \/ overlap' = [overlap EXCEPT ![t] = {}],
           NoShareForgotten', ThreadInv(t)'
    PROVE  IInv'
<1>1. TypeOK'
  BY DEF IInv, TypeOK, shared, setting
<1>2. SequenceInv' /\ PauseInv'
  BY DEF IInv, SequenceInv, LoopDue, CheckDue, PauseInv, CallInv, shared, setting, Joins,
         Stopping, LoopCalls, CheckCalls, CheckWrites
<1>3. ASSUME NEW s \in Threads PROVE ThreadInv(s)'
  <2>1. CASE s = t
    BY <2>1
  <2>2. CASE s # t
    <3>1. worker'[s] = worker[s] /\ overlap'[s] = overlap[s]
      BY <2>2 DEF IInv, TypeOK
    <3> QED BY <3>1 DEF IInv, ThreadInv, NumberInv, JobInv, AwakeInv, StopInv, BlobInv,
       Unpublished, PauseDue, Joins, Stopping, HasWoken, HasNoNumber, Settled, shared,
       setting
  <2> QED BY <2>1, <2>2
<1> QED BY <1>1, <1>2, <1>3 DEF IInv

\* Signals: a thread that does not leave submit() and queues nothing.
LEMMA KeepsShares ==
    ASSUME IInv, NEW t \in Threads, NEW w \in Worker,
           worker' = [worker EXCEPT ![t] = w], worker[t].pc # "send",
           UNCHANGED <<main, queue, async>>
    PROVE  NoShareForgotten'
<1>1. \A s \in Threads : worker[s].pc = "send" => worker'[s].pc = "send"
  BY DEF IInv, TypeOK
<1> QED BY <1>1 DEF IInv, NoShareForgotten

\* consumeJob() ends with the job it read, and the blob is that job's unless the
\* job is the saved one.
LEMMA TakeJobFacts ==
    ASSUME NEW w \in Worker
    PROVE  /\ TakeJob(w) \in Worker
           /\ TakeJob(w).job = w.local
           /\ TakeJob(w).pc = w.pc /\ TakeJob(w).seq = w.seq /\ TakeJob(w).return = w.return
           /\ w.blob = w.job \/ w.job = w.saved =>
                  \/ TakeJob(w).blob = TakeJob(w).job
                  \/ TakeJob(w).job = TakeJob(w).saved
<1> USE WorkersAssumption
<1>1. /\ save(w) \in Worker /\ save(w).job = w.job /\ save(w).local = w.local
      /\ save(w).pc = w.pc /\ save(w).seq = w.seq /\ save(w).return = w.return
      /\ save(w).blob = w.blob
      /\ w.local \in PoolJobs => save(w) = w
  BY DEF save, Worker, Jobs
<1>2. CASE w.job = w.local
  BY <1>2 DEF TakeJob
<1>3. CASE w.job # w.local /\ resume(save(w))
  <2>1. save(w) = w
    BY <1>1, <1>3 DEF resume
  <2>2. w.local = w.saved /\ w.local \in Jobs \cup {NoJob}
    BY <1>3, <2>1 DEF resume, Worker
  <2>3. TakeJob(w) = [w EXCEPT !.job = w.saved]
    BY <1>3 DEF TakeJob
  <2> QED BY <2>2, <2>3 DEF Worker
<1>4. CASE w.job # w.local /\ ~resume(save(w))
  <2>1. TakeJob(w) = [save(w) EXCEPT !.job = w.local, !.blob = w.local]
    BY <1>4 DEF TakeJob
  <2> DEFINE v == save(w)
  <2>2. TakeJob(w) = [v EXCEPT !.job = w.local, !.blob = w.local]
    BY <2>1
  <2>3. v \in Worker /\ v.pc = w.pc /\ v.seq = w.seq /\ v.return = w.return
    BY <1>1
  <2>4. w.local \in Jobs \cup {NoJob}
    BY DEF Worker
  <2> HIDE DEF v
  <2> QED BY <2>2, <2>3, <2>4 DEF Worker
<1> QED BY <1>2, <1>3, <1>4

\* Every step of a thread keeps the invariant.
LEMMA WorkerStepIInv == ASSUME IInv, NEW t \in Threads, WorkerStep(t) PROVE IInv'
<1> USE WorkersAssumption
<1>a. /\ TypeOK /\ SequenceInv /\ PauseInv /\ NoShareForgotten /\ ThreadInv(t)
      /\ worker[t] \in Worker
  BY DEF IInv, TypeOK
<1>1. CASE LoopTest(t)
  <2> DEFINE w == [worker[t] EXCEPT !.pc = IF sequence > 0 THEN "isPaused" ELSE "done"]
  <2>1. w \in Worker /\ worker' = [worker EXCEPT ![t] = w]
    BY <1>a, <1>1 DEF LoopTest, Moves, TypeOK, Worker, WorkerPC
  <2>2. ThreadInv(t)'
    BY <1>a, <1>1, <2>1 DEF LoopTest, Moves, TypeOK, Worker, SequenceInv, PauseInv,
       ThreadInv, NumberInv, JobInv, AwakeInv, StopInv,
       BlobInv, Unpublished, PauseDue, Joins, Stopping, HasWoken, HasNoNumber, Settled,
       shared, setting
  <2>3. NoShareForgotten'
    BY <1>1, <2>1, KeepsShares DEF LoopTest, Moves
  <2> HIDE DEF w
  <2> QED BY <1>a, <1>1, <2>1, <2>2, <2>3, OneThreadIInv DEF LoopTest, TypeOK
<1>2. CASE PausedTest(t)
  <2> DEFINE w == [worker[t] EXCEPT !.pc = IF paused THEN "sleep" ELSE "isOutdated"]
  <2>1. w \in Worker /\ worker' = [worker EXCEPT ![t] = w]
    BY <1>a, <1>2 DEF PausedTest, Moves, TypeOK, Worker, WorkerPC
  <2>2. ThreadInv(t)'
    BY <1>a, <1>2, <2>1 DEF PausedTest, Moves, TypeOK, Worker, SequenceInv, PauseInv,
       ThreadInv, NumberInv, JobInv, AwakeInv, StopInv,
       BlobInv, Unpublished, PauseDue, Joins, Stopping, HasWoken, HasNoNumber, Settled,
       shared, setting
  <2>3. NoShareForgotten'
    BY <1>2, <2>1, KeepsShares DEF PausedTest, Moves
  <2> HIDE DEF w
  <2> QED BY <1>a, <1>2, <2>1, <2>2, <2>3, OneThreadIInv DEF PausedTest, TypeOK
<1>3. CASE WakeUp(t)
  <2> DEFINE w == [worker[t] EXCEPT !.pc = "woke", !.return = "isOutdated"]
  <2>1. w \in Worker /\ worker' = [worker EXCEPT ![t] = w]
    BY <1>a, <1>3 DEF WakeUp, TypeOK, Worker, WorkerPC
  <2>2. ThreadInv(t)'
    BY <1>a, <1>3, <2>1 DEF WakeUp, TypeOK, Worker, SequenceInv, PauseInv,
       ThreadInv, NumberInv, JobInv, AwakeInv, StopInv,
       BlobInv, Unpublished, PauseDue, Joins, Stopping, HasWoken, HasNoNumber, Settled,
       shared, setting
  <2>3. NoShareForgotten'
    BY <1>3, <2>1, KeepsShares DEF WakeUp
  <2> HIDE DEF w
  <2> QED BY <1>a, <1>3, <2>1, <2>2, <2>3, OneThreadIInv DEF WakeUp, TypeOK
<1>4. CASE StopTest(t)
  <2> DEFINE w == [worker[t] EXCEPT !.pc = IF sequence = 0 THEN "done" ELSE "readJob"]
  <2>1. w \in Worker /\ worker' = [worker EXCEPT ![t] = w]
    BY <1>a, <1>4 DEF StopTest, Moves, TypeOK, Worker, WorkerPC
  <2>2. ThreadInv(t)'
    BY <1>a, <1>4, <2>1 DEF StopTest, Moves, TypeOK, Worker, SequenceInv, PauseInv,
       ThreadInv, NumberInv, JobInv, AwakeInv, StopInv,
       BlobInv, Unpublished, PauseDue, Joins, Stopping, HasWoken, HasNoNumber, Settled,
       shared, setting
  <2>3. NoShareForgotten'
    BY <1>4, <2>1, KeepsShares DEF StopTest, Moves
  <2> HIDE DEF w
  <2> QED BY <1>a, <1>4, <2>1, <2>2, <2>3, OneThreadIInv DEF StopTest, TypeOK
<1>5. CASE OutdatedTest(t)
  <2>1. CASE sequence = worker[t].seq
    <3> DEFINE w == [worker[t] EXCEPT !.pc = "hash"]
    <3>1. w \in Worker /\ worker' = [worker EXCEPT ![t] = w]
      BY <1>a, <1>5, <2>1 DEF OutdatedTest, Moves, TypeOK, Worker, WorkerPC
    <3>2. overlap' = overlap /\ worker[t].pc = "isOutdated" /\ worker'[t] = w
      BY <1>a, <1>5, <2>1 DEF OutdatedTest, Moves, TypeOK
    <3>3. ThreadInv(t)'
      BY <1>a, <1>5, <2>1, <3>1, <3>2 DEF OutdatedTest, Worker, SequenceInv,
         TypeOK, MainPC, ThreadInv, NumberInv, JobInv, AwakeInv, StopInv,
         BlobInv, Unpublished, PauseDue, Joins, Stopping, HasWoken, HasNoNumber, Settled,
       shared, setting
    <3>4. NoShareForgotten'
      BY <1>5, <3>1, <3>2, KeepsShares DEF OutdatedTest
    <3> HIDE DEF w
    <3> QED BY <1>a, <1>5, <3>1, <3>2, <3>3, <3>4, OneThreadIInv DEF OutdatedTest, TypeOK
  <2>2. CASE sequence # worker[t].seq
    <3> DEFINE w == [worker[t] EXCEPT !.pc = "readJob", !.return = "loop"]
    <3>1. w \in Worker /\ worker' = [worker EXCEPT ![t] = w]
      BY <1>a, <1>5, <2>2 DEF OutdatedTest, Calls, TypeOK, Worker, WorkerPC
    <3>2. worker[t].pc = "isOutdated" /\ worker'[t] = w
      BY <1>a, <1>5, <2>2 DEF OutdatedTest, Calls, TypeOK
    <3>3. ThreadInv(t)'
      <4>1. /\ w.pc = "readJob" /\ w.return = "loop" /\ w.seq = worker[t].seq
            /\ w.job = worker[t].job /\ w.blob = worker[t].blob /\ w.saved = worker[t].saved
        BY <1>a DEF Worker
      <4> HIDE DEF w
      <4> QED BY <1>a, <1>5, <3>2, <4>1 DEF OutdatedTest, ThreadInv, NumberInv, JobInv,
         AwakeInv, StopInv, BlobInv, Unpublished, PauseDue, Joins, Stopping, HasWoken,
         HasNoNumber, Settled, shared, setting
    <3>4. NoShareForgotten'
      BY <1>5, <3>1, <3>2, KeepsShares DEF OutdatedTest
    <3> HIDE DEF w
    <3> QED BY <1>a, <1>5, <2>2, <3>1, <3>2, <3>3, <3>4, OneThreadIInv DEF OutdatedTest,
       TypeOK
  <2> QED BY <2>1, <2>2
<1>6. CASE ReadJob(t)
  <2> DEFINE w == [worker[t] EXCEPT !.pc = "readSequence", !.local = job]
  <2>1. w \in Worker /\ worker' = [worker EXCEPT ![t] = w]
    BY <1>a, <1>6 DEF ReadJob, TypeOK, Worker, WorkerPC
  <2>2. ThreadInv(t)'
    BY <1>a, <1>6, <2>1 DEF ReadJob, TypeOK, Worker, SequenceInv, PauseInv,
       ThreadInv, NumberInv, JobInv, AwakeInv, StopInv,
       BlobInv, Unpublished, PauseDue, Joins, Stopping, HasWoken, HasNoNumber, Settled,
       shared, setting
  <2>3. NoShareForgotten'
    BY <1>6, <2>1, KeepsShares DEF ReadJob
  <2> HIDE DEF w
  <2> QED BY <1>a, <1>6, <2>1, <2>2, <2>3, OneThreadIInv DEF ReadJob, TypeOK
<1>7. CASE ReadSequence(t)
  <2> DEFINE v == [worker[t] EXCEPT !.pc = worker[t].return, !.seq = sequence]
             w == TakeJob(v)
  <2>1. v \in Worker
    BY <1>a DEF TypeOK, Worker, WorkerPC
  <2>2. worker' = [worker EXCEPT ![t] = w]
    BY <1>7 DEF ReadSequence
  <2>3. /\ v.pc = worker[t].return /\ v.return = worker[t].return /\ v.seq = sequence
        /\ v.local = worker[t].local /\ v.job = worker[t].job
        /\ v.blob = worker[t].blob /\ v.saved = worker[t].saved
    BY <1>a DEF Worker
  <2> HIDE DEF v
  <2>4. /\ w \in Worker /\ w.job = worker[t].local
        /\ w.pc = worker[t].return /\ w.return = worker[t].return /\ w.seq = sequence
        /\ w.blob = w.job \/ w.job = w.saved
    BY <1>a, <2>1, <2>3, TakeJobFacts DEF ThreadInv, BlobInv
  <2> HIDE DEF w
  <2>5. worker'[t] = w
    BY <1>a, <2>2 DEF TypeOK
  <2>6. ThreadInv(t)'
    BY <1>a, <1>7, <2>4, <2>5 DEF ReadSequence, TypeOK, Worker, SequenceInv, PauseInv,
       ThreadInv, NumberInv, JobInv, AwakeInv, StopInv,
       BlobInv, Unpublished, PauseDue, Joins, Stopping, HasWoken, HasNoNumber, Settled,
       shared, setting
  <2>7. NoShareForgotten'
    BY <1>7, <2>2, <2>4, KeepsShares DEF ReadSequence
  <2> QED BY <1>a, <1>7, <2>2, <2>4, <2>6, <2>7, OneThreadIInv DEF ReadSequence, TypeOK
<1>8. CASE Hash(t)
  <2> DEFINE w == [worker[t] EXCEPT !.pc = "isOutdated"]
  <2>1. w \in Worker /\ worker' = [worker EXCEPT ![t] = w]
    BY <1>a, <1>8 DEF Hash, Moves, TypeOK, Worker, WorkerPC
  <2>2. ThreadInv(t)'
    BY <1>a, <1>8, <2>1 DEF Hash, Moves, TypeOK, Worker, SequenceInv, PauseInv,
       ThreadInv, NumberInv, JobInv, AwakeInv, StopInv,
       BlobInv, Unpublished, PauseDue, Joins, Stopping, HasWoken, HasNoNumber, Settled,
       shared, setting
  <2>3. NoShareForgotten'
    BY <1>8, <2>1, KeepsShares DEF Hash, Moves
  <2> HIDE DEF w
  <2> QED BY <1>a, <1>8, <2>1, <2>2, <2>3, OneThreadIInv DEF Hash, TypeOK
<1>9. CASE FindShare(t)
  <2> DEFINE w == [worker[t] EXCEPT !.pc = "send"]
  <2>1. w \in Worker /\ worker' = [worker EXCEPT ![t] = w]
    BY <1>a, <1>9 DEF FindShare, Moves, TypeOK, Worker, WorkerPC
  <2>2. ThreadInv(t)'
    BY <1>a, <1>9, <2>1 DEF FindShare, Moves, TypeOK, Worker, SequenceInv, PauseInv,
       ThreadInv, NumberInv, JobInv, AwakeInv, StopInv,
       BlobInv, Unpublished, PauseDue, Joins, Stopping, HasWoken, HasNoNumber, Settled,
       shared, setting
  <2>3. NoShareForgotten'
    BY <1>a, <1>9, <2>1 DEF FindShare, NoShareForgotten, TypeOK
  <2>4. queue' \in 0 .. MaxQueue /\ async' \in BOOLEAN
    BY <1>a, <1>9 DEF FindShare, TypeOK
  <2> HIDE DEF w
  <2> QED BY <1>9, <2>1, <2>2, <2>3, <2>4, OneThreadIInv DEF FindShare
<1>10. CASE SendAsync(t)
  <2> DEFINE w == [worker[t] EXCEPT !.pc = "isOutdated"]
  <2>1. w \in Worker /\ worker' = [worker EXCEPT ![t] = w]
    BY <1>a, <1>10 DEF SendAsync, Moves, TypeOK, Worker, WorkerPC
  <2>2. ThreadInv(t)'
    BY <1>a, <1>10, <2>1 DEF SendAsync, Moves, TypeOK, Worker, SequenceInv, PauseInv,
       ThreadInv, NumberInv, JobInv, AwakeInv, StopInv,
       BlobInv, Unpublished, PauseDue, Joins, Stopping, HasWoken, HasNoNumber, Settled,
       shared, setting
  <2>3. NoShareForgotten'
    BY <1>a, <1>10, <2>1 DEF SendAsync, NoShareForgotten, TypeOK
  <2>4. queue' \in 0 .. MaxQueue /\ async' \in BOOLEAN
    BY <1>a, <1>10 DEF SendAsync, TypeOK
  <2> HIDE DEF w
  <2> QED BY <1>10, <2>1, <2>2, <2>3, <2>4, OneThreadIInv DEF SendAsync
<1> QED BY <1>1, <1>2, <1>3, <1>4, <1>5, <1>6, <1>7, <1>8, <1>9, <1>10 DEF WorkerStep

\* Every step of the program keeps the invariant.
LEMMA NextIInv == IInv /\ [Next]_vars => IInv'
<1> SUFFICES ASSUME IInv, [Next]_vars PROVE IInv'
  OBVIOUS
<1>1. CASE MainStep
  BY <1>1, MainStepIInv
<1>2. ASSUME NEW t \in Threads, WorkerStep(t) PROVE IInv'
  BY <1>2, WorkerStepIInv
<1>3. ASSUME NEW c \in Setters, SetterStep(c) PROVE IInv'
  BY <1>3, SetterStepIInv
<1>4. CASE UNCHANGED vars
  <2>1. TypeOK' /\ SequenceInv' /\ PauseInv' /\ NoShareForgotten'
    BY <1>4 DEF IInv, vars, shared, setting, TypeOK, SequenceInv, LoopDue, CheckDue,
       PauseInv, CallInv, NoShareForgotten, Joins, Stopping, LoopCalls, CheckCalls,
       CheckWrites
  <2>2. ASSUME NEW t \in Threads PROVE ThreadInv(t)'
    BY <1>4 DEF IInv, vars, shared, setting, ThreadInv, NumberInv, JobInv, AwakeInv,
       StopInv, BlobInv, Unpublished, PauseDue, Joins, Stopping, HasWoken, HasNoNumber,
       Settled
  <2> QED BY <2>1, <2>2 DEF IInv
<1> QED BY <1>1, <1>2, <1>3, <1>4 DEF Next
-----------------------------------------------------------------------------
\* The inductive invariant holds in every reachable state.
THEOREM Invariant == Spec => []IInv
BY InitIInv, NextIInv, PTL DEF Spec

\* Type correctness: m_sequence, m_queue and the records of the threads keep
\* their types whatever the loop thread publishes and the threads read.
THEOREM TypeCorrect == Spec => []TypeOK
<1>1. IInv => TypeOK
  BY DEF IInv
<1> QED BY <1>1, Invariant, PTL

\* Outside overlapping calls of the loop thread and of Check(), and again after the
\* next call that is alone, m_paused says what m_active and m_enabled say.
THEOREM PausedIffIdleHolds == Spec => []PausedIffIdle
<1>1. IInv => PausedIffIdle
  <2> SUFFICES ASSUME IInv, BetweenCalls, ~raced PROVE paused = ~(active /\ enabled)
    BY DEF PausedIffIdle
  <2>1. (paused <=> ~(active /\ enabled)) /\ paused \in BOOLEAN
    BY DEF IInv, PauseInv, TypeOK, BetweenCalls, LoopCalls, Stopping
  <2> QED BY <2>1, Zenon
<1> QED BY <1>1, Invariant, PTL

\* Any number of threads, any interleaving of setJob() and of both setEnabled()
\* with consumeJob(): a thread that holds the current sequence number hashes the
\* current job, except one that read m_job before and m_sequence after a publication.
THEOREM MinesCurrentJobHolds == Spec => []MinesCurrentJob
<1>1. IInv => MinesCurrentJob
  <2> SUFFICES ASSUME IInv, NEW t \in Threads, BetweenCalls, enabled, Settled(t),
                      "job" \notin overlap[t]
               PROVE  worker[t].job = job
    BY DEF MinesCurrentJob
  <2>1. worker[t].job = job \/ Unpublished
    BY DEF IInv, ThreadInv, JobInv, Settled
  <2>2. setter["loop"].pc = "none" /\ setter["check"].pc = "none"
    BY DEF IInv, SequenceInv, BetweenCalls, CheckCalls
  <2>3. ~Unpublished
    BY <2>2 DEF Unpublished, BetweenCalls, Stopping, Setters
  <2> QED BY <2>1, <2>3
<1> QED BY <1>1, Invariant, PTL

\* pause() and setEnabled(false), by whichever thread and beside whatever call of the
\* other one, end the hashing of every thread, except one that was between the end of
\* its sleep loop and its read of m_sequence.
THEOREM PauseStopsHashingHolds == Spec => []PauseStopsHashing
<1>1. IInv => PauseStopsHashing
  <2> SUFFICES ASSUME IInv, NEW t \in Threads, BetweenCalls, paused, Settled(t)
               PROVE  "pause" \in overlap[t]
    BY DEF PauseStopsHashing
  <2>1. "pause" \in overlap[t] \/ PauseDue
    BY DEF IInv, ThreadInv, AwakeInv, BetweenCalls, Joins
  <2>2. setter["loop"].pc = "none" /\ setter["check"].pc = "none"
    BY DEF IInv, SequenceInv, BetweenCalls, CheckCalls
  <2> QED BY <2>1, <2>2 DEF PauseDue, BetweenCalls, Setters
<1> QED BY <1>1, Invariant, PTL

\* stop(), when no call of Check() writes m_paused or m_sequence beside or after it,
\* leaves the sequence at 0 and ends the hashing of every thread, except one that
\* takes the cleared m_sequence for its own number.
THEOREM StopReachesThreadsHolds == Spec => []StopReachesThreads
<1>1. IInv => StopReachesThreads
  BY DEF IInv, SequenceInv, ThreadInv, StopInv, StopReachesThreads
<1> QED BY <1>1, Invariant, PTL

\* submit() and onResult() lose no share, although uv_async_send merges signals.
THEOREM NoShareForgottenHolds == Spec => []NoShareForgotten
<1>1. IInv => NoShareForgotten
  BY DEF IInv
<1> QED BY <1>1, Invariant, PTL

\* consumeJob(), save() and resume() leave a thread with another job's blob only
\* for the pool job that resume() restored.
THEOREM HashesOwnBlobHolds == Spec => []HashesOwnBlob
<1>1. IInv => HashesOwnBlob
  BY DEF IInv, ThreadInv, BlobInv, HashesOwnBlob
<1> QED BY <1>1, Invariant, PTL
=============================================================================
