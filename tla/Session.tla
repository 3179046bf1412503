------------------------------- MODULE Session -------------------------------
(***************************************************************************)
(* What passes over the connection of one client: its requests, numbered   *)
(* by one static counter that all clients share, the answers, cut into     *)
(* lines by onRead, the shares that wait for an answer (m_results), and    *)
(* the statistics of class NetworkState.  Of the states of a connection    *)
(* (module Client) only connected, closing and unconnected matter here.    *)
(* The client is the one of a SinglePoolStrategy.                          *)
(*                                                                         *)
(* A line has two tokens, its text and its newline, so that a read can end *)
(* inside a line.  What a line says is chosen when it is parsed, among the *)
(* answers to what its pool has been asked: the pool may have written it   *)
(* at any time since.                                                      *)
(***************************************************************************)
EXTENDS Job, FiniteSets, Sequences, FiniteSetsExt, Functions

CONSTANTS Params,       \* the jobs that pools send, as they send them
          Diffs,        \* actual difficulties a share may have
          BufSize,      \* sizeof(m_buf), in tokens
          Slack,        \* the 8 bytes onRead keeps free, in tokens
          TopSize,      \* entries of topDiff
          MaxSequence,  \* bound: requests of all clients
          MaxShares,    \* bound: shares found
          MaxRead       \* bound: tokens that arrive in one read

ASSUME SessionAssumption ==
    /\ Diffs \subseteq Nat \ {0}
    /\ BufSize \in Nat /\ Slack \in 1 .. BufSize
    /\ TopSize \in Nat \ {0}
    /\ {MaxSequence, MaxShares, MaxRead} \subseteq Nat

\* Lengths are lengths, and 8 or 16 hex digits are a number of 32 or 64 bits.
ASSUME ParamsAssumption ==
    \A p \in {p \in Params : p.object} :
        /\ {p.blob.len, p.target.len} \subseteq Nat
        /\ p.target.hex /\ p.target.len = 8 => p.target.value \in 0 .. HalfMax
        /\ p.target.hex /\ p.target.len = 16 => p.target.value \in 0 .. WordMax

VARIABLES sequence,     \* m_sequence, static
          conn,         \* "down", "up" or "closing"
          results,      \* m_results, a function from ids to shares
          job,          \* m_job
          buf,          \* the tokens of m_buf
          pos,          \* m_recvBufPos
          reading,      \* onRead: the client, its read and the lines left to parse
          state,        \* NetworkState
          asked,        \* requests the pool has read
          torn,         \* what the pool has read last is the beginning of a request
          spoilt,       \* requests that the pool got in part, or joined to such a part
          midline,      \* the next token on the wire is a newline
          shares,       \* history: the shares submitted
          verdicts,     \* history: the answers a pool sent, [share, ok]
          counted       \* history: the answers the statistics have seen

wire     == <<asked, torn, spoilt>>
poolVars == <<wire, midline>>
vars == <<sequence, conn, results, job, buf, pos, reading, state, poolVars,
          shares, verdicts, counted>>

NoJobYet == Refused(-1)
NoShare  == [no |-> 0, diff |-> 0, actual |-> 0]
NoRead   == [tokens |-> <<>>, lines |-> <<>>, left |-> <<>>, inside |-> 0, clean |-> TRUE]

Init ==
    /\ sequence = 1
    /\ conn = "down"
    /\ results = <<>>
    /\ job = NoJobYet
    /\ buf = [i \in 0 .. BufSize - 1 |-> "blank"]
    /\ pos = 0
    /\ reading = NoRead
    /\ state = [accepted |-> 0, rejected |-> 0, total |-> 0, failures |-> 0,
                topDiff |-> [i \in 1 .. TopSize |-> 0], active |-> FALSE, latency |-> 0]
    /\ asked = {} /\ torn = FALSE /\ spoilt = {}
    /\ midline = FALSE
    /\ shares = {}
    /\ verdicts = {}
    /\ counted = <<>>

\* The loop thread is in no callback.
Idle == reading = NoRead

-----------------------------------------------------------------------------
(* Requests *)

\* close(), and the pool sees the connection end.
close == conn' = IF conn = "up" THEN "closing" ELSE conn

\* uv_try_write: the pool gets the whole request, unless its beginning is behind a
\* part of another one, or it gets a part, which the client takes for success.
Whole(request) ==
    /\ torn' = FALSE
    /\ IF torn THEN spoilt' = spoilt \cup {request} /\ UNCHANGED asked
               ELSE asked' = asked \cup {request} /\ UNCHANGED spoilt

Part(request) ==
    /\ torn' = TRUE
    /\ spoilt' = spoilt \cup {request}
    /\ UNCHANGED asked

\* send(): a write that succeeds takes a number, one that fails closes the
\* connection, and without a connection nothing happens.
send(request) ==
    \/ /\ conn = "up"
       /\ sequence < MaxSequence
       /\ sequence' = sequence + 1
       /\ Whole(request) \/ Part(request)
       /\ UNCHANGED conn
    \/ /\ conn = "up"
       /\ close
       /\ UNCHANGED <<sequence, wire>>
    \/ /\ conn # "up"
       /\ UNCHANGED <<sequence, conn, wire>>

Numbered(share) == [id |-> sequence, share |-> share]

\* A new connection, and what of the login is on it.
Login == [id |-> 1, share |-> NoShare]

Connect(open, whole, part) ==
    /\ conn' = open
    /\ asked' = whole /\ spoilt' = part /\ torn' = (part # {})
    /\ midline' = FALSE

LoginSent ==
    \/ /\ sequence < MaxSequence
       /\ sequence' = sequence + 1
       /\ Connect("up", {Login}, {}) \/ Connect("up", {}, {Login})
    \/ /\ UNCHANGED sequence
       /\ Connect("closing", {}, {})

\* Mutant of login: the waiting shares are not forgotten.
login_KeepsResults ==
    /\ Idle /\ conn = "down"
    /\ pos' = 0
    /\ LoginSent
    /\ UNCHANGED <<results, job, buf, reading, state, shares, verdicts, counted>>

\* onConnect and login(): the request has the number 1, whatever the counter
\* says, and the counter moves on all the same.  resolve() emptied the buffer.
\* A write that fails closes the connection at once.
login ==
    /\ Idle /\ conn = "down"
    /\ pos' = 0
    /\ results' = <<>>
    /\ LoginSent
    /\ UNCHANGED <<job, buf, reading, state, shares, verdicts, counted>>

\* submit(): the share is stored under the next number before it is sent, and
\* stays there when it is not.  A worker has a share when its pool gave a job.
submit(actual) ==
    LET share == [no |-> Cardinality(shares) + 1, diff |-> job.diff, actual |-> actual]
    IN  /\ Idle /\ job # NoJobYet
        /\ Cardinality(shares) < MaxShares
        /\ shares' = shares \cup {share}
        /\ results' = [id \in DOMAIN results \cup {sequence} |->
                           IF id = sequence THEN share ELSE results[id]]
        /\ send(Numbered(share))
        /\ UNCHANGED <<job, buf, pos, reading, state, midline, verdicts, counted>>

\* The keepalive timer.
ping ==
    /\ Idle /\ conn = "up"
    /\ send(Numbered(NoShare))
    /\ UNCHANGED <<results, job, buf, pos, reading, state, midline, shares, verdicts, counted>>

\* Another client (the donation's, or another pool's) sends a request.
OtherSends ==
    /\ Idle /\ sequence < MaxSequence
    /\ sequence' = sequence + 1
    /\ UNCHANGED <<conn, results, job, buf, pos, reading, state, poolVars,
                   shares, verdicts, counted>>

\* The pool closes the connection, a read fails, or the response timeout does it.
Lost ==
    /\ Idle /\ conn = "up"
    /\ close
    /\ UNCHANGED <<sequence, results, job, buf, pos, reading, state, poolVars,
                   shares, verdicts, counted>>

\* The callback of uv_close: nothing is on the wire any more.  If the strategy of
\* the pools was active, it pauses, and Network::onPause calls NetworkState::stop.
onClose ==
    /\ Idle /\ conn = "closing"
    /\ conn' = "down"
    /\ state' = IF state.active
                THEN [state EXCEPT !.active = FALSE, !.failures = @ + 1, !.latency = 0]
                ELSE state
    /\ asked' = {} /\ spoilt' = {} /\ torn' = FALSE /\ midline' = FALSE
    /\ UNCHANGED <<sequence, results, job, buf, pos, reading, shares, verdicts, counted>>

-----------------------------------------------------------------------------
(* The pool *)

Done     == [object |-> TRUE, rpcFits |-> TRUE]     \* {"status":"OK"}
NoObject == [object |-> FALSE, rpcFits |-> TRUE]

Message(request, error, result) == [request |-> request, error |-> error, result |-> result]

NoRequest == [id |-> 0, share |-> NoShare]

\* What a line may say: a job (it has no id), or an answer to a request, in any
\* order and perhaps twice.  An error may be one the client takes for critical.
Messages ==
    {Message(NoRequest, "none", p) : p \in Params}
    \cup {Message(q, e, NoObject) : q \in asked, e \in {"none", "error", "critical"}}
    \cup {Message(q, "none", Done) : q \in {q \in asked : q.id # 1}}
    \cup {Message(q, "none", p) : q \in {q \in asked : q.id = 1}, p \in Params}

-----------------------------------------------------------------------------
(* Lines.  onRead works on the place in m_buf that onAllocBuffer gave to   *)
(* this read (base, the old m_recvBufPos), but with the length of all that *)
(* is in m_buf, so that it may search behind m_buf: m_ip, m_rpcId, then    *)
(* m_sendBuf, where the last request ends with a newline, and what follows.*)
(* Which of these cells are newlines is chosen for every read.             *)

At(b, i) == IF i < BufSize THEN b[i] ELSE "blank"

\* n tokens of a stream of lines.
Stream(mid, n) == [i \in 1 .. n |-> IF (i % 2 = 0) = mid THEN "text" ELSE "newline"]

\* The bytes that uv_read put into the buffer.
Filled(b, base, tokens) ==
    [i \in DOMAIN b |-> IF i \in base .. base + Len(tokens) - 1 THEN tokens[i - base + 1] ELSE b[i]]

\* Mutant of Ends: the last byte is not searched.
Ends_Short(b, base, newPos) == {i \in base .. base + newPos - 2 : At(b, i) = "newline"}

\* Where memchr finds newlines in m_buf.  The end of what is searched stays the
\* same,
Ends(b, base, newPos) == {i \in base .. base + newPos - 1 : At(b, i) = "newline"}

\* and may lie behind m_buf.
Behind(base, newPos) == BufSize .. base + newPos - 1

\* The first byte behind the last of these newlines.
After(base, E) == IF E = {} THEN base ELSE Max(E) + 1

\* The newlines in the order in which the loop finds them.
InOrder(E) ==
    CHOOSE ends \in Bijection(1 .. Cardinality(E), E) :
        \A i, j \in 1 .. Cardinality(E) : i < j => ends[i] < ends[j]

\* The lines that the loop hands to parse(): from the end of the last to the
\* next newline.
LinesOf(b, base, E) ==
    LET ends    == InOrder(E)
        From(k) == IF k = 1 THEN base ELSE ends[k - 1] + 1
    IN  [k \in 1 .. Cardinality(E) |->
            [i \in 1 .. ends[k] + 1 - From(k) |-> At(b, From(k) + i - 1)]]

\* parse() works in place and leaves no newline behind.
Consumed(b, base, start) == [i \in DOMAIN b |-> IF i \in base .. start - 1 THEN "blank" ELSE b[i]]

\* memcpy(buf->base, start, remaining)
Moved(b, base, start, remaining) ==
    [i \in DOMAIN b |-> IF i \in base .. base + remaining - 1 THEN At(b, start + i - base) ELSE b[i]]

\* After the loop: an empty rest resets the position, a rest that is all there
\* was stays, and any other moves to the place of this read.
Rest(b, base, start, remaining) ==
    IF remaining = 0 THEN [buf |-> b, pos |-> 0]
    ELSE IF start = base THEN [buf |-> b, pos |-> remaining]
    ELSE [buf |-> Moved(b, base, start, remaining), pos |-> remaining]

\* A text that is kept is no longer what a read brought.
Old(b) == [i \in DOMAIN b |-> IF b[i] = "text" THEN "stale" ELSE b[i]]

TooLong(n) == n > BufSize - Slack - pos

Arrives(n) == midline' = ((n % 2 = 0) = midline)

\* A read of n tokens that onAllocBuffer had room for and onRead has not.
onRead_TooLong(n) ==
    /\ Idle /\ conn = "up"
    /\ n <= BufSize - pos
    /\ TooLong(n)
    /\ Arrives(n)
    /\ buf' = Old(Filled(buf, pos, Stream(midline, n)))
    /\ close
    /\ UNCHANGED <<sequence, results, job, pos, reading, state, wire,
                   shares, verdicts, counted>>

\* A read of n tokens: the lines in it, those that end behind m_buf, and what is
\* kept for the next read.
onRead(n) ==
    LET tokens == Stream(midline, n)
        base   == pos
        newPos == base + n
        filled == Filled(buf, base, tokens)
        E      == Ends(filled, base, newPos)
        tail   == After(base, E)
    IN  /\ Idle /\ conn = "up"
        /\ ~TooLong(n)
        /\ Arrives(n)
        /\ \E behind \in SUBSET Behind(base, newPos) :
              LET start == After(tail, behind)
                  lines == LinesOf(filled, base, E) \o LinesOf(filled, tail, behind)
                  rest  == Rest(Consumed(filled, base, start), base, start, base + newPos - start)
              IN  /\ buf' = Old(rest.buf)
                  /\ pos' = rest.pos
                  /\ reading' = [tokens |-> tokens, lines |-> lines, left |-> lines,
                                 inside |-> Cardinality(E),
                                 clean |-> base = 0 \/ "newline" \notin Range(buf)]
        /\ UNCHANGED <<sequence, conn, results, job, state, wire, shares, verdicts, counted>>

-----------------------------------------------------------------------------
(* What a line does *)

\* std::sort over rbegin .. rend: the best comes first.
Sorted(top) ==
    LET order == CHOOSE p \in Bijection(1 .. TopSize, 1 .. TopSize) :
                     \A i, j \in 1 .. TopSize : i < j => top[p[i]] >= top[p[j]]
    IN  [k \in 1 .. TopSize |-> top[order[k]]]

\* NetworkState::add: a share better than the last of topDiff takes its place,
\* and the list is sorted again.
AddTop(top, actual) ==
    IF actual > top[TopSize] THEN Sorted([top EXCEPT ![TopSize] = actual]) ELSE top

add(s, share, ok) ==
    IF ~ok THEN [s EXCEPT !.rejected = @ + 1]
    ELSE [s EXCEPT !.accepted = @ + 1, !.total = @ + share.diff,
                   !.topDiff = AddTop(@, share.actual), !.latency = @ + 1]

\* Mutant of Settle: an answered share stays in the table.
Settle_Kept(id, ok) ==
    IF id \in DOMAIN results
    THEN /\ state' = add(state, results[id], ok)
         /\ counted' = Append(counted, [share |-> results[id], ok |-> ok])
         /\ UNCHANGED results
    ELSE UNCHANGED <<state, counted, results>>

\* onResultAccepted for the share that waits under this id, if there is one.
Settle(id, ok) ==
    IF id \in DOMAIN results
    THEN /\ state' = add(state, results[id], ok)
         /\ counted' = Append(counted, [share |-> results[id], ok |-> ok])
         /\ results' = Restrict(results, DOMAIN results \ {id})
    ELSE UNCHANGED <<state, counted, results>>

\* parseJob: a job that is refused changes nothing, the job it already has
\* closes the connection.
parseJob(made) ==
    CASE made.code # 0           -> UNCHANGED <<job, conn>>
      [] SameJob(made, job)   -> close /\ UNCHANGED job
      [] OTHER                   -> job' = made /\ UNCHANGED conn

Takes(made) == made.code = 0 /\ ~SameJob(made, job)

\* parseNotification
Notification(m) ==
    /\ \E made \in parseParams(m.result, FALSE) : parseJob(made)
    /\ UNCHANGED <<state, counted, results>>

\* parseResponse with an error
Error(m) ==
    /\ Settle(m.request.id, FALSE)
    /\ IF m.request.id = 1 \/ m.error = "critical" THEN close ELSE UNCHANGED conn
    /\ UNCHANGED job

\* parseLogin, then onLoginSuccess: NetworkState::setPool for a pool.
LoginAnswer(m) ==
    \E made \in IF m.result.rpcFits THEN parseParams(m.result, FALSE) ELSE {Refused(1)} :
        /\ IF Takes(made)
           THEN /\ job' = made
                /\ state' = [state EXCEPT !.active = TRUE]
                /\ UNCHANGED conn
           ELSE close /\ UNCHANGED <<job, state>>
        /\ UNCHANGED <<counted, results>>

\* parseResponse without an error: an answer without an object is ignored.
Response(m) ==
    IF ~m.result.object THEN UNCHANGED <<state, counted, results, job, conn>>
    ELSE IF m.request.id = 1 THEN LoginAnswer(m)
    ELSE Settle(m.request.id, TRUE) /\ UNCHANGED <<job, conn>>

\* The pool has decided about a share.
Decides(m) == m.request.share # NoShare /\ (m.error # "none" \/ m.result.object)

\* A line that is a text and its newline; anything else is cut.  But a text whose
\* newline has not come, in a line that ends behind m_buf, is a message if the
\* byte after it is a zero, which parse() leaves where a newline was.
HasText(line)      == Len(line) >= 2 /\ line[1] \in {"text", "stale"}
IsMessage(line)    == HasText(line) /\ Len(line) = 2 /\ line[2] = "newline"
MayBeMessage(line) == IsMessage(line) \/ (HasText(line) /\ line[2] = "blank")

\* parse() of the next line of the read.
parse(m) ==
    /\ reading.left # <<>>
    /\ MayBeMessage(Head(reading.left))
    /\ CASE m.request.id = 0 -> Notification(m)
             [] m.request.id # 0 /\ m.error # "none" -> Error(m)
             [] OTHER -> Response(m)
    /\ verdicts' = IF Decides(m) THEN verdicts \cup {[share |-> m.request.share, ok |-> m.error = "none"]}
                                     ELSE verdicts
    /\ reading' = [reading EXCEPT !.left = Tail(@)]
    /\ UNCHANGED <<sequence, buf, pos, poolVars, shares>>

\* What is no JSON is dropped.
parse_Fails ==
    /\ reading.left # <<>>
    /\ ~IsMessage(Head(reading.left))
    /\ reading' = [reading EXCEPT !.left = Tail(@)]
    /\ UNCHANGED <<sequence, conn, results, job, buf, pos, state, poolVars,
                   shares, verdicts, counted>>

ReadDone ==
    /\ ~Idle /\ reading.left = <<>>
    /\ reading' = NoRead
    /\ UNCHANGED <<sequence, conn, results, job, buf, pos, state, poolVars,
                   shares, verdicts, counted>>

Next ==
    \/ login \/ ping \/ Lost \/ onClose \/ OtherSends
    \/ \E a \in Diffs : submit(a)
    \/ \E n \in 1 .. MaxRead : onRead(n) \/ onRead_TooLong(n)
    \/ \E m \in Messages : parse(m)
    \/ parse_Fails \/ ReadDone

Spec == Init /\ [][Next]_vars

-----------------------------------------------------------------------------
(* What the session promises *)

\* How many lines of a read are whole: text and newline are both in it.
WholeLines(tokens) ==
    Cardinality({i \in 1 .. Len(tokens) - 1 : tokens[i] = "text" /\ tokens[i + 1] = "newline"})

\* A line that arrives in one read is parsed, once, whatever was cut before it;
\* and a line that is cut never reaches the parser, not even later: onRead
\* starts at the new bytes but searches the length of all of them, and the
\* bytes in front are never looked at again.  Except the one text in front of
\* the first newline that is found behind m_buf, if the search goes so far; and
\* except after a read that was too long, whose newlines stay in m_buf: a later
\* line that is cut may end at one.  And whatever is kept, the position stays
\* inside the part that onRead fills.
WholeLinesParsed ==
    /\ reading.clean =>
           /\ Cardinality({k \in DOMAIN reading.lines : reading.lines[k] = <<"text", "newline">>})
                 = WholeLines(reading.tokens)
           /\ \A k \in DOMAIN reading.lines :
                 MayBeMessage(reading.lines[k]) =>
                     reading.lines[k] = <<"text", "newline">> \/ k = reading.inside + 1
    /\ pos \in 0 .. BufSize - Slack

\* A share that waits on an open connection was sent over it under its number,
\* although submit() stores it first: neither a failed send nor another client
\* that takes the number leaves one behind.  It reached the pool, unless uv_try_write
\* wrote only a part of its request or of the one before it: the answer to such a
\* share cannot come, and it waits until the next login.  And its number is not the
\* one of a login: its error would be taken for the login's and close the connection.
WaitingWasSent ==
    /\ conn = "up" =>
           \A id \in DOMAIN results : [id |-> id, share |-> results[id]] \in asked \cup spoilt
    /\ 1 \notin DOMAIN results

\* The shares that were counted as accepted, by their place in the history.
Accepted == {i \in DOMAIN counted : counted[i].ok}

\* The statistics have seen what a pool decided, and each share at most once.
CountedOnce ==
    /\ \A i \in DOMAIN counted : counted[i] \in verdicts
    /\ \A i, j \in DOMAIN counted : i # j => counted[i].share # counted[j].share

\* topDiff[k] is the k-th best of the accepted shares: fewer than k are better
\* and, unless it is still 0, at least k are as good.
BestFirst ==
    \A k \in 1 .. TopSize :
        LET best == state.topDiff[k]
        IN  /\ Cardinality({i \in Accepted : counted[i].share.actual > best}) < k
            /\ best # 0 => Cardinality({i \in Accepted : counted[i].share.actual >= best}) >= k

\* The statistics count a share at most once and as its pool decided, also
\* when an answer comes twice, late, or for another client's request; and topDiff
\* is the list of the best shares so counted, best first.
CountedAsDecided == CountedOnce /\ BestFirst

\* A job that a client keeps fits its buffer with room for a zero, it is one
\* that a pool sent, and its difficulty is the one that a 32-bit target stands
\* for: scaling it to 64 bits and back loses nothing.
JobSound ==
    job # NoJobYet =>
        /\ job.size >= MinBlob /\ job.size < BlobSize
        /\ job.target # 0
        /\ \E p \in Params :
              /\ p.object /\ p.id.name = job.id /\ p.blob.data = job.blob
              /\ p.target.len = 8 => job.diff = HalfMax \div p.target.value

=============================================================================
