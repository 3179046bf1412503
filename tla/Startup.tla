------------------------------ MODULE Startup ------------------------------
(***************************************************************************)
(* From the command line to the running threads, and back: the constructor *)
(* of class Options, App::App, App::start and App::~App, class Mem, and    *)
(* the nonces that MultiWorker::consumeJob hands to the threads.  Memory   *)
(* is counted in KiB.  Arguments are parsed one at a time; at the end of   *)
(* the arguments the constructor settles the rest.                         *)
(***************************************************************************)
EXTENDS Options, FiniteSets, Functions

CONSTANTS Args,         \* arguments, records with a name and a value
          Files,        \* what the default configuration file may hold
          Machines,     \* what Cpu::init may find
          CtxSize,      \* sizeof(cryptonight_ctx)
          MaskBits,     \* bits of Mem::ThreadBitSet
          NiceMax,      \* the largest nonce of a nicehash job, without its first byte
          FirstBytes,   \* values of the first byte of a nonce
          MaxArgs       \* bound: arguments on one command line

ASSUME StartupAssumption ==
    /\ {CtxSize, MaskBits, FirstBytes} \subseteq Nat \ {0} /\ NiceMax \in Nat /\ MaxArgs \in Nat
    /\ 2^MaskBits = 2 * (LongMax + 1)
    /\ Machines \subseteq [aes : BOOLEAN, l2 : Nat, l3 : Nat, l2exclusive : BOOLEAN,
                          threads : Nat \ {0}]
    /\ \A threads \in {1024} \cup {machine.threads : machine \in Machines} :
           NiceMax >= threads * MaxHashBlocks

(***************************************************************************)
(* What the arguments and the files hold: numbers of the type that getopt  *)
(* or the JSON library gives them, and names that Options knows.           *)
(***************************************************************************)
ASSUME InputsAssumption ==
    /\ \A file \in Files : IsFile(file)
    /\ \A arg \in Args :
           IF arg.name = "config" THEN IsFile(arg.value)
           ELSE arg.name \in Names /\ IsArgument(arg.name, arg.value)

VARIABLES phase,    \* how far the program has come
          cpu,      \* the machine
          o,        \* Options
          args,     \* history: the arguments and files that have been parsed
          given,    \* history: the options before they are completed
          mem       \* Mem: the size and the flags of the memory, whether it is
                    \* missing, and the frees

vars == <<phase, cpu, o, args, given, mem>>

NoMemory == [size |-> 0, available |-> FALSE, enabled |-> FALSE, locked |-> FALSE,
             missing |-> FALSE, frees |-> 0]

Threads == 0 .. o["threads"] - 1

-----------------------------------------------------------------------------
(* Mem *)

Bit(mask, i) == (mask \div 2^i) % 2 = 1

\* m_multiHashThreadMask.all(), the default.
All(mask) == \A i \in 0 .. MaskBits - 1 : Bit(mask, i)

\* bitset::test throws std::out_of_range; nobody catches it.
Throws(i) == ~All(o["multihash-thread-mask"]) /\ i >= MaskBits

getThreadHashFactor(i) ==
    IF All(o["multihash-thread-mask"]) \/ Bit(o["multihash-thread-mask"], i)
    THEN o["multihash-factor"] ELSE 1

\* What thread i needs, and what the first n threads need.
SizeOf(i) == CtxSize + BlockSize(o["algo"]) * getThreadHashFactor(i)

SumOfSizes(n) ==
    LET sum[k \in 0 .. n] == IF k = 0 THEN 0 ELSE sum[k - 1] + SizeOf(k - 1)
    IN  sum[n]

\* Mutant of create: every thread has the same number of lanes.
create_Uniform(i) ==
    LET offset == i * (CtxSize + BlockSize(o["algo"]) * o["multihash-factor"])
    IN  [ctx |-> offset, memory |-> offset + CtxSize]

\* Mem::create: where a thread's context and its scratchpads begin.
create(i) ==
    LET offset == SumOfSizes(i) IN [ctx |-> offset, memory |-> offset + CtxSize]

\* Mem::allocate.  Huge pages may be missing, and locking them may fail.  So
\* may the ordinary allocation: its null pointer is kept.
Allocated(size) ==
    [size : {size}, available : {o["huge-pages"]}, enabled : {FALSE}, locked : {FALSE},
     missing : BOOLEAN, frees : {0}]
    \cup [size : {size}, available : {o["huge-pages"]} \cap {TRUE}, enabled : {TRUE},
          locked : BOOLEAN, missing : {FALSE}, frees : {0}]

\* Mem::release
release(m) == [m EXCEPT !.frees = @ + 1]

-----------------------------------------------------------------------------
(* Nonces *)

\* What a job leaves to the threads: all nonces, or for nicehash those that
\* begin with the byte it came with.
NonceMax == FirstBytes * (NiceMax + 1) - 1

Jobs == [max : {NonceMax}, base : {0}]
        \cup [max : {NiceMax}, base : {p * (NiceMax + 1) : p \in 0 .. FirstBytes - 1}]

Width(max) == max \div (o["threads"] * o["multihash-factor"])

\* Mutant of FirstNonce: the lanes of a thread follow each other.
FirstNonce_ThreadByThread(job, id, i) ==
    job.base + Width(job.max) * (id * getThreadHashFactor(id) + i)

\* MultiWorker::consumeJob: the nonce before the first one of lane i.
FirstNonce(job, id, i) == job.base + Width(job.max) * (id + i * o["threads"])

\* The nonce of round r, in 32 bits.  No lane knows where its slice ends.
Nonce(job, lane, r) == (FirstNonce(job, lane[1], lane[2]) + r) % (NonceMax + 1)

Lanes == UNION {{<<id, i>> : i \in 0 .. getThreadHashFactor(id) - 1} : id \in Threads}

-----------------------------------------------------------------------------
Init ==
    /\ phase = "args"
    /\ cpu \in Machines
    /\ o \in {Defaults, [Defaults EXCEPT !["daemonized"] = TRUE]}
    /\ args = <<>>
    /\ given = Defaults
    /\ mem = NoMemory

\* One turn of the constructor's loop over the command line.
parse(arg) ==
    /\ phase = "args" /\ Len(args) < MaxArgs
    /\ LET r == parseArg(o, arg, cpu)
       IN  /\ o' = r.o
           /\ phase' = IF r.ok THEN "args" ELSE "failed"
    /\ args' = Append(args, arg)
    /\ UNCHANGED <<cpu, given, mem>>

\* An argument that is no option.
parse_NonOption ==
    /\ phase = "args"
    /\ phase' = "failed"
    /\ UNCHANGED <<cpu, o, args, given, mem>>

\* The end of the constructor, after the default file, if it is needed.
Finish(parsed) ==
    LET chosen == FromCpu(FromVariant(parsed), cpu)
    IN  CASE ~isValid(parsed["pools"][1]) /\ (parsed["cc-host"] = NoHost \/ parsed["cc-port"] = 0) ->
                 phase' = "failed" /\ o' = parsed /\ UNCHANGED given
          [] OTHER ->
                 /\ given' = chosen
                 /\ IF DividesByZero(chosen, cpu)
                    THEN phase' = "crashed" /\ o' = chosen
                    ELSE /\ phase' = "ready"
                         /\ o' = [optimizeParameters(chosen, cpu)
                                  EXCEPT !["pools"] = [i \in DOMAIN @ |-> applyExceptions(@[i])]]

construct ==
    /\ phase = "args"
    /\ IF ~o["daemonized"]
       THEN phase' = "failed" /\ UNCHANGED <<o, args, given>>
       ELSE IF isValid(o["pools"][1])
       THEN Finish(o) /\ UNCHANGED args
       ELSE \E file \in Files :
                /\ Finish(parseConfig(o, file, cpu))
                /\ args' = Append(args, [name |-> "config", value |-> file])
    /\ UNCHANGED <<cpu, mem>>

\* App::start ends when the self-test of module CryptoNight fails.
start_SelfTestFails ==
    /\ phase = "ready"
    /\ phase' = "failed"
    /\ UNCHANGED <<cpu, o, args, given, mem>>

\* App::start allocates the memory of all threads.
start_Allocate ==
    /\ phase = "ready"
    /\ IF \E i \in Threads : Throws(i)
       THEN phase' = "crashed" /\ UNCHANGED mem
       ELSE phase' = "allocated" /\ mem' \in Allocated(SumOfSizes(o["threads"]))
    /\ UNCHANGED <<cpu, o, args, given>>

\* Workers::start; every thread creates its worker (module Workers), and
\* Mem::create writes the first word of its context.
start_Run ==
    /\ phase = "allocated"
    /\ phase' = IF mem.missing THEN "crashed" ELSE "running"
    /\ UNCHANGED <<cpu, o, args, given, mem>>

\* The loop has stopped: App::start releases, and so does App::~App.
start_Ends ==
    /\ phase = "running"
    /\ phase' = "exited"
    /\ mem' = release(release(mem))
    /\ UNCHANGED <<cpu, o, args, given>>

\* App::~App after a start that failed.
destroy ==
    /\ phase = "failed"
    /\ phase' = "exited"
    /\ mem' = release(mem)
    /\ UNCHANGED <<cpu, o, args, given>>

Next ==
    \/ \E arg \in Args : parse(arg)
    \/ parse_NonOption \/ construct
    \/ start_SelfTestFails \/ start_Allocate \/ start_Run \/ start_Ends \/ destroy

Spec == Init /\ [][Next]_vars

-----------------------------------------------------------------------------
(* Properties *)

Settled == phase \in {"ready", "allocated", "running"}

(***************************************************************************)
(* The options are what their limits allow, whether a number came from the *)
(* command line or from a file whose refused values are only skipped, and  *)
(* whatever is left automatic has been chosen (Options.cpp parseArg,       *)
(* Cpu.cpp optimizeParameters).  The update interval of the CC client is   *)
(* any int: its number has no upper limit and is cut afterwards.           *)
(***************************************************************************)
TypeOK ==
    /\ phase \in {"args", "failed", "crashed", "ready", "allocated", "running", "exited"}
    /\ cpu \in Machines
    /\ \A name \in Numbers \ {"threads", "multihash-factor"} :
           \/ o[name] = Defaults[name]
           \/ name \in Masks /\ o[name] # 0 /\ o[name] \in -(LongMax + 1) .. LongMax
           \/ name = "cc-update-interval-s" /\ o[name] \in -(IntMax + 1) .. IntMax
           \/ /\ name \notin Masks \cup {"cc-update-interval-s"}
              /\ o[name] \in Limits[name].low .. Limits[name].high
    /\ Len(o["pools"]) > 0
    /\ Settled => o["threads"] > 0 /\ o["aesni"] \in {1, 2}

(***************************************************************************)
(* The scratchpads fit: in safe mode all of them fit into the cache, and   *)
(* otherwise only what was asked for explicitly may be more than fits.     *)
(* There are kernels for the number of hashes per thread, and automatic    *)
(* threads leave the share of the processor free that they were told to    *)
(* leave (Cpu.cpp optimizeParameters).                                     *)
(***************************************************************************)
FitsCache ==
    Settled =>
        LET most  == Reasonable(o, cpu)
            pads  == o["threads"] * o["multihash-factor"]
            asked == {given["threads"], given["multihash-factor"]}
        IN  /\ o["multihash-factor"] \in 1 .. MaxHashBlocks
            /\ given["safe"] => pads <= most /\ o["threads"] <= cpu.threads
            /\ 0 \in asked => pads <= Max(asked \cup {most})
            /\ given["threads"] = 0 =>
                   o["threads"] <= Max({1, (cpu.threads * o["max-cpu-usage"]) \div 100})

-----------------------------------------------------------------------------
(* Users and hosts *)

EntriesOf(file) == IF file.readable THEN {file.pools[k] : k \in 1 .. Len(file.pools)} ELSE {}

GivesText(entry, name) == name \in DOMAIN entry /\ entry[name].type = "text"

NamesUser(entry, user) == GivesText(entry, "user") /\ entry["user"].value = user

UsesUrl(entry) == GivesText(entry, "url") /\ isValid(parseUrl(NewUrl, entry["url"].value))

\* A url with a port that is 0 in 16 bits.
ZeroPort(text) == text.port # NoPort /\ uint16(strtol(text.port)) = 0

GivesZeroPort(arg) ==
    /\ arg.name = "config"
    /\ \E entry \in EntriesOf(arg.value) :
           GivesText(entry, "url") /\ ZeroPort(entry["url"].value)

AllEntries ==
    UNION {EntriesOf(file) : file \in Files \cup {arg.value : arg \in {a \in Args : a.name = "config"}}}

(***************************************************************************)
(* A user tells where it was given: what names the user of an entry that   *)
(* has a url of its own is an entry with the same host.                    *)
(***************************************************************************)
ASSUME UsersAssumption ==
    \A entry \in {e \in AllEntries : UsesUrl(e) /\ GivesText(e, "user")} :
        LET user == entry["user"].value
        IN  /\ user # NoText
            /\ \A arg \in Args :
                   /\ arg.name = "user" => arg.value # user
                   /\ arg.name = "userpass" => arg.value.user # user
            /\ \A other \in AllEntries :
                   /\ NamesUser(other, user) =>
                          UsesUrl(other) /\ other["url"].value.host = entry["url"].value.host
                   /\ GivesText(other, "userpass") => other["userpass"].value.user # user

Entries == UNION {EntriesOf(args[i].value) : i \in {j \in DOMAIN args : args[j].name = "config"}}

(***************************************************************************)
(* A pool logs in with the user of its own entry: the entries of a file    *)
(* are settings of "the last pool", and a pool never gets the user of an   *)
(* entry that made a pool of its own for another host (Options.cpp         *)
(* parseConfig, pool_options).  The user of an entry whose url is refused  *)
(* does go to the pool before it.                                          *)
(*                                                                         *)
(* It is promised only as long as no entry has the port 0 (65536, in 16    *)
(* bits): such a url is not valid but leaves its port in the first pool,   *)
(* where it stays when an entry without a port is parsed into it, and the  *)
(* next url then replaces the host of that entry but not its user.  On the *)
(* command line such a url ends the program.                               *)
(***************************************************************************)
OwnUser ==
    (\A i \in DOMAIN args : ~GivesZeroPort(args[i])) =>
        \A pool \in Range(o["pools"]) : \A entry \in Entries :
            NamesUser(entry, pool.user) /\ UsesUrl(entry) => entry["url"].value.host = pool.host

(***************************************************************************)
(* Threads do not share work or memory.  Every thread has its context and  *)
(* as many scratchpads as it hashes at once, in memory of its own inside   *)
(* what was allocated, although the mask gives threads different numbers   *)
(* of them (Mem::create, Mem::allocate, Workers::onReady).                 *)
(* And while no lane has hashed more rounds of a job than its slice has    *)
(* nonces, none is tried twice: no lane comes to a nonce of another, none  *)
(* wraps around, and none changes the byte that a nicehash job came with.  *)
(* Nothing stops a lane there: one round later it is at the first nonce of *)
(* the next slice (MultiWorker::consumeJob, start).                        *)
(***************************************************************************)
ThreadsDisjoint ==
    phase = "running" =>
        /\ \A i \in Threads :
               LET end == create(i).memory + BlockSize(o["algo"]) * getThreadHashFactor(i)
               IN  /\ create(i).memory >= create(i).ctx + CtxSize
                   /\ end <= IF i + 1 \in Threads THEN create(i + 1).ctx ELSE mem.size
        /\ \A job \in Jobs :
               LET lanes       == Lanes
                   slice       == Width(job.max)
                   first(lane) == Nonce(job, lane, 1)
                   last(lane)  == Nonce(job, lane, slice)
               IN  \A a \in lanes :
                       /\ last(a) = first(a) + (slice - 1)
                       /\ job.base <= first(a) /\ last(a) <= job.base + job.max
                       /\ \A b \in lanes \ {a} : last(a) < first(b) \/ last(b) < first(a)

=============================================================================
