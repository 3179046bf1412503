------------------------------ MODULE Options ------------------------------
(***************************************************************************)
(* The options of the miner and what follows from them before it starts:   *)
(* src/src/Options.cpp, net/Url.cpp and Cpu.cpp.  The module has no        *)
(* variables.  The options are a function from option names to values      *)
(* (a name is the one of the command line); parsing returns the options    *)
(* and whether the argument was accepted.                                  *)
(*                                                                         *)
(* The build is the miner's with CC support (not XMRIG_CC_SERVER).         *)
(***************************************************************************)
EXTENDS Integers, Sequences, SequencesExt, FiniteSetsExt

NoText == ""

CONSTANTS MaxHashBlocks,    \* MAX_NUM_HASH_BLOCKS
          IntMax,           \* the largest int
          LongMax,          \* the largest 64-bit integer that has a sign
          Strings,          \* the texts
          NoHost,           \* the null pointer of a host
          NoPort            \* a text that has no colon

ASSUME OptionsAssumption ==
    /\ MaxHashBlocks \in Nat /\ MaxHashBlocks >= 2      \* av knows single and double hashes
    /\ IntMax \in Nat /\ IntMax >= 65536 /\ IntMax >= MaxHashBlocks
    /\ LongMax \in Nat /\ LongMax >= IntMax

ASSUME StringsAssumption ==
    /\ NoText \in Strings /\ "cryptonight" \in Strings /\ "cryptonight-lite" \in Strings
    /\ NoHost \notin Strings /\ NoPort \notin Int

-----------------------------------------------------------------------------
(* Numbers *)

ULongMax == 2 * LongMax + 1

\* n in the bits of an integer that has a sign and whose largest value is max.
Signed(n, max) == ((n + (max + 1)) % (2 * (max + 1))) - (max + 1)

int(n)    == Signed(n, IntMax)
uint64(n) == n % (2 * (LongMax + 1))
uint16(n) == n % 65536

\* The C library's answers to a text that is too large a number.
strtol(n)   == IF n > LongMax THEN LongMax ELSE IF n < -(LongMax + 1) THEN -(LongMax + 1) ELSE n
strtoull(n) == IF n > ULongMax \/ n < -ULongMax THEN ULongMax ELSE uint64(n)

-----------------------------------------------------------------------------
(* Url *)

kDefaultPort   == 3333
kDefaultCCPort == 3344

NewUrl == [host |-> NoHost, port |-> kDefaultPort, user |-> NoText, pass |-> NoText,
           keepAlive |-> FALSE, nicehash |-> FALSE]

isValid(url) == url.host # NoHost /\ url.port > 0

\* Url::parse of a text that has a scheme, a host and perhaps a port.  A text
\* it cannot use leaves the url as it is; one that begins with a slash is like
\* one with another scheme.  Before a colon the host may be empty.
parseUrl(url, text) ==
    IF text.scheme \notin {NoText, "stratum+tcp"} \/ (text.host = NoText /\ text.port = NoPort)
    THEN url
    ELSE IF text.port = NoPort THEN [url EXCEPT !.host = text.host]
    ELSE [url EXCEPT !.host = text.host, !.port = uint16(strtol(text.port))]

\* Hosts of two pools get settings of their own.
applyExceptions(url) ==
    CASE ~isValid(url)              -> url
      [] url.host = "nicehash.com"  -> [url EXCEPT !.keepAlive = FALSE, !.nicehash = TRUE]
      [] url.host = "minergate.com" -> [url EXCEPT !.keepAlive = FALSE]
      [] OTHER                      -> url

-----------------------------------------------------------------------------
(* The constructor's initial values *)

Texts == {"log-file", "api-access-token", "api-worker-id", "cc-access-token",
          "cc-worker-id", "cc-user", "cc-pass", "cc-client-config-folder",
          "cc-custom-dashboard", "user-agent"}

Flags == {"background", "colors", "huge-pages", "safe", "syslog", "daemonized"}

NoLimit == ULongMax

\* The options that are masks, stored as int64_t; the others are an int.
Masks == {"cpu-affinity", "multihash-thread-mask"}

(***************************************************************************)
(* The options that take a number: what parseArg(int, uint64_t) accepts,   *)
(* and whether it refuses the command line (strict) or ignores the number  *)
(* otherwise.                                                              *)
(***************************************************************************)
Limit(low, high, strict) == [low |-> low, high |-> high, strict |-> strict]

Limits == [name \in {"retries", "retry-pause", "threads", "av", "aesni", "multihash-factor",
                     "donate-level", "max-cpu-usage", "print-time", "cpu-affinity",
                     "cpu-priority", "api-port", "cc-port", "cc-update-interval-s",
                     "multihash-thread-mask"} |->
    CASE name = "retries"          -> Limit(1, 1000, TRUE)
      [] name = "retry-pause"      -> Limit(1, 3600, TRUE)
      [] name = "threads"          -> Limit(1, 1024, TRUE)
      [] name = "av"               -> Limit(0, 1000, TRUE)
      [] name = "aesni"            -> Limit(0, 2, TRUE)
      [] name = "multihash-factor" -> Limit(0, MaxHashBlocks, TRUE)
      [] name = "donate-level"     -> Limit(1, 99, FALSE)
      [] name = "max-cpu-usage"    -> Limit(1, 100, TRUE)
      [] name = "print-time"       -> Limit(0, 1000, TRUE)
      [] name = "cpu-affinity"     -> Limit(1, NoLimit, FALSE)
      [] name = "cpu-priority"     -> Limit(0, 5, FALSE)
      [] name \in {"api-port", "cc-port"} -> Limit(0, 65536, FALSE)
      [] name = "cc-update-interval-s"    -> Limit(1, NoLimit, TRUE)
      [] name = "multihash-thread-mask"   -> Limit(1, NoLimit, FALSE)]

Numbers == DOMAIN Limits

OptionNames == Numbers \cup Texts \cup Flags \cup {"algo", "cc-host", "pools"}

Defaults ==
    [name \in OptionNames |->
        CASE name \in {"retries", "retry-pause"} -> 5
          [] name = "max-cpu-usage" -> 75
          [] name = "print-time" -> 60
          [] name = "cc-update-interval-s" -> 10
          [] name = "cpu-priority" -> -1
          [] name \in Masks -> -1
          [] name \in Texts -> NoText
          [] name \in Flags -> name \in {"colors", "huge-pages"}
          [] name = "algo" -> "cryptonight"
          [] name = "cc-host" -> NoHost
          [] name = "pools" -> <<NewUrl>>
          [] OTHER -> 0]

-----------------------------------------------------------------------------
(* One argument *)

Accept(o)      == [ok |-> TRUE, o |-> o]
Set(o, name, v) == Accept([o EXCEPT ![name] = v])
Refuse(o)      == [ok |-> FALSE, o |-> o]

Back(o) == Len(o["pools"])
SetBack(o, url) == Accept([o EXCEPT !["pools"][Back(o)] = url])

\* Mutant of parseNumber: upper limits are not tested.
parseNumber_NoMaximum(o, name, n) ==
    LET limit == Limits[name]
    IN  IF n < limit.low
        THEN (IF limit.strict THEN Refuse(o) ELSE Accept(o))
        ELSE Set(o, name, IF name \in Masks THEN Signed(n, LongMax) ELSE int(n))

\* parseArg(int, uint64_t): the limits are tested before the number is cut to
\* the bits of the option, which is only seen where there is no upper limit.
parseNumber(o, name, n) ==
    LET limit == Limits[name]
    IN  IF n < limit.low \/ n > limit.high
        THEN (IF limit.strict THEN Refuse(o) ELSE Accept(o))
        ELSE Set(o, name, IF name \in Masks THEN Signed(n, LongMax) ELSE int(n))

\* parseBoolean.  Background, syslog and a log file turn the colours off.
parseBoolean(o, name, enable) ==
    CASE name = "keepalive" -> SetBack(o, [o["pools"][Back(o)] EXCEPT !.keepAlive = enable])
      [] name = "nicehash"  -> SetBack(o, [o["pools"][Back(o)] EXCEPT !.nicehash = enable])
      [] name \in {"background", "syslog"} ->
             Accept([o EXCEPT ![name] = enable, !["colors"] = @ /\ ~enable])
      [] name \in {"colors", "no-color"}   -> Set(o, "colors", enable)
      [] name \in {"huge-pages", "no-huge-pages"} -> Set(o, "huge-pages", enable)
      [] name = "safe" -> Set(o, "safe", enable)

\* A second url that is not valid is dropped, and the last valid one makes the
\* argument pass.
parsePoolUrl(o, text) ==
    LET pools == IF Len(o["pools"]) > 1 \/ isValid(o["pools"][1])
                 THEN LET url == parseUrl(NewUrl, text)
                      IN  IF isValid(url) THEN Append(o["pools"], url) ELSE o["pools"]
                 ELSE <<parseUrl(o["pools"][1], text)>>
    IN  [ok |-> isValid(Last(pools)), o |-> [o EXCEPT !["pools"] = pools]]

\* parseCCUrl knows no schemes: the first colon ends the host, and what follows
\* the one of a scheme is no number.  The port is cut to 16 bits before it is
\* compared with 65536.
parseCCUrl(o, text) ==
    Accept([o EXCEPT
        !["cc-host"] = IF text.scheme = NoText THEN text.host ELSE text.scheme,
        !["cc-port"] = IF text.scheme # NoText THEN 0
                       ELSE IF text.port = NoPort THEN kDefaultCCPort
                       ELSE uint16(strtol(text.port))])

setAlgo(o, name) ==
    CASE name = "cryptonight" -> Set(o, "algo", name)
      [] name \in {"cryptonight-lite", "cryptonight-light"} -> Set(o, "algo", "cryptonight-lite")
      [] OTHER -> Refuse(o)

\* parseArg(int, const char *), without --config.
parseText(o, name, v, cpu) ==
    CASE name = "algo"     -> setAlgo(o, v)
      [] name = "url"      -> parsePoolUrl(o, v)
      [] name = "userpass" -> IF v.colon
                              THEN SetBack(o, [o["pools"][Back(o)] EXCEPT !.user = v.user, !.pass = v.pass])
                              ELSE Refuse(o)
      [] name = "user"     -> SetBack(o, [o["pools"][Back(o)] EXCEPT !.user = v])
      [] name = "pass"     -> SetBack(o, [o["pools"][Back(o)] EXCEPT !.pass = v])
      [] name = "log-file" -> Accept([o EXCEPT !["log-file"] = v, !["colors"] = FALSE])
      [] name \in Texts \ {"log-file"} -> Set(o, name, v)
      [] name = "cc-url"   -> parseCCUrl(o, v)
      [] name = "daemonized" -> Set(o, "daemonized", TRUE)
      [] name \in Numbers  -> parseNumber(o, name, IF name \in Masks THEN strtoull(v) ELSE uint64(strtol(v)))
      [] name = "threads-all" -> Set(o, "threads", cpu.threads)
      [] name \in {"background", "keepalive", "syslog", "safe", "nicehash"} -> parseBoolean(o, name, TRUE)
      [] name \in {"no-color", "no-huge-pages"} -> parseBoolean(o, name, FALSE)
      [] name \in {"version", "help", "unknown"} -> Refuse(o)

-----------------------------------------------------------------------------
(* The configuration file *)

ConfigOptions == <<"algo", "av", "aesni", "multihash-factor", "background", "colors",
                   "cpu-affinity", "cpu-priority", "donate-level", "huge-pages", "log-file",
                   "max-cpu-usage", "print-time", "retries", "retry-pause", "safe", "syslog",
                   "threads", "user-agent", "multihash-thread-mask">>

\* Mutant of PoolOptions: the user is read before the url.
PoolOptions_UserFirst == <<"user", "url", "pass", "userpass", "keepalive", "nicehash">>

PoolOptions == <<"url", "pass", "user", "userpass", "keepalive", "nicehash">>
ApiOptions      == <<"api-port", "api-access-token", "api-worker-id">>
CCClientOptions == <<"cc-url", "cc-access-token", "cc-worker-id", "cc-update-interval-s">>
CCServerOptions == <<"cc-port", "cc-access-token", "cc-user", "cc-pass",
                     "cc-client-config-folder", "cc-custom-dashboard">>

\* The options without an argument.
Switches == {"background", "colors", "huge-pages", "safe", "syslog", "keepalive", "nicehash"}

\* parseJSON: a value of the wrong type is skipped, and what parseArg says of
\* the others is not looked at.
parseJSON(o, name, object, cpu) ==
    IF name \notin DOMAIN object THEN o
    ELSE LET v == object[name]
         IN  CASE v.type = "text" /\ name \notin Switches -> parseText(o, name, v.value, cpu).o
               [] v.type = "number" /\ name \in Numbers   -> parseNumber(o, name, v.value).o
               [] v.type = "flag" /\ name \in Switches    -> parseBoolean(o, name, v.value).o
               [] OTHER -> o

\* One option of the section after the other.
parseSection(o, names, object, cpu) ==
    LET after[k \in 0 .. Len(names)] ==
            IF k = 0 THEN o ELSE parseJSON(after[k - 1], names[k], object, cpu)
    IN  after[Len(names)]

\* One entry of the file after the other; each sets "the last pool".
parsePools(o, pools, cpu) ==
    LET after[k \in 0 .. Len(pools)] ==
            IF k = 0 THEN o ELSE parseSection(after[k - 1], PoolOptions, pools[k], cpu)
    IN  after[Len(pools)]

\* parseConfig of a file that can be read and parsed, or not.
parseConfig(o, file, cpu) ==
    IF ~file.readable THEN o
    ELSE LET top    == parseSection(o, ConfigOptions, file.options, cpu)
             pools  == parsePools(top, file.pools, cpu)
             api    == parseSection(pools, ApiOptions, file.api, cpu)
             client == parseSection(api, CCClientOptions, file.client, cpu)
         IN  parseSection(client, CCServerOptions, file.server, cpu)

parseArg(o, arg, cpu) ==
    IF arg.name = "config" THEN Accept(parseConfig(o, arg.value, cpu))
    ELSE parseText(o, arg.name, arg.value, cpu)

-----------------------------------------------------------------------------
(* What these definitions are applied to *)

UrlText == [scheme : Strings, host : Strings, port : Int \cup {NoPort}]

Url == [host : Strings \cup {NoHost}, port : Int, user : Strings, pass : Strings,
        keepAlive : BOOLEAN, nicehash : BOOLEAN]

\* The names that the command line or a file may use, "unknown" for all others.
Names ==
    Numbers \cup Texts
    \cup {"algo", "url", "userpass", "user", "pass", "cc-url", "daemonized", "threads-all",
          "background", "keepalive", "syslog", "safe", "nicehash", "no-color",
          "no-huge-pages", "version", "help", "unknown"}

\* An option that is given as a text.
IsArgument(name, v) ==
    /\ name \in Numbers => v \in Int
    /\ name \in Texts \cup {"algo", "user", "pass"} => v \in Strings
    /\ name \in {"url", "cc-url"} => v \in UrlText
    /\ name = "userpass" => v \in [colon : BOOLEAN, user : Strings, pass : Strings]

\* The values of an object of a file.  Only a uint64_t is a number.
IsObject(object) ==
    \A name \in DOMAIN object :
        LET v == object[name]
        IN  /\ v.type = "text" => IsArgument(name, v.value)
            /\ v.type = "number" => v.value \in 0 .. ULongMax
            /\ v.type = "flag" => v.value \in BOOLEAN

IsFile(file) ==
    /\ file.readable \in BOOLEAN
    /\ file.readable =>
           /\ IsObject(file.options) /\ IsObject(file.api)
           /\ IsObject(file.client) /\ IsObject(file.server)
           /\ Len(file.pools) \in Nat
           /\ \A i \in 1 .. Len(file.pools) : IsObject(file.pools[i])

-----------------------------------------------------------------------------
(* Threads and hashes per thread *)

availableCache(cpu) ==
    IF cpu.l3 = 0 THEN cpu.l2 ELSE IF cpu.l2exclusive THEN cpu.l2 + cpu.l3 ELSE cpu.l3

BlockSize(algo) == IF algo = "cryptonight-lite" THEN 1024 ELSE 2048

\* maximumReasonableFactor: the scratchpads that fit into the cache.
Reasonable(o, cpu) == Max({availableCache(cpu) \div BlockSize(o["algo"]), 1})

\* The old av option sets what is not set otherwise.
FromVariant(o) ==
    LET factor == CASE o["av"] \in {1, 3} -> 1 [] o["av"] \in {2, 4} -> 2 [] OTHER -> o["multihash-factor"]
        aesni  == CASE o["av"] \in {1, 2} -> 1 [] o["av"] \in {3, 4} -> 2 [] OTHER -> o["aesni"]
    IN  [o EXCEPT !["multihash-factor"] = IF @ = 0 THEN factor ELSE @,
                  !["aesni"] = IF @ = 0 THEN aesni ELSE @]

FromCpu(o, cpu) ==
    [o EXCEPT !["aesni"] = IF @ = 0 \/ o["safe"] THEN (IF cpu.aes THEN 1 ELSE 2) ELSE @]

\* Mutant of Safely: threads and factor are limited apart.
Safely_EachAlone(threads, factor, most, cpu) ==
    [threads |-> Min({threads, most, cpu.threads}),
     factor  |-> IF factor > most THEN Max({Min({most, MaxHashBlocks}), 1}) ELSE factor]

\* Safe mode: both settings are cut to what fits.
Safely(threads, factor, most, cpu) ==
    LET t == Min({threads, most, cpu.threads})
    IN  [threads |-> t,
         factor  |-> IF factor > most \div t
                     THEN Max({Min({most \div t, most, MaxHashBlocks}), 1}) ELSE factor]

\* What is still 0 is chosen.
ChooseThreads(factor, most, usage, cpu) ==
    LET t == IF factor = 0 THEN Min({most, cpu.threads}) ELSE Min({most, cpu.threads, most \div factor})
        u == IF usage < 100 THEN Min({t, (cpu.threads * usage) \div 100}) ELSE t
    IN  Max({u, 1})

ChooseFactor(threads, most) == Max({Min({most, MaxHashBlocks, most \div threads}), 1})

\* In safe mode the cache is divided by the thread count, chosen or not.
DividesByZero(o, cpu) == o["safe"] /\ (o["threads"] = 0 \/ cpu.threads = 0)

\* CpuImpl::optimizeParameters, where it does not divide by zero.
optimizeParameters(o, cpu) ==
    LET most    == Reasonable(o, cpu)
        factor  == Min({o["multihash-factor"], MaxHashBlocks})
        s       == IF o["safe"] THEN Safely(o["threads"], factor, most, cpu)
                   ELSE [threads |-> o["threads"], factor |-> factor]
        threads == IF s.threads = 0 THEN ChooseThreads(s.factor, most, o["max-cpu-usage"], cpu)
                   ELSE s.threads
    IN  [o EXCEPT !["threads"] = threads,
                  !["multihash-factor"] = IF s.factor = 0 THEN ChooseFactor(threads, most) ELSE s.factor]

=============================================================================
