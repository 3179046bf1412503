----------------------------- MODULE MCStartup -----------------------------
(* Arguments at the limits of their values, and files with several pools. *)
EXTENDS Startup

MCStrings == STRING

Arg(name, v) == [name |-> name, value |-> v]

Text(scheme, host, port) == [scheme |-> scheme, host |-> host, port |-> port]

Urls == {Text("", "a", NoPort), Text("stratum+tcp", "b", 65536), Text("stratum+tcp", "b", 1),
         Text("http", "c", NoPort), Text("", "nicehash.com", 80), Text("", "", NoPort),
         Text("", "", 80)}

\* 1024 threads are left out: one more than the mask has bits is as many as
\* matter.  Numbers are on both sides of every limit.
Values(name) ==
    {-1, 0, Limits[name].low, Limits[name].high, 1 + Limits[name].high} \ {1024}

Bare == {"background", "keepalive", "syslog", "safe", "nicehash", "no-color", "no-huge-pages",
         "threads-all", "version", "help", "unknown"}

Entry(text, user) == [url |-> [type |-> "text", value |-> text], user |-> [type |-> "text", value |-> user]]
Number(n) == [type |-> "number", value |-> n]
Flag(b)   == [type |-> "flag", value |-> b]
Nothing   == [name \in {} |-> Flag(TRUE)]

File(options, pools) == [readable |-> TRUE, options |-> options, pools |-> pools,
                         api |-> Nothing, client |-> Nothing, server |-> Nothing]

MCFiles ==
    {[File(Nothing, <<>>) EXCEPT !.readable = FALSE],
     File([safe |-> Flag(TRUE), threads |-> Number(0)],
          <<Entry(Text("", "a", NoPort), "ann"), Entry(Text("", "b", 1), "bob")>>),
     File([threads |-> Number(5), av |-> Number(2), colors |-> Flag(FALSE),
           background |-> [type |-> "text", value |-> "yes"]],
          <<Entry(Text("", "a", NoPort), "ann"), Entry(Text("http", "c", 1), "cid")>>),
     File(Nothing, <<Entry(Text("", "b", 65536), "dora"), Entry(Text("", "a", NoPort), "ann"),
                     [url |-> [type |-> "text", value |-> Text("", "b", 1)]]>>),
     File([threads |-> Number(3), av |-> Number(2)], <<Entry(Text("", "a", NoPort), "ann")>>),
     [File([safe |-> Flag(TRUE), threads |-> Number(3)], <<>>) EXCEPT
          !.client = [x \in {"cc-url"} |-> [type |-> "text", value |-> Text("", "cc", NoPort)]],
          !.server = [x \in {"cc-port"} |-> Number(0)],
          !.api = [x \in {"api-port"} |-> Number(65537)]]}

MCArgs ==
    {Arg("url", u) : u \in Urls}
    \cup UNION {{Arg(name, v) : v \in Values(name)} : name \in Numbers}
    \cup {Arg("threads", 3), Arg("threads", MaskBits + 1), Arg("multihash-thread-mask", 5)}
    \cup {Arg("cc-update-interval-s", n) :
              n \in {-5, IntMax + 1, 2 * (IntMax + 1), LongMax + 1, -LongMax - 2}}
    \cup {Arg("multihash-thread-mask", n) : n \in {LongMax + 1, -ULongMax - 1}}
    \cup {Arg("userpass", [colon |-> c, user |-> "eve", pass |-> "x"]) : c \in BOOLEAN}
    \cup {Arg("user", "dan"), Arg("pass", "y"), Arg("log-file", "log"), Arg("user-agent", "agent"),
          Arg("algo", "cryptonight"), Arg("algo", "cryptonight-light"), Arg("algo", "other")}
    \cup {Arg("cc-url", Text("", "cc", p)) : p \in {NoPort, 65536, 1}}
    \cup {Arg("cc-url", Text("http", "cc", 1))}
    \cup {Arg(name, TRUE) : name \in Bare}
    \cup {Arg("config", f) : f \in MCFiles}

Machine(aes, l2, l3, exclusive, threads) ==
    [aes |-> aes, l2 |-> l2, l3 |-> l3, l2exclusive |-> exclusive, threads |-> threads]

MCMachines == {Machine(TRUE, 512, 8192, FALSE, 8), Machine(FALSE, 2048, 6144, TRUE, 4),
               Machine(TRUE, 0, 0, FALSE, 1), Machine(TRUE, 3072, 0, FALSE, 2)}

=============================================================================
