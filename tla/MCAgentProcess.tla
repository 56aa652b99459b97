----------------------------- MODULE MCAgentProcess ----------------------------
(* Constants of AgentProcess for TLC. *)
EXTENDS AgentProcess

MCFields == {"ConfigFile", "Token", "AutoDiscoveryKey", "MonthRotate", "PreferIPVersion"}
MCDefault == [f \in MCFields |-> IF f = "MonthRotate" THEN "0" ELSE ""]
MCMalformed == {<<"MonthRotate", "">>, <<"MonthRotate", "often">>}
MCRefused == {<<"PreferIPVersion", "ipv4">>, <<"MonthRotate", "-1">>}

Partial(S, T) == UNION {[D -> T] : D \in SUBSET S}
One(f, values) == {<<>>} \cup {(f :> v) : v \in values}

\* Every combination for one text field and for the selection of the file; numbers
\* and the preference of the dials in some of them.
Texts ==
    {[file |-> file, env |-> env @@ more, legacy |-> old, flags |-> flags @@ flag] :
        file \in {[Token |-> "f", MonthRotate |-> "1"], [ConfigFile |-> "g"], <<>>, Broken},
        env \in Partial({"Token", "ConfigFile"}, {"", "e"}),
        more \in {<<>>, [PreferIPVersion |-> "4"]},
        old \in One("Token", {"", "o"}),
        flags \in One("Token", {"", "c"}), flag \in One("ConfigFile", {"", "e"})}
Numbers ==
    {[file |-> file, env |-> env @@ [ConfigFile |-> "e"], legacy |-> <<>>,
      flags |-> flags @@ [AutoDiscoveryKey |-> "k"]] :
        file \in One("MonthRotate", {"1", "-1"}),
        env \in One("MonthRotate", {"", "often", "2"}) \cup One("PreferIPVersion", {"ipv4"}),
        flags \in One("MonthRotate", {"3", "-1"})}
MCInvocations == Texts \cup Numbers

MCFamilies == [a \in {"a4", "b4", "a6"} |-> IF a = "a6" THEN "6" ELSE "4"]
MCResolutions == {<<>>, <<"b4", "a6", "a4">>, <<"a4">>}
Client(seconds, unsafe, prefer) == [timeout |-> seconds, unsafe |-> unsafe, prefer |-> prefer]
MCWanted == {Client(30, FALSE, "configured"), Client(0, TRUE, "configured"), Client(35, FALSE, "4")}
MCCustoms == [host : {"custom"}, form : {"plain6", "broken"}] \cup {NoServer}
MCFallbacks == <<"first", "custom", "second">>

MCSymmetry == Permutations(Users) \cup Permutations(NICs)

MCSamples == [total : {0, 3}, free : 0..2, available : {0, 2, 4}, buffers : 0..1,
              cached : 0..2, reclaimable : 0..1, shmem : 0..2]
MCSwaps == [total : 0..2, free : 0..3, cached : 0..2]

Part == [place |-> "data", node |-> "dev", fstype |-> "ext4", device |-> <<"sda">>,
         total |-> 3, used |-> 1, length |-> 2, fails |-> FALSE, remote |-> FALSE]
MCParts ==
    {Part, [Part EXCEPT !.place = "root", !.total = 2, !.length = 1],
     [Part EXCEPT !.fails = TRUE, !.total = 6],
     [Part EXCEPT !.place = "system", !.device = <<"sdc">>],
     [Part EXCEPT !.node = "loop", !.device = <<"loop0">>],
     [Part EXCEPT !.fstype = "zfs", !.node = "zfs", !.device = <<"pool">>, !.total = 4],
     [Part EXCEPT !.fstype = "zfs", !.node = "zfs", !.device = <<"pool", "home">>, !.used = 2],
     [Part EXCEPT !.fstype = "fuse", !.node = "fuse", !.place = "sdcard", !.device = <<"fuse">>],
     [Part EXCEPT !.fstype = "network", !.remote = TRUE, !.device = <<"nas">>]}
MCTables == UNION {[1..n -> MCParts] : n \in 0..3}
=============================================================================
