------------------------------ MODULE Connectivity -----------------------------
(***************************************************************************)
(* connectivity.Manager, shared by the goroutines of a run: the cache of   *)
(* HTTP clients, the choice of a DNS server, the order in which addresses  *)
(* are dialled, and the dials themselves.                                  *)
(*                                                                         *)
(* A user asks for an HTTP client or a WebSocket dialer and connects with  *)
(* it, again and again. The network answers as it likes.                   *)
(***************************************************************************)
EXTENDS Integers, Sequences, FiniteSets, SequencesExt, Loops

CONSTANTS
    Users,
    Wanted,         \* clients to ask for: [timeout, unsafe, prefer], see Asked
    DefaultTimeout, \* of a client that is asked for without one
    Families,       \* address -> "4" or "6"
    Resolutions,    \* the sequences of addresses that lookups return
    Customs,        \* custom DNS servers: [host, form]; form "port" has one
    Fallbacks,      \* fallbackDNSServers, a sequence of hosts
    DialTimeout,    \* of a lookup and of each address
    Handshake,      \* HandshakeTimeout of a WebSocket dial
    None

Addresses == DOMAIN Families

ASSUME WantedAssumption == \A w \in Wanted : w.timeout \in Int
ASSUME FamiliesAssumption == \A a \in Addresses : Families[a] \in {"4", "6"}
\* The list of the code names each server once.
ASSUME FallbacksAssumption == Fallbacks \in Seq(Range(Fallbacks)) /\ IsInjective(Fallbacks)
\* "system" stands for the resolver of the system.
ASSUME HostsAssumption == "system" \notin Range(Fallbacks) \cup {s.host : s \in Customs}
ASSUME ResolutionsAssumption == Resolutions \subseteq Seq(Addresses) /\ None \notin Resolutions
ASSUME TimesAssumption == DialTimeout \in Nat \ {0} /\ Handshake \in Nat \ {0}

VARIABLES
    preference, \* options.PreferIPVersion, as it is written
    custom,     \* options.CustomDNSServer
    clients,    \* httpClients: key -> client, [settings, nth]
    built,      \* the clients that were ever built
    onceDone,   \* preferV4Once
    hasIPv4,
    pc,         \* user -> "idle", "lookup", "sort", "dial", "connected", "failed"
    asked,      \* user -> what it asked for, or None
    client,     \* user -> the client or dialer it got, or None
    server,     \* user -> the DNS server its lookup has asked, and whether there
                \* was a route to the custom one: [host, routed], or None
    answer,     \* user -> the addresses in the order of its lookup, or None
    ips,        \* user -> the same slice, sorted in place
    next,       \* user -> the index of the address to dial
    tried,      \* user -> the addresses it has dialled
    spent       \* user -> the time since the handshake of its WebSocket began

options == <<preference, custom>>
cache == <<clients, built>>
manager == <<cache, onceDone, hasIPv4>>
lookup == <<server, answer>>
dial == <<ips, next, tried, spent>>
netVars == <<manager, pc, asked, client, lookup, dial>>

IdleNet ==
    /\ clients = <<>> /\ built = {} /\ onceDone = FALSE /\ hasIPv4 = FALSE
    /\ pc = [u \in Users |-> "idle"]
    /\ asked = [u \in Users |-> None] /\ client = [u \in Users |-> None]
    /\ server = [u \in Users |-> None] /\ answer = [u \in Users |-> None]
    /\ ips = [u \in Users |-> <<>>] /\ next = [u \in Users |-> 1]
    /\ tried = [u \in Users |-> {}] /\ spent = [u \in Users |-> 0]

Goto(u, label) == pc' = [pc EXCEPT ![u] = label]

-----------------------------------------------------------------------------
(* Clients. *)

normalizeIPVersionPreference(prefer) == IF prefer \in {"4", "6"} THEN prefer ELSE ""

\* What a user of the run asks for. The report, the pull loop and the discovery ask
\* with the configured preference, the IP collector with "4" and "6", and each with
\* a timeout of its own.
Asked(w) ==
    [socket |-> FALSE, timeout |-> w.timeout, unsafe |-> w.unsafe,
     prefer |-> IF w.prefer = "configured" THEN preference ELSE w.prefer]

\* What a client is built with.
Settings(wanted) ==
    [timeout |-> IF wanted.timeout <= 0 THEN DefaultTimeout ELSE wanted.timeout,
     unsafe |-> wanted.unsafe,
     prefer |-> normalizeIPVersionPreference(wanted.prefer)]

\* A mutant: clients with different timeouts have one key.
KeyWithoutTimeout(settings) == [unsafe |-> settings.unsafe, prefer |-> settings.prefer]

httpClientKey(settings) == settings

NewClient(settings) ==
    [settings |-> settings, nth |-> 1 + Cardinality({c \in built : c.settings = settings})]

Start(u, wanted) ==
    /\ pc[u] = "idle" /\ Goto(u, "lookup")
    /\ asked' = [asked EXCEPT ![u] = wanted]
    /\ UNCHANGED <<onceDone, hasIPv4, lookup, dial>>

\* NewWebSocketDialer, one for every connection.
OpenSocket(u) ==
    /\ Start(u, [socket |-> TRUE, prefer |-> preference])
    /\ client' = [client EXCEPT ![u] =
                    [settings |-> [prefer |-> normalizeIPVersionPreference(preference)], nth |-> 0]]
    /\ UNCHANGED cache

\* NewHTTPClientWithPreference, all of it under httpClientMu.
Request(u, wanted) ==
    LET key == httpClientKey(Settings(wanted)) IN
    /\ Start(u, wanted)
    /\ \/ /\ key \in DOMAIN clients
          /\ client' = [client EXCEPT ![u] = clients[key]]
          /\ UNCHANGED cache
       \/ /\ key \notin DOMAIN clients
          /\ client' = [client EXCEPT ![u] = NewClient(Settings(wanted))]
          /\ clients' = [k \in DOMAIN clients \cup {key} |->
                            IF k = key THEN client'[u] ELSE clients[k]]
          /\ built' = built \cup {client'[u]}

Prefers(u) == client[u].settings.prefer

-----------------------------------------------------------------------------
(* Time. A lookup and every attempt have a timeout, and those of a WebSocket  *)
(* share the deadline of its handshake. An HTTP transport dials without the   *)
(* deadline of the request.                                                   *)

Takes(u, time) ==
    IF asked[u].socket
    THEN spent[u] + time <= Handshake /\ spent' = [spent EXCEPT ![u] = @ + time]
    ELSE UNCHANGED spent

InTime(u) == asked[u].socket => spent[u] < Handshake

-----------------------------------------------------------------------------
(* The lookup. *)

\* A server that got no port cannot be dialled: brackets without a port are
\* left as they are.
normalizeDNSServer(s) ==
    IF s.form \in {"plain4", "plain6", "name"} THEN [s EXCEPT !.form = "port"] ELSE s

Dialable(s) == normalizeDNSServer(s).form = "port"

\* The servers that the resolver's Dial tries, in order; a fallback server that is
\* the custom one is skipped.
Candidates(s) ==
    IF Dialable(s) THEN <<s.host>> \o Kept(Fallbacks, Range(Fallbacks) \ {s.host})
    ELSE Fallbacks

\* Without a custom server the resolver is the system's. Otherwise a UDP socket is
\* opened for the first server there is a route to, whether or not it answers.
ChosenServer(s, routed) ==
    LET usable == Kept(Candidates(s), routed)
    IN  IF s.form = "empty" THEN "system"
        ELSE IF usable = <<>> THEN None ELSE Head(usable)

Lookup(u) ==
    /\ pc[u] = "lookup"
    /\ \E time \in 0..DialTimeout : Takes(u, time)
    /\ \/ /\ \E routed \in SUBSET ({custom.host} \cup Range(Fallbacks)) :
              /\ ChosenServer(custom, routed) # None
              /\ server' = [server EXCEPT ![u] =
                              [host |-> ChosenServer(custom, routed),
                               routed |-> custom.host \in routed]]
          /\ \E found \in Resolutions :
              answer' = [answer EXCEPT ![u] = found] /\ ips' = [ips EXCEPT ![u] = found]
          /\ Goto(u, "sort")
       \/ Goto(u, "failed") /\ UNCHANGED <<lookup, ips>>
    /\ UNCHANGED <<manager, asked, client, next, tried>>

-----------------------------------------------------------------------------
(* The dial. *)

OfFamily(addresses, family) == Kept(addresses, {a \in Addresses : Families[a] = family})

sortIPs(addresses, family) ==
    OfFamily(addresses, family)
        \o Kept(addresses, {a \in Addresses : Families[a] # family})

\* A mutant: the interfaces are asked again.
AskEveryTime == onceDone' = TRUE /\ hasIPv4' \in BOOLEAN

\* What the interfaces say at this moment is kept; an error says no.
preferIPv4First ==
    \/ onceDone /\ UNCHANGED <<onceDone, hasIPv4>>
    \/ ~onceDone /\ onceDone' = TRUE /\ hasIPv4' \in BOOLEAN

Sort(u) ==
    /\ pc[u] = "sort" /\ Goto(u, "dial")
    /\ \/ /\ Prefers(u) # "" /\ UNCHANGED <<onceDone, hasIPv4>>
          /\ ips' = [ips EXCEPT ![u] = sortIPs(@, Prefers(u))]
       \/ /\ Prefers(u) = "" /\ preferIPv4First
          /\ ips' = [ips EXCEPT ![u] = sortIPs(@, IF hasIPv4' THEN "4" ELSE "6")]
    /\ server' = [server EXCEPT ![u] = None]
    /\ UNCHANGED <<cache, asked, client, answer, next, tried, spent>>

\* An attempt at the next address.
Dials(u) ==
    /\ pc[u] = "dial" /\ next[u] <= Len(ips[u]) /\ InTime(u)
    /\ \E time \in 0..DialTimeout : Takes(u, time)
    /\ tried' = [tried EXCEPT ![u] = @ \cup {ips[u][next[u]]}]
    /\ UNCHANGED <<manager, asked, client, lookup, ips>>

Answers(u) == Dials(u) /\ Goto(u, "connected") /\ UNCHANGED next

\* A mutant: the first error ends the dial.
GivesUp(u) == Dials(u) /\ Goto(u, "failed") /\ UNCHANGED next

Refuses(u) == Dials(u) /\ next' = [next EXCEPT ![u] = @ + 1] /\ UNCHANGED pc

\* After the deadline the remaining attempts fail at once.
Fails(u) ==
    /\ pc[u] = "dial" /\ (next[u] > Len(ips[u]) \/ ~InTime(u))
    /\ Goto(u, "failed")
    /\ UNCHANGED <<manager, asked, client, lookup, dial>>

Done(u) ==
    /\ pc[u] \in {"connected", "failed"} /\ Goto(u, "idle")
    /\ asked' = [asked EXCEPT ![u] = None] /\ client' = [client EXCEPT ![u] = None]
    /\ answer' = [answer EXCEPT ![u] = None]
    /\ ips' = [ips EXCEPT ![u] = <<>>] /\ next' = [next EXCEPT ![u] = 1]
    /\ tried' = [tried EXCEPT ![u] = {}] /\ spent' = [spent EXCEPT ![u] = 0]
    /\ UNCHANGED <<manager, server>>

UserNext(u) ==
    \/ OpenSocket(u) \/ \E w \in Wanted : Request(u, Asked(w))
    \/ Lookup(u) \/ Sort(u) \/ Answers(u) \/ Refuses(u) \/ Fails(u) \/ Done(u)

NetNext == \E u \in Users : UserNext(u)

-----------------------------------------------------------------------------
(* Properties. *)

\* Whoever filled the cache, and with what, a user gets a client of the timeout,
\* the certificate check and the address family it asked for: the IP collector
\* never asks over the client of the other family. And a client is not built twice,
\* so that users with the same settings share its connections.
ClientFits ==
    /\ \A u \in Users : asked[u] # None =>
        LET a == asked[u]  s == client[u].settings IN
        /\ s.prefer = IF a.prefer \in {"4", "6"} THEN a.prefer ELSE ""
        /\ ~a.socket =>
            s.unsafe = a.unsafe /\ s.timeout = IF a.timeout > 0 THEN a.timeout ELSE DefaultTimeout
    /\ \A c, d \in built : c.settings = d.settings => c = d

\* Sorting keeps every address once; those of one family stay in the order of
\* the lookup (Resolutions lists each address once), and none of the other
\* family comes before one that is preferred.
SortedDials ==
    \A u \in Users : pc[u] = "dial" =>
        /\ Len(ips[u]) = Len(answer[u]) /\ Range(ips[u]) = Range(answer[u])
        /\ \A family \in {"4", "6"} :
            OfFamily(ips[u], family) = OfFamily(answer[u], family)
        /\ Prefers(u) # "" =>
            \A i, j \in DOMAIN ips[u] :
                Families[ips[u][i]] # Prefers(u) /\ Families[ips[u][j]] = Prefers(u)
                    => j < i

\* Without a preference, the order that the first dial settled is the order of
\* all of them, whatever becomes of the interfaces: two dials of the same
\* addresses that wait side by side try the same one first.
OneOrder ==
    \A u, v \in Users :
        /\ pc[u] = "dial" /\ pc[v] = "dial"
        /\ Prefers(u) = "" /\ Prefers(v) = ""
        /\ Range(ips[u]) = Range(ips[v]) /\ ips[u] # <<>>
        => Families[ips[u][1]] = Families[ips[v][1]]

\* A dial that fails after its lookup has dialled every address of the answer, or
\* the deadline of its handshake passed, which the lookup and the attempts share;
\* and no connection takes longer than its handshake may.
FailsOnlyAfterAll ==
    \A u \in Users : asked[u] # None =>
        /\ asked[u].socket => spent[u] <= Handshake
        /\ pc[u] = "failed" /\ answer[u] # None =>
            Range(answer[u]) \subseteq tried[u] \/ (asked[u].socket /\ spent[u] = Handshake)

\* A lookup goes to the system's resolver if no custom server is configured, and
\* only then. A custom server that got a port is asked whenever there is a route to
\* it, so a fallback server is asked only without one. No server is dialled twice.
CustomServerFirst ==
    /\ \A u \in Users : server[u] # None =>
        /\ server[u].host = "system" <=> custom.form = "empty"
        /\ Dialable(custom) /\ server[u].routed => server[u].host = custom.host
    /\ \A i, j \in DOMAIN Candidates(custom) :
        Candidates(custom)[i] = Candidates(custom)[j] => i = j
=============================================================================
