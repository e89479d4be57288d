------------------------------ MODULE MCInMemory ------------------------------
(* Instance for TLC of what the process keeps in memory: the cached            *)
(* subscriptions, the cached hosts, and the connections of the event bus.     *)
EXTENDS SubscriptionCache, Hosts, Realtime, FiniteSets, TLC

VARIABLE part   \* which of the three moves

MemoryVars == <<snapshotVars, hostsVars, realtimeVars, part>>

MemoryInit ==
    /\ CacheInit /\ HostsInit /\ RealtimeInit
    /\ part \in {"subscriptions", "hosts", "events"}
    /\ part # "hosts" => \A s \in Tenants : standing[s] = "none"

MemoryNext ==
    /\ UNCHANGED part
    /\ \/ part = "subscriptions" /\ CacheNext /\ UNCHANGED <<hostsVars, realtimeVars>>
       \/ part = "hosts" /\ HostsNext /\ UNCHANGED <<snapshotVars, realtimeVars>>
       \/ part = "events" /\ RealtimeNext /\ UNCHANGED <<snapshotVars, hostsVars>>

MemorySpec == MemoryInit /\ [][MemoryNext]_MemoryVars

MCSymmetry == Permutations(Writers) \cup Permutations(Keys)

\* Bound: at most two of a second school, a second change under way, a change made by
\* the platform, and a host that is asked for or cached, at a time; one such host.
AtMostTwo ==
    LET with == { <<1, Cardinality({s \in Tenants : standing[s] # "none"}) = 2>>,
                  <<2, Cardinality({m \in Managers : managing[m] # "idle"}) = 2>>,
                  <<3, edits > 0>>,
                  <<4, \/ \E h \in Hosts : known[h] # NoEntry
                       \/ \E l \in Lookups : asking[l] # "idle">> }
    IN  /\ Cardinality({w \in with : w[2]}) <= 2
        /\ Cardinality({h \in Hosts : known[h] # NoEntry \/ \E l \in Lookups : askHost[l] = h}) <= 1
=============================================================================
