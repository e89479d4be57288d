------------------------------- MODULE Realtime -------------------------------
(***************************************************************************)
(* The event bus of the server (src/internal/realtime: Hub, Serve) and the *)
(* pages that listen to it (src/web/src/lib/realtime.ts, App.tsx, TvPage).  *)
(*                                                                         *)
(* An event says that something changed; a page that gets it fetches its   *)
(* rows again.  A handler writes the rows, copies the connections under    *)
(* the lock of the hub and puts the event into the buffer of each.  Events *)
(* are not kept: one that finds no connection, or a full buffer, is gone,  *)
(* and a page does not fetch when its connection is open again.            *)
(*                                                                         *)
(* The rows are their version; a page that has not loaded shows 0.         *)
(***************************************************************************)
EXTENDS Naturals

CONSTANTS
    Pages,                \* each with its connection
    Handlers,             \* the requests that change the rows
    Capacity, Window,     \* of the buffer of a connection, and of its socket
    MaxChanges            \* bound on the changes

ASSUME RealtimeAssumption ==
    /\ Capacity \in Nat \ {0} /\ Window \in Nat \ {0}
    /\ MaxChanges \in Nat

VARIABLES
    rows,                 \* version of the rows
    handlerPc, targets,   \* each handler, and the connections it has still to serve
    link, queue, wire,    \* each connection: its buffer, what its socket holds
    shown, fetching, got, \* each page: version shown, request under way, its answer
    missed                \* history: pages no event will tell of what they lack

handlerVars == <<handlerPc, targets>>
linkVars == <<link, queue, wire>>
pageVars == <<shown, fetching, got>>
realtimeVars == <<rows, handlerVars, linkVars, pageVars, missed>>

RealtimeTypeOK ==
    /\ rows \in Nat
    /\ handlerPc \in [Handlers -> {"idle", "written", "sending"}]
    /\ targets \in [Handlers -> SUBSET Pages]
    /\ link \in [Pages -> {"down", "accepted", "up"}]
    /\ queue \in [Pages -> 0 .. Capacity]
    /\ wire \in [Pages -> 0 .. Window]
    /\ shown \in [Pages -> Nat] /\ got \in [Pages -> Nat]
    /\ fetching \in [Pages -> {"no", "asked", "read"}]
    /\ missed \in SUBSET Pages

\* A page opens its connection and asks for its rows at the same time.
RealtimeInit ==
    /\ rows = 1
    /\ handlerPc = [h \in Handlers |-> "idle"]
    /\ targets = [h \in Handlers |-> {}]
    /\ link = [p \in Pages |-> "down"]
    /\ queue = [p \in Pages |-> 0]
    /\ wire = [p \in Pages |-> 0]
    /\ shown = [p \in Pages |-> 0]
    /\ fetching = [p \in Pages |-> "asked"]
    /\ got = [p \in Pages |-> 0]
    /\ missed = {}

\* The page lacks a change, and the request under way will not bring it.
Behind(p) ==
    /\ fetching[p] # "asked"
    /\ IF fetching[p] = "read" THEN got[p] < rows ELSE shown[p] < rows

-----------------------------------------------------------------------------
\* The handler of a module commits what it was asked to do ...
WriteRowsOf(h) ==
    /\ handlerPc[h] = "idle" /\ rows <= MaxChanges
    /\ rows' = rows + 1
    /\ handlerPc' = [handlerPc EXCEPT ![h] = "written"]
    /\ UNCHANGED <<targets, linkVars, pageVars, missed>>

\* ... and then publishes: the connections are copied under the read lock.
CopyTargets(h) ==
    LET registered == {p \in Pages : link[p] = "up"}
    IN  /\ handlerPc[h] = "written"
        /\ handlerPc' = [handlerPc EXCEPT ![h] = IF registered = {} THEN "idle" ELSE "sending"]
        /\ targets' = [targets EXCEPT ![h] = registered]
        /\ missed' = missed \cup {p \in Pages \ registered : Behind(p)}
        /\ UNCHANGED <<rows, linkVars, pageVars>>

\* The connection of p ends: what its buffer and its socket held is gone, and a
\* send to it has no effect any more (Client.Drop, closeAll, Unregister).
Close(p) ==
    /\ link' = [link EXCEPT ![p] = "down"]
    /\ queue' = [queue EXCEPT ![p] = 0]
    /\ wire' = [wire EXCEPT ![p] = 0]
    /\ missed' = IF Behind(p) THEN missed \cup {p} ELSE missed

\* The event goes into the buffer without waiting; a full buffer ends the connection.
SendEvent(h, p) ==
    /\ handlerPc[h] = "sending" /\ p \in targets[h]
    /\ targets' = [targets EXCEPT ![h] = @ \ {p}]
    /\ handlerPc' = [handlerPc EXCEPT ![h] = IF targets[h] = {p} THEN "idle" ELSE @]
    /\ \/ /\ link[p] = "up" /\ queue[p] < Capacity
          /\ queue' = [queue EXCEPT ![p] = @ + 1]
          /\ UNCHANGED <<link, wire, missed>>
       \/ /\ link[p] = "up" /\ queue[p] = Capacity
          /\ Close(p)
       \/ /\ link[p] # "up"
          /\ UNCHANGED <<linkVars, missed>>
    /\ UNCHANGED <<rows, pageVars>>

\* The server stops and starts again: handlers and connections are gone.
ServerRestarts ==
    /\ handlerPc' = [h \in Handlers |-> "idle"]
    /\ targets' = [h \in Handlers |-> {}]
    /\ link' = [p \in Pages |-> "down"]
    /\ queue' = [p \in Pages |-> 0]
    /\ wire' = [p \in Pages |-> 0]
    /\ missed' = missed \cup {p \in Pages : Behind(p)}
    /\ UNCHANGED <<rows, pageVars>>

-----------------------------------------------------------------------------
\* The browser's socket is open as soon as the server accepts it, and its watchdog
\* and its backoff start anew; no page fetches for that.
Connect(p) ==
    /\ link[p] = "down"
    /\ link' = [link EXCEPT ![p] = "accepted"]
    /\ UNCHANGED <<rows, handlerVars, queue, wire, pageVars, missed>>

\* A new Client with an empty buffer; a handler that still has the connection
\* before this one to serve serves nobody.
Register(p) ==
    /\ link[p] = "accepted"
    /\ link' = [link EXCEPT ![p] = "up"]
    /\ targets' = [h \in Handlers |-> targets[h] \ {p}]
    /\ handlerPc' = [h \in Handlers |-> IF targets[h] = {p} THEN "idle" ELSE handlerPc[h]]
    /\ UNCHANGED <<rows, queue, wire, pageVars, missed>>

\* The network, the read timeout, the write timeout or the watchdog ends it.
Disconnect(p) ==
    /\ link[p] # "down"
    /\ Close(p)
    /\ UNCHANGED <<rows, handlerVars, pageVars>>

\* writePump hands one event to the socket; it waits while the socket is full.
WritePump(p) ==
    /\ link[p] = "up" /\ queue[p] > 0 /\ wire[p] < Window
    /\ queue' = [queue EXCEPT ![p] = @ - 1]
    /\ wire' = [wire EXCEPT ![p] = @ + 1]
    /\ UNCHANGED <<rows, handlerVars, link, pageVars, missed>>

-----------------------------------------------------------------------------
\* Mutant: a page that is fetching lets the event pass.
KeepRequest(p) == fetching[p] # "no"

\* invalidateQueries cancels the request under way and asks again, except while the
\* page loads for the first time.
JoinsRequest(p) == fetching[p] # "no" /\ shown[p] = 0

\* The page gets an event.
OnMessage(p) ==
    /\ link[p] = "up" /\ wire[p] > 0
    /\ wire' = [wire EXCEPT ![p] = @ - 1]
    /\ \/ /\ JoinsRequest(p)
          /\ missed' = IF shown[p] = 0 /\ Behind(p) THEN missed \cup {p} ELSE missed
          /\ UNCHANGED pageVars
       \/ /\ ~ JoinsRequest(p)
          /\ fetching' = [fetching EXCEPT ![p] = "asked"]
          /\ got' = [got EXCEPT ![p] = 0]
          /\ UNCHANGED <<shown, missed>>
    /\ UNCHANGED <<rows, handlerVars, link, queue>>

\* The interval of a polled page, or the attention of the user, makes a page fetch;
\* not while a request is under way.
Refetch(p) ==
    /\ fetching[p] = "no"
    /\ fetching' = [fetching EXCEPT ![p] = "asked"]
    /\ UNCHANGED <<rows, handlerVars, linkVars, shown, got, missed>>

FetchReads(p) ==
    /\ fetching[p] = "asked"
    /\ fetching' = [fetching EXCEPT ![p] = "read"]
    /\ got' = [got EXCEPT ![p] = rows]
    /\ missed' = missed \ {p}
    /\ UNCHANGED <<rows, handlerVars, linkVars, shown>>

\* The page keeps what it shows.
FetchFails(p) ==
    /\ fetching[p] # "no"
    /\ fetching' = [fetching EXCEPT ![p] = "no"]
    /\ got' = [got EXCEPT ![p] = 0]
    /\ missed' = IF shown[p] < rows THEN missed \cup {p} ELSE missed
    /\ UNCHANGED <<rows, handlerVars, linkVars, shown>>

FetchShows(p) ==
    /\ fetching[p] = "read"
    /\ fetching' = [fetching EXCEPT ![p] = "no"]
    /\ shown' = [shown EXCEPT ![p] = got[p]]
    /\ got' = [got EXCEPT ![p] = 0]
    /\ UNCHANGED <<rows, handlerVars, linkVars, missed>>

RealtimeNext ==
    \/ \E h \in Handlers :
         \/ WriteRowsOf(h) \/ CopyTargets(h)
         \/ \E p \in Pages : SendEvent(h, p)
    \/ ServerRestarts
    \/ \E p \in Pages :
         \/ Connect(p) \/ Register(p) \/ Disconnect(p)
         \/ WritePump(p) \/ OnMessage(p)
         \/ Refetch(p) \/ FetchReads(p) \/ FetchFails(p) \/ FetchShows(p)

RealtimeSpec == RealtimeInit /\ [][RealtimeNext]_realtimeVars

-----------------------------------------------------------------------------
\* A page that lacks a change will be told: a handler that committed it has still to
\* publish, or the event is in its buffer or its socket.  The exceptions are named
\* where they arise: an event that found no connection or a full buffer, or was under
\* way when the connection or the server stopped; one that came while the page was
\* loading; and a request that failed.
PageIsTold ==
    \A p \in Pages : Behind(p) =>
        \/ p \in missed
        \/ queue[p] + wire[p] > 0
        \/ \E h \in Handlers : handlerPc[h] = "written" \/ p \in targets[h]
=============================================================================
