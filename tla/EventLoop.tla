----------------------------- MODULE EventLoop -----------------------------
(***************************************************************************)
(* libvncserver without threads: the application calls rfbProcessEvents    *)
(* again and again, and everything else happens inside that call.          *)
(*                                                                         *)
(* One pass is rfbCheckFds (select on screen->allFds; accept; datagrams;   *)
(* one message of every readable client), rfbHttpCheckFds (the HTTP server *)
(* has a select of its own and one connection at a time, which a proxy     *)
(* request turns into a client), and a walk over the list of clients that  *)
(* sends updates and removes the clients whose socket has been closed.     *)
(*                                                                         *)
(* Messages, callbacks and hooks of the application run in the middle of   *)
(* that: they close clients, connect out, or shut the server down.  What   *)
(* is modelled is what those calls do to the descriptors (the kernel gives *)
(* out the lowest free one, so numbers are reused), to allFds and maxFd,   *)
(* and to the list (ClientList).  A use of freed memory ends in "lost".    *)
(***************************************************************************)
EXTENDS ClientList, Integers, FiniteSets

CONSTANTS
    Fds,         \* the descriptors of the process, 0 .. n
    Quota,       \* open descriptors beyond which connections are denied (fdQuota)
    Apps,        \* the applications and configurations, see AppsAssumption
    MaxEvents    \* bound: arrivals from outside and calls of the application

Roles == {"listen", "listen6", "udp", "inetd", "httpListen", "http"}
NoFd == -1       \* RFB_INVALID_SOCKET

ASSUME FdsAssumption == Fds \subseteq Nat /\ Quota \in Nat /\ MaxEvents \in Nat

\* roles: the sockets that are configured; eager: handleEventsEagerly; answers:
\* of newClientHook; udpAnswers: the same for the pseudo client of the UDP
\* socket; hookCloses: newClientHook may close another client; connects: the
\* application makes reverse connections; shutsInCallback: it calls
\* rfbShutdownServer from a callback; waits: without disconnecting clients, at
\* times; fcntlFails: rfbSetNonBlocking may fail in
\* rfbNewTCPOrUDPClient, after it has succeeded on the same socket before.
ASSUME AppsAssumption ==
    \A a \in Apps :
        /\ a.roles \subseteq Roles \ {"http"}
        /\ a.answers \subseteq {"accept", "hold", "refuse"}
        /\ a.udpAnswers \subseteq {"accept", "hold", "refuse"}
        /\ {a.eager, a.hookCloses, a.connects, a.shutsInCallback, a.waits,
                a.fcntlFails} \subseteq BOOLEAN

VARIABLES
    app,                \* the application, an element of Apps
    open,               \* per descriptor: open in the kernel?
    readable,           \* those with something to read: data, a connection, an end
    allFds, maxFd,      \* what rfbCheckFds selects on
    socks,              \* listenSock, udpSock, httpSock ... of the screen
    socketState, inetdInitDone,
    sock, onHold,       \* of each client
    udpClient,          \* "none", or whether the pseudo client is on hold
    pc, fds,            \* where rfbProcessEvents is; the result of its select
    at,                 \* the client its iterator stands on
    back, gone,         \* a running rfbShutdownServer: where it returns to, its client
    blocked,            \* history: a client's socket was read with nothing to read
    events

kernelVars == <<open, readable>>
watchVars == <<allFds, maxFd>>
screenVars == <<socks, socketState, inetdInitDone, udpClient>>
clientVars == <<listVars, sock, onHold>>
passVars == <<pc, fds, at, back, gone>>
vars == <<app, kernelVars, watchVars, screenVars, clientVars, passVars, blocked, events>>

Open == {fd \in Fds : open[fd]}
Connected == {c \in Clients : sock[c] # NoFd}
SocketsOf(D) == {sock[c] : c \in D} \ {NoFd}
InRole(R) == {socks[r] : r \in R} \ {NoFd}

\* rfbMax, and the loop of rfbCloseClient that lowers maxFd
\* Mutant of AtLeast: maxFd is not raised.
MutantAtLeast(fd, m) == m
AtLeast(fd, m) == IF fd > m THEN fd ELSE m
Highest(S) == CHOOSE m \in S \cup {0} : \A f \in S : f <= m
Lowered(S, m, closed) == IF m \in closed THEN Highest(S) ELSE m

\* Mutant of IsActive: the pseudo client counts.
MutantIsActive == socketState # "shutdown" \/ clientHead # Null \/ udpClient # "none"
IsActive == socketState # "shutdown" \/ clientHead # Null

\* rfbInitServer: every configured socket is listening.
Init ==
    /\ ListInit
    /\ app \in Apps
    /\ socks \in [Roles -> Fds \cup {NoFd}]
    /\ \A r \in Roles : socks[r] = NoFd <=> r \notin app.roles
    /\ \A r, s \in app.roles : socks[r] = socks[s] => r = s
    /\ open = [fd \in Fds |-> fd \in InRole(Roles)]
    /\ \A fd \in Open, f \in Fds \ Open : fd < f
    /\ readable = {}
    /\ allFds = InRole(Roles \ {"httpListen", "http"})
    /\ maxFd = Highest(allFds)
    /\ socketState = "ready" /\ inetdInitDone = FALSE
    /\ sock = [c \in Clients |-> NoFd] /\ onHold = [c \in Clients |-> FALSE]
    /\ udpClient = "none"
    /\ pc = "idle" /\ fds = {} /\ at = Null /\ back = "idle" /\ gone = Null
    /\ blocked = FALSE /\ events = 0

Event == events < MaxEvents /\ events' = events + 1
\* Control moves on, all else as it is.
Goto(l) == pc' = l /\ UNCHANGED <<fds, at, back, gone>>
-----------------------------------------------------------------------------
(***************************************************************************)
(* The world: data, connections, datagrams and ends of connections arrive. *)
(***************************************************************************)
Arrives ==
    \E fd \in Open \ readable :
        /\ Event
        /\ readable' = readable \cup {fd}
        /\ UNCHANGED <<app, open, watchVars, screenVars, clientVars, passVars, blocked>>
-----------------------------------------------------------------------------
(***************************************************************************)
(* What calls made at many places do.                                      *)
(***************************************************************************)
\* Mutant of CloseClients: the descriptor stays in allFds.
MutantCloseClients(D, K) ==
    /\ open' = [fd \in Fds |-> open[fd] /\ fd \notin SocketsOf(D)]
    /\ readable' = readable \ (SocketsOf(D) \cup K)
    /\ sock' = [c \in Clients |-> IF c \in D THEN NoFd ELSE sock[c]]
    /\ UNCHANGED <<allFds, maxFd>>

\* rfbCloseClient of every client of D: close, leave allFds, lower maxFd.  K is what
\* has been read before.
CloseClients(D, K) ==
    /\ open' = [fd \in Fds |-> open[fd] /\ fd \notin SocketsOf(D)]
    /\ readable' = readable \ (SocketsOf(D) \cup K)
    /\ allFds' = allFds \ SocketsOf(D)
    /\ maxFd' = Lowered(allFds', maxFd, SocketsOf(D))
    /\ sock' = [c \in Clients |-> IF c \in D THEN NoFd ELSE sock[c]]

\* A connection is given the lowest descriptor that is free.
LowestFree(fd) == fd \notin Open /\ \A f \in Fds \ Open : fd <= f

(***************************************************************************)
(* rfbNewTCPOrUDPClient for a connection at fd, where W and m are allFds   *)
(* and maxFd when it is called.                                            *)
(***************************************************************************)
\* The client is linked; newClientHook may close others before it answers.
ClientStays(c, fd, W, m, K) ==
    \E D \in IF app.hookCloses THEN SUBSET Connected ELSE {{}} :
        /\ \/ "accept" \in app.answers /\ onHold' = [onHold EXCEPT ![c] = FALSE]
           \/ "hold" \in app.answers /\ onHold' = [onHold EXCEPT ![c] = TRUE]
        /\ LinkClient(c)
        /\ sock' = [d \in Clients |-> IF d = c THEN fd ELSE IF d \in D THEN NoFd ELSE sock[d]]
        /\ open' = [f \in Fds |-> f = fd \/ (open[f] /\ f \notin SocketsOf(D))]
        /\ readable' = readable \ (SocketsOf(D) \cup K)
        /\ allFds' = (W \cup {fd}) \ SocketsOf(D)
        /\ maxFd' = Lowered(allFds', AtLeast(fd, m), SocketsOf(D))

\* The version or the websocket handshake cannot be sent, or newClientHook
\* refuses: linked, closed, unlinked and freed.
ClientGoesAtOnce(c, fd, W, m, K) ==
    /\ life[c] = "none" /\ life' = [life EXCEPT ![c] = "freed"]
    /\ open' = [open EXCEPT ![fd] = FALSE]
    /\ readable' = readable \ ({fd} \cup K)
    /\ allFds' = W \ {fd}
    /\ maxFd' = Lowered(allFds', AtLeast(fd, m), {fd})
    /\ UNCHANGED <<clientHead, next, prev, sock, onHold>>

\* rfbSetNonBlocking fails: the structure is never linked nor freed, and what
\* is in allFds stays there.
NonBlockingFails(c, fd, W, m, K) ==
    /\ app.fcntlFails
    /\ life[c] = "none" /\ life' = [life EXCEPT ![c] = "freed"]
    /\ open' = [open EXCEPT ![fd] = FALSE]
    /\ readable' = readable \ ({fd} \cup K)
    /\ allFds' = W /\ maxFd' = m
    /\ UNCHANGED <<clientHead, next, prev, sock, onHold>>

NewClient(fd, W, m, K) ==
    \E c \in Clients : \/ ClientStays(c, fd, W, m, K)
                       \/ ClientGoesAtOnce(c, fd, W, m, K)
                       \/ NonBlockingFails(c, fd, W, m, K)

\* rfbReverseConnection: rfbConnect watches the socket before rfbNewClient.
Connects(K) ==
    /\ app.connects
    /\ \E fd \in Fds : LowestFree(fd) /\ NewClient(fd, allFds \cup {fd}, AtLeast(fd, maxFd), K)

\* Mutant of Gone: the prev of the next client is not updated.
MutantGone(c) ==
    /\ life' = [life EXCEPT ![c] = "freed"]
    /\ next' = [d \in Clients |-> IF d = prev[c] THEN next[c] ELSE next[d]]
    /\ clientHead' = IF prev[c] = Null THEN next[c] ELSE clientHead
    /\ UNCHANGED prev

\* rfbClientConnectionGone of a client whose socket is closed
Gone(c) ==
    /\ life' = [life EXCEPT ![c] = "freed"]
    /\ next' = [d \in Clients |-> IF d = prev[c] THEN next[c] ELSE next[d]]
    /\ prev' = [d \in Clients |-> IF d = next[c] THEN prev[c] ELSE prev[d]]
    /\ clientHead' = IF prev[c] = Null THEN next[c] ELSE clientHead

\* Mutant of ClosesOrConnects: a client that is closed is removed at once.
MutantClosesOrConnects(K) ==
    \/ \E d \in Connected : CloseClients({d}, K) /\ Gone(d) /\ UNCHANGED onHold
    \/ Connects(K)

\* Everything a callback of the application can do but shutting down.
ClosesOrConnects(K) ==
    \/ \E D \in SUBSET Connected : CloseClients(D, K) /\ UNCHANGED <<listVars, onHold>>
    \/ Connects(K)

\* rfbShutdownServer begins, with disconnectClients or without; it returns to
\* where it was called from.
ShutsDown(from) ==
    /\ pc' = "shutdown" /\ back' = from
    /\ gone' \in {clientHead} \cup (IF app.waits THEN {Null} ELSE {})
    /\ UNCHANGED <<fds, at, kernelVars, watchVars, clientVars>>
-----------------------------------------------------------------------------
(***************************************************************************)
(* Between two passes: the application calls what it likes.                *)
(***************************************************************************)
AppActs ==
    /\ pc = "idle" /\ Event
    /\ \/ ClosesOrConnects({}) /\ UNCHANGED passVars
       \/ socketState = "ready" /\ ShutsDown("idle")
    /\ UNCHANGED <<app, screenVars, blocked>>

StartOnHoldClient ==
    \E c \in InList :
        /\ pc = "idle" /\ onHold[c]
        /\ onHold' = [onHold EXCEPT ![c] = FALSE]
        /\ UNCHANGED <<app, kernelVars, watchVars, screenVars, listVars, sock, passVars,
                       blocked, events>>

RefuseOnHoldClient ==
    \E c \in InList :
        /\ pc = "idle" /\ onHold[c]
        /\ CloseClients({c}, {})
        /\ Gone(c)
        /\ UNCHANGED <<app, screenVars, onHold, passVars, blocked, events>>

\* rfbRunEventLoop, or a loop of the application's own
ProcessEvents ==
    /\ pc = "idle"
    /\ Goto(IF IsActive THEN "select" ELSE "ended")
    /\ UNCHANGED <<app, kernelVars, watchVars, screenVars, clientVars, blocked, events>>
-----------------------------------------------------------------------------
(***************************************************************************)
(* rfbCheckFds                                                             *)
(***************************************************************************)
InetdClient ==
    /\ pc = "select" /\ ~inetdInitDone /\ socks["inetd"] # NoFd
    /\ NewClient(socks["inetd"], allFds, maxFd, {})
    /\ inetdInitDone' = TRUE
    /\ UNCHANGED <<app, socks, socketState, udpClient, passVars, blocked, events>>

CanSelect == pc = "select" /\ (inetdInitDone \/ socks["inetd"] = NoFd)
Watched == {fd \in allFds : fd <= maxFd}

\* EBADF: nothing is looked at, whatever is readable.
SelectFails ==
    /\ CanSelect /\ ~(Watched \subseteq Open)
    /\ Goto("http")
    /\ UNCHANGED <<app, kernelVars, watchVars, screenVars, clientVars, blocked, events>>

\* Nothing is readable: the next chunk of every file transfer, which may fail.
SelectTimesOut ==
    /\ CanSelect /\ Watched \subseteq Open /\ Watched \cap readable = {}
    /\ \E D \in SUBSET {c \in Connected : ~onHold[c] /\ sock[c] \in allFds} : CloseClients(D, {})
    /\ Goto("http")
    /\ UNCHANGED <<app, screenVars, listVars, onHold, blocked, events>>

\* Mutant of Select: all that is watched is taken as readable.
MutantSelect ==
    /\ CanSelect /\ Watched \subseteq Open /\ Watched \cap readable # {}
    /\ fds' = Watched
    /\ pc' = "listen"
    /\ UNCHANGED <<app, kernelVars, watchVars, screenVars, clientVars, at, back, gone,
                   blocked, events>>

Select ==
    /\ CanSelect /\ Watched \subseteq Open
    /\ fds' = Watched \cap readable /\ fds' # {}
    /\ pc' = "listen"
    /\ UNCHANGED <<app, kernelVars, watchVars, screenVars, clientVars, at, back, gone,
                   blocked, events>>

\* A socket of the screen has been dealt with: on to l, or the pass is over
\* when it was the only one (--nfds == 0).
Dealt(r, l) ==
    /\ fds' = fds \ {socks[r]}
    /\ pc' = IF fds' = {} THEN "http" ELSE l
    /\ UNCHANGED <<at, back, gone>>

NextAfter(r) == IF r = "listen" THEN "listen6" ELSE "udp"

NotReady(r) ==
    /\ pc = r /\ socks[r] \notin fds
    /\ IF r = "udp"
       THEN pc' = "clients" /\ at' = clientHead /\ UNCHANGED <<fds, back, gone>>
       ELSE Goto(NextAfter(r))
    /\ UNCHANGED <<app, kernelVars, watchVars, screenVars, clientVars, blocked, events>>

\* rfbProcessNewConnection: select says which of the two sockets to take the
\* connection from, the IPv6 one if both are readable.
Chosen == IF socks["listen6"] \in readable THEN socks["listen6"] ELSE socks["listen"]
AtListener == pc \in {"listen", "listen6"} /\ socks[pc] \in fds
OverQuota == Cardinality(Open) > Quota

\* Denied, or accept or rfbSetNonBlocking fails: the rest of the pass is skipped.
\* More connections may wait where this one came from: nothing bounds how many are
\* denied.  Without a free descriptor it cannot even be taken to be closed.
ConnectionDenied ==
    /\ AtListener
    /\ readable' \in {readable} \cup (IF Open = Fds THEN {} ELSE {readable \ {Chosen}})
    /\ Goto("http")
    /\ UNCHANGED <<app, open, watchVars, screenVars, clientVars, blocked, events>>

ConnectionAccepted ==
    /\ AtListener /\ ~OverQuota
    /\ \E fd \in Fds : LowestFree(fd) /\ NewClient(fd, allFds, maxFd, {Chosen})
    /\ Dealt(pc, NextAfter(pc))
    /\ UNCHANGED <<app, screenVars, blocked, events>>

\* The pseudo client of the datagrams is never linked.  One that is refused is
\* unlinked all the same: clientHead becomes its next, and NULL regions are
\* destroyed.
UdpClientArrives ==
    /\ pc = "udp" /\ socks["udp"] \in fds /\ udpClient = "none"
    /\ \/ udpClient' \in app.udpAnswers \ {"refuse"} /\ UNCHANGED pc
       \/ "refuse" \in app.udpAnswers /\ pc' = "lost" /\ UNCHANGED udpClient
    /\ UNCHANGED <<app, kernelVars, watchVars, socks, socketState, inetdInitDone,
                   clientVars, fds, at, back, gone, blocked, events>>

\* A datagram is read, or not if the pseudo client is on hold; connecting back
\* to a new sender may fail for a while (Event), which skips the rest of the pass.
Datagram ==
    /\ pc = "udp" /\ socks["udp"] \in fds /\ udpClient # "none"
    /\ \/ /\ readable' = IF udpClient = "hold" THEN readable ELSE readable \ {socks["udp"]}
          /\ fds' = fds \ {socks["udp"]}
          /\ pc' = IF fds' = {} THEN "http" ELSE "clients"
          /\ at' = clientHead /\ UNCHANGED events
       \/ Event /\ pc' = "http" /\ UNCHANGED <<readable, fds, at>>
    /\ UNCHANGED <<app, open, watchVars, screenVars, clientVars, back, gone, blocked>>

\* The walk over the open clients; reading next of a freed client is the end.
MovesOn(c) ==
    IF life'[c] = "freed"
    THEN pc' = "lost" /\ UNCHANGED <<fds, at, back, gone>>
    ELSE at' = next'[c] /\ UNCHANGED <<pc, fds, back, gone>>

\* The clients of which a pass takes a message, or sends a chunk
Serves(c) == sock[c] # NoFd /\ ~onHold[c] /\ sock[c] \in allFds

SkipClient ==
    /\ pc = "clients" /\ at # Null /\ ~Serves(at)
    /\ at' = next[at]
    /\ UNCHANGED <<app, kernelVars, watchVars, screenVars, clientVars, pc, fds, back,
                   gone, blocked, events>>

\* rfbProcessClientMessage: one message, or more; it may make the application
\* close clients (this one too), connect out, or shut the server down.
ClientMessage ==
    /\ pc = "clients" /\ at # Null /\ Serves(at) /\ sock[at] \in fds
    /\ blocked' = (blocked \/ sock[at] \notin readable)
    /\ \/ /\ readable' = readable \ {sock[at]}
          /\ UNCHANGED <<open, watchVars, clientVars>>
          /\ MovesOn(at)
       \/ events < MaxEvents /\ ClosesOrConnects({sock[at]}) /\ MovesOn(at)
       \/ app.shutsInCallback /\ socketState = "ready" /\ ShutsDown("clients")
    /\ events' = IF UNCHANGED clientVars THEN events ELSE events + 1
    /\ UNCHANGED <<app, screenVars>>

\* rfbSendFileTransferChunk
ClientChunk ==
    /\ pc = "clients" /\ at # Null /\ Serves(at) /\ sock[at] \notin fds
    /\ \E D \in {{}, {at}} : CloseClients(D, {})
    /\ UNCHANGED <<listVars, onHold>>
    /\ MovesOn(at)
    /\ UNCHANGED <<app, screenVars, blocked, events>>

ClientsDone ==
    /\ pc = "clients" /\ at = Null
    /\ Goto(IF app.eager THEN "select" ELSE "http")
    /\ UNCHANGED <<app, kernelVars, watchVars, screenVars, clientVars, blocked, events>>
-----------------------------------------------------------------------------
(***************************************************************************)
(* rfbHttpCheckFds                                                         *)
(***************************************************************************)
HttpReadable == InRole({"httpListen", "http"}) \cap readable

HttpSelect ==
    /\ pc = "http"
    /\ IF socks["httpListen"] = NoFd \/ HttpReadable = {}
       THEN pc' = "update" /\ at' = clientHead /\ UNCHANGED fds
       ELSE pc' = "httpInput" /\ fds' = HttpReadable /\ UNCHANGED at
    /\ UNCHANGED <<app, kernelVars, watchVars, screenVars, clientVars, back, gone,
                   blocked, events>>

HttpNoInput ==
    /\ pc = "httpInput" /\ socks["http"] \notin fds
    /\ Goto("httpAccept")
    /\ UNCHANGED <<app, kernelVars, watchVars, screenVars, clientVars, blocked, events>>

\* httpProcessInput: part of a request, a request that is answered (or not) and
\* the connection closed, or a proxy request, whose connection becomes a client.
HttpInput ==
    /\ pc = "httpInput" /\ socks["http"] \in fds
    /\ Goto("httpAccept")
    /\ LET fd == socks["http"] IN
       \/ /\ readable' = readable \ {fd}
          /\ UNCHANGED <<open, watchVars, clientVars, socks>>
       \/ /\ readable' = readable \ {fd} /\ open' = [open EXCEPT ![fd] = FALSE]
          /\ socks' = [socks EXCEPT !["http"] = NoFd]
          /\ UNCHANGED <<watchVars, clientVars>>
       \/ /\ NewClient(fd, allFds, maxFd, {fd})
          /\ socks' = [socks EXCEPT !["http"] = NoFd]
    /\ UNCHANGED <<app, socketState, inetdInitDone, udpClient, blocked, events>>

\* A new connection takes the place of the one before, whose descriptor it gets.
HttpAccept ==
    /\ pc = "httpAccept"
    /\ IF socks["httpListen"] \notin fds
       THEN UNCHANGED <<kernelVars, socks>>
       ELSE LET old == {socks["http"]} \ {NoFd} IN
            \E fd \in (Fds \ Open) \cup old, accepted \in BOOLEAN :
              /\ \A f \in (Fds \ Open) \cup old : fd <= f
              /\ open' = [f \in Fds |-> (open[f] /\ f \notin old) \/ (accepted /\ f = fd)]
              /\ readable' = readable \ (old \cup {socks["httpListen"]})
              /\ socks' = [socks EXCEPT !["http"] = IF accepted THEN fd ELSE NoFd]
    /\ pc' = "update" /\ at' = clientHead /\ UNCHANGED <<fds, back, gone>>
    /\ UNCHANGED <<app, watchVars, socketState, inetdInitDone, udpClient, clientVars,
                   blocked, events>>
-----------------------------------------------------------------------------
(***************************************************************************)
(* The rest of rfbProcessEvents: rfbUpdateClient for every client of the   *)
(* list, and rfbClientConnectionGone for those that are closed.            *)
(***************************************************************************)
\* Nothing is sent, or sending fails, or a deferred pointer event is delivered
\* to the application, with the same consequences as a message.
UpdateClient ==
    /\ pc = "update" /\ at # Null
    /\ \/ UNCHANGED <<kernelVars, watchVars, clientVars, events>> /\ Goto("updated")
       \/ sock[at] # NoFd /\ Event /\ ClosesOrConnects({}) /\ Goto("updated")
       \/ sock[at] # NoFd /\ Event /\ app.shutsInCallback /\ socketState = "ready"
            /\ ShutsDown("updated")
    /\ UNCHANGED <<app, screenVars, blocked>>

\* Mutant of RemoveClosed: only the head of the list is removed.
MutantRemoveClosed ==
    /\ pc = "updated" /\ life[at] # "freed"
    /\ IF sock[at] = NoFd /\ at = clientHead THEN Gone(at) ELSE UNCHANGED listVars
    /\ at' = next[at] /\ pc' = "update" /\ UNCHANGED <<fds, back, gone>>
    /\ UNCHANGED <<app, kernelVars, watchVars, screenVars, sock, onHold, blocked, events>>

RemoveClosed ==
    /\ pc = "updated" /\ life[at] # "freed"
    /\ IF sock[at] = NoFd THEN Gone(at) ELSE UNCHANGED listVars
    /\ at' = next[at] /\ pc' = "update" /\ UNCHANGED <<fds, back, gone>>
    /\ UNCHANGED <<app, kernelVars, watchVars, screenVars, sock, onHold, blocked, events>>

UpdatedFreed ==
    /\ pc = "updated" /\ life[at] = "freed"
    /\ Goto("lost")
    /\ UNCHANGED <<app, kernelVars, watchVars, screenVars, clientVars, blocked, events>>

PassDone ==
    /\ pc = "update" /\ at = Null
    /\ Goto("idle")
    /\ UNCHANGED <<app, kernelVars, watchVars, screenVars, clientVars, blocked, events>>
-----------------------------------------------------------------------------
(***************************************************************************)
(* rfbShutdownServer                                                       *)
(***************************************************************************)
SkipClosed ==
    /\ pc = "shutdown" /\ gone # Null /\ sock[gone] = NoFd
    /\ gone' = next[gone]
    /\ UNCHANGED <<app, kernelVars, watchVars, screenVars, clientVars, pc, fds, at, back,
                   blocked, events>>

\* The next client is known before this one is closed and freed.
Disconnect ==
    /\ pc = "shutdown" /\ gone # Null /\ sock[gone] # NoFd
    /\ CloseClients({gone}, {}) /\ Gone(gone)
    /\ gone' = next[gone]
    /\ UNCHANGED <<app, screenVars, onHold, pc, fds, at, back, blocked, events>>

\* rfbHttpShutdownSockets and rfbShutdownSockets; then the caller goes on.
ShutdownSockets ==
    /\ pc = "shutdown" /\ gone = Null
    /\ open' = [fd \in Fds |-> open[fd] /\ fd \notin InRole(Roles)]
    /\ readable' = readable \ InRole(Roles)
    /\ allFds' = allFds \ InRole(Roles)
    /\ socks' = [r \in Roles |-> NoFd]
    /\ socketState' = "shutdown"
    /\ IF back = "clients" /\ life[at] = "freed" THEN pc' = "lost" ELSE pc' = back
    /\ UNCHANGED <<app, maxFd, inetdInitDone, udpClient, clientVars, fds, at, back,
                   gone, blocked, events>>
-----------------------------------------------------------------------------
Pass ==
    \/ ProcessEvents \/ InetdClient \/ SelectFails \/ SelectTimesOut \/ Select
    \/ \E r \in {"listen", "listen6", "udp"} : NotReady(r)
    \/ ConnectionDenied \/ ConnectionAccepted \/ UdpClientArrives \/ Datagram
    \/ SkipClient \/ ClientMessage \/ ClientChunk \/ ClientsDone
    \/ HttpSelect \/ HttpNoInput \/ HttpInput \/ HttpAccept
    \/ UpdateClient \/ RemoveClosed \/ UpdatedFreed \/ PassDone
    \/ SkipClosed \/ Disconnect \/ ShutdownSockets

Next == Arrives \/ AppActs \/ StartOnHoldClient \/ RefuseOnHoldClient \/ Pass

Spec == Init /\ [][Next]_vars

\* The application keeps calling rfbProcessEvents.
FairSpec == Spec /\ WF_vars(Pass)
-----------------------------------------------------------------------------
\* An application that neither shuts the server down from a callback nor refuses
\* the pseudo client of the datagrams: what becomes of the others ends in "lost".
Careful == ~app.shutsInCallback /\ "refuse" \notin app.udpAnswers

\* allFds is what rfbCheckFds can wait for at all: the sockets of the screen and
\* of the clients, all open, each watched for one owner, none beyond maxFd.  A
\* socket missing there is a client never heard again, one too many makes every
\* later select fail, as it does when rfbSetNonBlocking fails in rfbNewClient.
ScreenSockets == InRole({"listen", "listen6", "udp"})
                   \cup (IF inetdInitDone THEN {} ELSE InRole({"inetd"}))
WatchedSockets ==
    /\ SocketsOf(Clients) \subseteq allFds \cap Open
    /\ \A fd \in allFds : fd <= maxFd
    /\ \A c, d \in Connected : sock[c] = sock[d] => c = d
    /\ SocketsOf(Clients) \cap (ScreenSockets \cup InRole({"httpListen", "http"})) = {}
    /\ ~app.fcntlFails => /\ allFds = ScreenSockets \cup SocketsOf(Clients)
                          /\ allFds \cup InRole({"httpListen", "http"}) \subseteq Open

\* No client that is freed is used again, and a client with a socket is in the list.
FreedNeverUsed == pc # "lost"
NeverLost ==
    /\ Careful => FreedNeverUsed
    /\ Connected \subseteq InList

\* A message is read only from a client that has sent something, although other
\* clients have been served, closed and accepted since select: reading would
\* otherwise stop the server for maxClientWait.  Not so when two connections come
\* in one pass and newClientHook closes a client for the first: the second gets
\* the descriptor, which select has found readable.
Reuses == app.hookCloses /\ {"listen", "listen6"} \subseteq app.roles
NeverBlocks == ~Reuses => ~blocked

\* A client whose socket is closed, by whomever and wherever, is removed, once the
\* others pause: an eager application walks the list when nothing is readable.
ClosedIsFreed ==
    \A c \in Clients : (life[c] = "linked" /\ sock[c] = NoFd) ~> (life[c] = "freed" \/ pc = "lost")

\* What a client sends is read, or the client is closed or put on hold, whatever
\* else happens.
ReadableServed ==
    \A c \in Clients :
        (sock[c] \in readable /\ ~onHold[c] /\ Careful /\ ~app.fcntlFails)
            ~> (sock[c] \notin readable \/ onHold[c])

\* So it is unless connections are denied again and again: a denial ends
\* rfbCheckFds before its walk over the clients, and nothing makes up for it
\* (MCEventLoop_denied.cfg checks ReadableServed alone).
Served == []<><<ConnectionDenied>>_vars \/ ReadableServed

\* After a shutdown the event loop ends once the last client is gone, unless the
\* application connects out again.
LoopEnds ==
    (socketState = "shutdown" /\ Connected = {}) ~> (pc \in {"ended", "lost"} \/ Connected # {})
=============================================================================
