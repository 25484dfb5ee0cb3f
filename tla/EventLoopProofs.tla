-------------------------- MODULE EventLoopProofs --------------------------
(***************************************************************************)
(* What rfbCheckFds selects on is right, for any number of descriptors and *)
(* clients and whatever messages, callbacks and failures do in the middle  *)
(* of a pass: a screen socket or a connected client is watched and open,   *)
(* nothing else is, and no descriptor belongs to two of them although the  *)
(* kernel gives the same numbers out again.                                *)
(*                                                                         *)
(* A server started by inetd is left out: the descriptor of its one client *)
(* is also that of the screen, and rfbShutdownSockets closes it under the  *)
(* client when rfbShutdownServer has not disconnected it before.           *)
(***************************************************************************)
EXTENDS EventLoop, ClientListProofs, WellFoundedInduction, TLAPS

ByNetwork == {"listen", "listen6", "udp"}

Kinds ==
    /\ app \in Apps
    /\ socks \in [Roles -> Fds \cup {NoFd}] /\ socks["inetd"] = NoFd
    /\ sock \in [Clients -> Fds \cup {NoFd}]
    /\ life \in [Clients -> {"none", "linked", "unlinked", "freed"}]
    /\ open \in [Fds -> BOOLEAN]
    /\ allFds \subseteq Fds /\ maxFd \in Nat

(* Each descriptor has one owner, and is open as long as it has one. *)
OneOwner ==
    /\ \A c, d \in Clients : sock[c] # NoFd /\ sock[c] = sock[d] => c = d
    /\ \A r, s \in Roles : socks[r] # NoFd /\ socks[r] = socks[s] => r = s
    /\ \A c \in Clients, r \in Roles : sock[c] # NoFd => sock[c] # socks[r]
    /\ \A c \in Clients : sock[c] # NoFd => open[sock[c]]
    /\ \A r \in Roles : socks[r] # NoFd => open[socks[r]]
    /\ \A c \in Clients : life[c] = "none" => sock[c] = NoFd

(* Who owns a descriptor is heard, and who is heard owns one. *)
Heard ==
    /\ \A fd \in allFds : fd <= maxFd
    /\ \A c \in Clients : sock[c] # NoFd => sock[c] \in allFds
    /\ \A r \in ByNetwork : socks[r] # NoFd => socks[r] \in allFds
    /\ ~app.fcntlFails =>
         \A fd \in allFds : \/ \E c \in Clients : sock[c] = fd
                            \/ \E r \in ByNetwork : socks[r] = fd

WatchInv == Kinds /\ OneOwner /\ Heard
watchState == <<app, socks, sock, life, open, allFds, maxFd>>

LEMMA WatchedIfInv == WatchInv => WatchedSockets
  <1> SUFFICES ASSUME WatchInv PROVE WatchedSockets
    OBVIOUS
  <1> USE DEF WatchInv, Kinds, OneOwner, Heard
  <1>1. SocketsOf(Clients) \subseteq allFds \cap Open
    BY DEF SocketsOf, Open
  <1>2. \A c, d \in Connected : sock[c] = sock[d] => c = d
    BY DEF Connected
  <1>3. ScreenSockets = InRole(ByNetwork)
    BY DEF ScreenSockets, InRole, ByNetwork
  <1>4. SocketsOf(Clients) \cap (ScreenSockets \cup InRole({"httpListen", "http"})) = {}
    BY <1>3 DEF SocketsOf, InRole, ByNetwork, Roles
  <1>5. ASSUME ~app.fcntlFails
        PROVE  /\ allFds = ScreenSockets \cup SocketsOf(Clients)
               /\ allFds \cup InRole({"httpListen", "http"}) \subseteq Open
    <2>1. NoFd \notin allFds
      BY FdsAssumption DEF NoFd
    <2>2. allFds \subseteq ScreenSockets \cup SocketsOf(Clients)
      BY <1>3, <1>5, <2>1 DEF InRole, SocketsOf
    <2>3. ScreenSockets \cup SocketsOf(Clients) \subseteq allFds
      BY <1>3 DEF InRole, SocketsOf
    <2>4. InRole(Roles) \subseteq Open
      BY DEF InRole, Open
    <2>5. InRole({"httpListen", "http"}) \cup InRole(ByNetwork) \subseteq InRole(Roles)
      BY DEF InRole, Roles, ByNetwork
    <2> QED
      BY <1>1, <1>3, <2>2, <2>3, <2>4, <2>5
  <1> QED
    BY <1>1, <1>2, <1>4, <1>5 DEF WatchedSockets

LEMMA SameWatch ==
  ASSUME WatchInv, UNCHANGED watchState
  PROVE  WatchInv'
  BY DEF WatchInv, Kinds, OneOwner, Heard, watchState

-----------------------------------------------------------------------------
(* rfbCloseClient lowers maxFd to the greatest descriptor that is left.    *)
LEMMA HighestIsHighest ==
  ASSUME NEW m \in Nat, NEW S, S \subseteq 0 .. m
  PROVE  Highest(S) \in Nat /\ \A f \in S : f <= Highest(S)
  <1> DEFINE Less == {p \in Nat \X Nat : p[1] < p[2]}
             D == {k \in 0 .. m : m - k \in S \cup {0}}
  <1>1. IsWellFoundedOn(Less, Nat)
    BY NatLessThanWellFounded DEF OpToRel
  <1> HIDE DEF Less
  <1>2. m \in D /\ D \subseteq Nat
    <2>1. m - m \in S \cup {0}
      OBVIOUS
    <2> QED
      BY <2>1
  <1>3. \A f \in S \cup {0} : m - f \in D
    OBVIOUS
  <1> HIDE DEF D
  <1>4. PICK d \in D : \A e \in D : <<e, d>> \notin Less
    BY <1>1, <1>2, WFMin
  <1>5. \A e \in D : d <= e
    <2>1. \A e \in D : ~(e < d)
      BY <1>2, <1>4 DEF Less
    <2>2. \A e \in D : e \in Nat /\ d \in Nat
      BY <1>2
    <2> QED
      BY <2>1, <2>2
  <1>6. m - d \in S \cup {0} /\ d \in 0 .. m
    BY DEF D
  <1>7. \A f \in S : f <= m - d
    BY <1>3, <1>5, <1>6
  <1>8. Highest(S) \in S \cup {0} /\ \A f \in S : f <= Highest(S)
    BY <1>6, <1>7 DEF Highest
  <1>9. S \cup {0} \subseteq Nat
    OBVIOUS
  <1> QED
    BY <1>8, <1>9

LEMMA LoweredIsEnough ==
  ASSUME NEW m \in Nat, NEW S, S \subseteq Nat, \A f \in S : f <= m, NEW closed
  PROVE  Lowered(S, m, closed) \in Nat /\ \A f \in S : f <= Lowered(S, m, closed)
  <1>1. S \subseteq 0 .. m
    OBVIOUS
  <1> QED
    BY <1>1, HighestIsHighest DEF Lowered

LEMMA Closing ==
  ASSUME WatchInv, NEW D \in SUBSET Clients, NEW K, CloseClients(D, K),
         UNCHANGED <<app, socks>>,
         life' \in [Clients -> {"none", "linked", "unlinked", "freed"}],
         \A c \in Clients : life'[c] = "none" => life[c] = "none"
  PROVE  WatchInv'
  <1> USE DEF WatchInv, Kinds, OneOwner, Heard
  <1>1. \A c \in Clients : sock'[c] # NoFd => c \notin D /\ sock'[c] = sock[c]
    BY DEF CloseClients
  <1>2. \A fd : fd \in SocketsOf(D) <=> fd # NoFd /\ \E c \in D : sock[c] = fd
    BY DEF SocketsOf
  <1>3. maxFd' \in Nat /\ \A fd \in allFds' : fd <= maxFd'
    BY LoweredIsEnough, FdsAssumption DEF CloseClients
  <1>4. Kinds'
    BY <1>3 DEF CloseClients
  <1>5. \A c \in Clients : sock'[c] # NoFd => sock[c] \notin SocketsOf(D)
    BY <1>1, <1>2
  <1>6. \A r \in Roles : socks[r] # NoFd => socks[r] \notin SocketsOf(D)
    BY <1>2
  <1>7. OneOwner'
    <2>1. \A c \in Clients : sock'[c] # NoFd => open'[sock'[c]]
      BY <1>1, <1>5 DEF CloseClients
    <2>2. \A r \in Roles : socks'[r] # NoFd => open'[socks'[r]]
      BY <1>6 DEF CloseClients
    <2> QED
      BY <1>1, <2>1, <2>2 DEF CloseClients
  <1>8. Heard'
    <2>1. \A c \in Clients : sock'[c] # NoFd => sock'[c] \in allFds'
      BY <1>1, <1>5 DEF CloseClients
    <2>2. \A r \in ByNetwork : socks'[r] # NoFd => socks'[r] \in allFds'
      BY <1>6 DEF CloseClients, ByNetwork, Roles
    <2>3. ASSUME ~app.fcntlFails, NEW fd \in allFds', ~ \E r \in ByNetwork : socks[r] = fd
          PROVE  \E c \in Clients : sock'[c] = fd
      <3>1. fd \in allFds /\ fd \notin SocketsOf(D) /\ fd # NoFd
        BY FdsAssumption DEF CloseClients, NoFd
      <3>2. PICK c \in Clients : sock[c] = fd
        BY <2>3, <3>1
      <3>3. c \notin D
        BY <1>2, <3>1, <3>2
      <3> QED
        BY <3>2, <3>3 DEF CloseClients
    <2> QED
      BY <1>3, <2>1, <2>2, <2>3
  <1> QED
    BY <1>4, <1>7, <1>8

-----------------------------------------------------------------------------
(* A connection at fd, whether its client stays, goes at once, or never    *)
(* becomes one; of the screen's sockets at most the HTTP server's, which   *)
(* fd may have been, is given up.                                          *)
LEMMA Connecting ==
  ASSUME WatchInv, NEW fd \in Fds, NEW W, NEW m \in Nat, NEW K, NewClient(fd, W, m, K),
         allFds \subseteq W, W \subseteq allFds \cup {fd}, \A f \in W : f <= m,
         UNCHANGED app, socks' \in {socks, [socks EXCEPT !["http"] = NoFd]},
         \A c \in Clients : sock[c] # fd, \A r \in Roles : socks'[r] # fd
  PROVE  WatchInv'
  <1> USE DEF WatchInv, Kinds, OneOwner, Heard
  <1>1. fd # NoFd /\ fd \in Nat /\ NoFd \notin W /\ W \subseteq Fds
    BY FdsAssumption DEF NoFd
  <1>2. AtLeast(fd, m) \in Nat /\ \A f \in W \cup {fd} : f <= AtLeast(fd, m)
    BY <1>1, FdsAssumption DEF AtLeast
  <1>3. /\ socks' \in [Roles -> Fds \cup {NoFd}] /\ socks'["inetd"] = NoFd
        /\ \A r \in Roles : socks'[r] # NoFd => socks'[r] = socks[r]
        /\ \A r \in ByNetwork : socks'[r] = socks[r]
    BY DEF Roles, ByNetwork
  <1>4. PICK c \in Clients : \/ ClientStays(c, fd, W, m, K)
                             \/ ClientGoesAtOnce(c, fd, W, m, K)
                             \/ NonBlockingFails(c, fd, W, m, K)
    BY DEF NewClient
  <1>5. life[c] = "none" /\ sock[c] = NoFd
    BY <1>4 DEF ClientStays, LinkClient, ClientGoesAtOnce, NonBlockingFails
  <1>6. CASE ClientStays(c, fd, W, m, K)
    <2>1. PICK D \in SUBSET Connected :
            /\ sock' = [d \in Clients |-> IF d = c THEN fd ELSE IF d \in D THEN NoFd ELSE sock[d]]
            /\ open' = [f \in Fds |-> f = fd \/ (open[f] /\ f \notin SocketsOf(D))]
            /\ allFds' = (W \cup {fd}) \ SocketsOf(D)
            /\ maxFd' = Lowered(allFds', AtLeast(fd, m), SocketsOf(D))
            /\ life' = [life EXCEPT ![c] = "linked"]
      BY <1>6 DEF ClientStays, LinkClient
    <2>2. \A f : f \in SocketsOf(D) <=> f # NoFd /\ \E d \in D : sock[d] = f
      BY DEF SocketsOf
    <2>3. D \subseteq Clients /\ c \notin D /\ fd \notin SocketsOf(D)
      BY <1>5, <2>2 DEF Connected
    <2>4. \A d \in Clients : d # c /\ sock'[d] # NoFd =>
             d \notin D /\ sock'[d] = sock[d] /\ sock[d] \notin SocketsOf(D)
      BY <2>1, <2>2, <2>3
    <2>5. sock'[c] = fd
      BY <2>1
    <2>6. maxFd' \in Nat /\ \A f \in allFds' : f <= maxFd'
      <3>1. allFds' \subseteq Nat /\ \A f \in allFds' : f <= AtLeast(fd, m)
        BY <1>1, <1>2, <2>1, FdsAssumption
      <3> QED
        BY <1>2, <2>1, <3>1, LoweredIsEnough
    <2>7. Kinds'
      BY <1>1, <1>3, <2>1, <2>6
    <2>8. \A r \in Roles : socks'[r] # NoFd => socks[r] \notin SocketsOf(D)
      BY <1>3, <2>2, <2>3
    <2>9. OneOwner'
      <3>1. \A d, e \in Clients : sock'[d] # NoFd /\ sock'[d] = sock'[e] => d = e
        BY <2>4, <2>5
      <3>2. \A d \in Clients, r \in Roles : sock'[d] # NoFd => sock'[d] # socks'[r]
        BY <1>3, <2>4, <2>5
      <3>3. \A d \in Clients : sock'[d] # NoFd => open'[sock'[d]]
        BY <2>1, <2>4, <2>5
      <3>4. \A r \in Roles : socks'[r] # NoFd => open'[socks'[r]]
        BY <1>3, <2>1, <2>8
      <3>5. \A d \in Clients : life'[d] = "none" => sock'[d] = NoFd
        BY <2>1
      <3> QED
        BY <1>3, <3>1, <3>2, <3>3, <3>4, <3>5
    <2>10. Heard'
      <3>1. \A d \in Clients : sock'[d] # NoFd => sock'[d] \in allFds'
        BY <2>1, <2>3, <2>4, <2>5
      <3>2. \A r \in ByNetwork : socks'[r] # NoFd => socks'[r] \in allFds'
        BY <1>3, <2>1, <2>8 DEF ByNetwork, Roles
      <3>3. ASSUME ~app.fcntlFails, NEW f \in allFds', ~ \E r \in ByNetwork : socks[r] = f
            PROVE  \E d \in Clients : sock'[d] = f
        <4>1. CASE f = fd
          BY <2>5, <4>1
        <4>2. CASE f # fd
          <5>1. f \in allFds /\ f \notin SocketsOf(D) /\ f # NoFd
            BY <1>1, <2>1, <4>2
          <5>2. PICK d \in Clients : sock[d] = f
            BY <3>3, <5>1
          <5> QED
            BY <1>5, <2>1, <2>2, <5>1, <5>2
        <4> QED
          BY <4>1, <4>2
      <3> QED
        BY <1>3, <2>6, <3>1, <3>2, <3>3
    <2> QED
      BY <2>7, <2>9, <2>10
  <1>7. CASE ClientGoesAtOnce(c, fd, W, m, K) \/ NonBlockingFails(c, fd, W, m, K)
    <2>1. /\ life' = [life EXCEPT ![c] = "freed"] /\ UNCHANGED sock
          /\ open' = [open EXCEPT ![fd] = FALSE]
          /\ allFds' \in {W, W \ {fd}} /\ (~app.fcntlFails => allFds' = W \ {fd})
      BY <1>7 DEF ClientGoesAtOnce, NonBlockingFails
    <2>2. maxFd' \in Nat /\ \A f \in allFds' : f <= maxFd'
      <3>1. W \ {fd} \subseteq Nat /\ \A f \in W \ {fd} : f <= AtLeast(fd, m)
        BY <1>1, <1>2, FdsAssumption
      <3>2. CASE ClientGoesAtOnce(c, fd, W, m, K)
        BY <1>2, <3>1, <3>2, LoweredIsEnough DEF ClientGoesAtOnce
      <3> QED
        BY <1>7, <3>2 DEF NonBlockingFails
    <2>3. Kinds'
      BY <1>1, <1>3, <2>1, <2>2
    <2>4. OneOwner'
      BY <1>3, <2>1
    <2>5. Heard'
      <3>1. \A d \in Clients : sock'[d] # NoFd => sock'[d] \in allFds'
        BY <2>1
      <3>2. \A r \in ByNetwork : socks'[r] # NoFd => socks'[r] \in allFds'
        BY <1>3, <2>1 DEF ByNetwork, Roles
      <3>3. ~app.fcntlFails => \A f \in allFds' : \/ \E d \in Clients : sock'[d] = f
                                                  \/ \E r \in ByNetwork : socks'[r] = f
        BY <1>3, <2>1
      <3> QED
        BY <2>2, <3>1, <3>2, <3>3
    <2> QED
      BY <2>3, <2>4, <2>5
  <1> QED
    BY <1>4, <1>6, <1>7

LEMMA NotOpenNotOwned ==
  ASSUME WatchInv, NEW fd \in Fds, fd \notin Open
  PROVE  /\ \A c \in Clients : sock[c] # fd
         /\ \A r \in Roles : socks[r] # fd
  BY FdsAssumption DEF WatchInv, Kinds, OneOwner, Open, NoFd

LEMMA ClosingOrConnecting ==
  ASSUME WatchInv, NEW K, ClosesOrConnects(K), UNCHANGED <<app, socks>>
  PROVE  WatchInv'
  <1>1. CASE \E D \in SUBSET Connected : CloseClients(D, K) /\ UNCHANGED <<listVars, onHold>>
    <2>1. PICK D \in SUBSET Connected : CloseClients(D, K) /\ UNCHANGED listVars
      BY <1>1
    <2>2. D \in SUBSET Clients
      BY DEF Connected
    <2>3. UNCHANGED life
      BY <2>1 DEF listVars
    <2> QED
      BY <2>1, <2>2, <2>3, Closing DEF WatchInv, Kinds
  <1>2. CASE Connects(K)
    <2>1. PICK fd \in Fds : LowestFree(fd)
                            /\ NewClient(fd, allFds \cup {fd}, AtLeast(fd, maxFd), K)
      BY <1>2 DEF Connects
    <2>2. fd \notin Open
      BY <2>1 DEF LowestFree
    <2>3. /\ AtLeast(fd, maxFd) \in Nat
          /\ \A f \in allFds \cup {fd} : f <= AtLeast(fd, maxFd)
      BY FdsAssumption DEF AtLeast, WatchInv, Kinds, Heard
    <2> QED
      BY <2>1, <2>2, <2>3, NotOpenNotOwned, Connecting
  <1> QED
    BY <1>1, <1>2 DEF ClosesOrConnects

-----------------------------------------------------------------------------
(* Wherever rfbProcessEvents and rfbShutdownServer stand in the list is a  *)
(* client or its end.                                                      *)
Stands ==
    /\ at \in Clients \cup {Null} /\ gone \in Clients \cup {Null}
    /\ (pc = "updated" \/ (pc = "shutdown" /\ back = "updated")) => at # Null

LEMMA GoneKeepsList ==
  ASSUME ListTypeOK, NEW c \in Clients, Gone(c)
  PROVE  ListTypeOK'
  BY DEF ListTypeOK, Gone

LEMMA NewClientKeepsList ==
  ASSUME ListTypeOK, NEW fd, NEW W, NEW m, NEW K, NewClient(fd, W, m, K)
  PROVE  ListTypeOK'
  <1>1. PICK c \in Clients : \/ ClientStays(c, fd, W, m, K)
                             \/ ClientGoesAtOnce(c, fd, W, m, K)
                             \/ NonBlockingFails(c, fd, W, m, K)
    BY DEF NewClient
  <1>2. CASE ClientStays(c, fd, W, m, K)
    <2>1. LinkClient(c)
      BY <1>2 DEF ClientStays
    <2> QED
      BY <2>1 DEF ListTypeOK, LinkClient
  <1>3. CASE ClientGoesAtOnce(c, fd, W, m, K) \/ NonBlockingFails(c, fd, W, m, K)
    BY <1>3 DEF ListTypeOK, ClientGoesAtOnce, NonBlockingFails
  <1> QED
    BY <1>1, <1>2, <1>3

LEMMA CallbackKeepsList ==
  ASSUME ListTypeOK, NEW K, ClosesOrConnects(K)
  PROVE  ListTypeOK'
  <1>1. CASE UNCHANGED listVars
    BY <1>1 DEF ListTypeOK, listVars
  <1>2. CASE Connects(K)
    BY <1>2, NewClientKeepsList DEF Connects
  <1> QED
    BY <1>1, <1>2 DEF ClosesOrConnects

LEMMA ListKept ==
  ASSUME ListTypeOK, Stands, Next
  PROVE  ListTypeOK'
  <1>1. CASE UNCHANGED listVars
    BY <1>1 DEF ListTypeOK, listVars
  <1> USE DEF clientVars
  <1>2. CASE Arrives \/ StartOnHoldClient
    BY <1>1, <1>2 DEF Arrives, StartOnHoldClient
  <1>3. CASE AppActs
    BY <1>1, <1>3, CallbackKeepsList DEF AppActs, ShutsDown
  <1>4. CASE RefuseOnHoldClient
    BY <1>4, GoneKeepsList DEF RefuseOnHoldClient, InList
  <1>5. CASE InetdClient
    BY <1>5, NewClientKeepsList DEF InetdClient
  <1>6. CASE ConnectionAccepted
    BY <1>6, NewClientKeepsList DEF ConnectionAccepted
  <1>7. CASE ClientMessage
    BY <1>1, <1>7, CallbackKeepsList DEF ClientMessage, ShutsDown
  <1>8. CASE HttpInput
    BY <1>1, <1>8, NewClientKeepsList DEF HttpInput
  <1>9. CASE UpdateClient
    BY <1>1, <1>9, CallbackKeepsList DEF UpdateClient, ShutsDown
  <1>10. CASE RemoveClosed
    <2>1. at \in Clients
      BY <1>10 DEF RemoveClosed, Stands
    <2> QED
      BY <1>1, <1>10, <2>1, GoneKeepsList DEF RemoveClosed
  <1>11. CASE Disconnect
    <2>1. gone \in Clients
      BY <1>11 DEF Disconnect, Stands
    <2> QED
      BY <1>11, <2>1, GoneKeepsList DEF Disconnect
  <1>12. CASE ProcessEvents \/ SelectFails \/ SelectTimesOut \/ Select
              \/ (\E r \in {"listen", "listen6", "udp"} : NotReady(r)) \/ ConnectionDenied
    BY <1>1, <1>12 DEF ProcessEvents, SelectFails, SelectTimesOut, Select, NotReady,
                       ConnectionDenied
  <1>13. CASE UdpClientArrives \/ Datagram \/ SkipClient \/ ClientChunk \/ ClientsDone
              \/ HttpSelect \/ HttpNoInput \/ HttpAccept
    BY <1>1, <1>13 DEF UdpClientArrives, Datagram, SkipClient, ClientChunk, ClientsDone,
                       HttpSelect, HttpNoInput, HttpAccept
  <1>14. CASE UpdatedFreed \/ PassDone \/ SkipClosed \/ ShutdownSockets
    BY <1>1, <1>14 DEF UpdatedFreed, PassDone, SkipClosed, ShutdownSockets
  <1> QED
    BY <1>2, <1>3, <1>4, <1>5, <1>6, <1>7, <1>8, <1>9, <1>10, <1>11, <1>12, <1>13, <1>14
       DEF Next, Pass

LEMMA StandsKept ==
  ASSUME ListTypeOK, ListTypeOK', Stands, Next
  PROVE  Stands'
  <1> USE DEF Stands, ListTypeOK, Goto, passVars
  <1>1. CASE Arrives \/ AppActs \/ StartOnHoldClient \/ RefuseOnHoldClient
    BY <1>1 DEF Arrives, AppActs, StartOnHoldClient, RefuseOnHoldClient, ShutsDown
  <1>2. CASE ProcessEvents \/ InetdClient \/ SelectFails \/ SelectTimesOut \/ Select
    BY <1>2 DEF ProcessEvents, InetdClient, SelectFails, SelectTimesOut, Select
  <1>3. CASE \/ (\E r \in {"listen", "listen6", "udp"} : NotReady(r))
             \/ ConnectionDenied \/ ConnectionAccepted \/ UdpClientArrives \/ Datagram
    BY <1>3 DEF NotReady, ConnectionDenied, ConnectionAccepted, UdpClientArrives, Datagram,
                NextAfter, Dealt, AtListener
  <1>4. CASE SkipClient \/ ClientMessage \/ ClientChunk \/ ClientsDone
    BY <1>4 DEF SkipClient, ClientMessage, ClientChunk, ClientsDone, MovesOn, ShutsDown
  <1>5. CASE HttpSelect \/ HttpNoInput \/ HttpInput \/ HttpAccept
    BY <1>5 DEF HttpSelect, HttpNoInput, HttpInput, HttpAccept
  <1>6. CASE UpdateClient \/ RemoveClosed \/ UpdatedFreed \/ PassDone
    BY <1>6 DEF UpdateClient, RemoveClosed, UpdatedFreed, PassDone, ShutsDown
  <1>7. CASE SkipClosed \/ Disconnect \/ ShutdownSockets
    BY <1>7 DEF SkipClosed, Disconnect, ShutdownSockets
  <1> QED
    BY <1>1, <1>2, <1>3, <1>4, <1>5, <1>6, <1>7 DEF Next, Pass

-----------------------------------------------------------------------------
EventInv ==
    /\ ListTypeOK /\ Stands
    /\ "inetd" \notin app.roles => WatchInv /\ NoFd \notin fds

LEMMA EventInit == Init => EventInv
  <1> SUFFICES ASSUME Init PROVE EventInv
    OBVIOUS
  <1>1. ListTypeOK /\ Stands
    BY DEF Init, ListInit, ListTypeOK, Stands
  <1>2. ASSUME "inetd" \notin app.roles PROVE WatchInv
    <2>1. /\ socks \in [Roles -> Fds \cup {NoFd}]
          /\ \A r \in Roles : socks[r] = NoFd <=> r \notin app.roles
          /\ allFds = InRole(Roles \ {"httpListen", "http"}) /\ maxFd = Highest(allFds)
          /\ open = [fd \in Fds |-> fd \in InRole(Roles)]
          /\ sock = [c \in Clients |-> NoFd]
      BY DEF Init
    <2>2. socks["inetd"] = NoFd
      BY <1>2, <2>1 DEF Roles
    <2>3. allFds = InRole(ByNetwork) /\ allFds \subseteq Fds
      BY <2>1, <2>2 DEF InRole, ByNetwork, Roles
    <2>4. \A r \in ByNetwork : socks[r] \in Int /\ -1 <= socks[r]
      <3>1. \A r \in ByNetwork : socks[r] \in Fds \cup {NoFd}
        BY <2>1 DEF ByNetwork, Roles
      <3>2. \A f \in Fds \cup {NoFd} : f \in Int /\ -1 <= f
        BY FdsAssumption DEF NoFd
      <3> QED
        BY <3>1, <3>2
    <2> DEFINE bound == socks["listen"] + socks["listen6"] + socks["udp"] + 3
    <2>5. bound \in Nat /\ \A r \in ByNetwork : socks[r] <= bound
      BY <2>4 DEF ByNetwork
    <2>6. allFds \subseteq 0 .. bound
      <3>1. \A fd \in allFds : fd \in Nat /\ \E r \in ByNetwork : socks[r] = fd
        BY <2>3, FdsAssumption DEF InRole
      <3> HIDE DEF bound
      <3> QED
        BY <2>5, <3>1
    <2> HIDE DEF bound
    <2>7. maxFd \in Nat /\ \A fd \in allFds : fd <= maxFd
      BY <2>1, <2>5, <2>6, HighestIsHighest
    <2>8. Kinds
      <3>1. app \in Apps /\ life \in [Clients -> {"none", "linked", "unlinked", "freed"}]
        BY <1>1 DEF Init, ListTypeOK
      <3>2. open \in [Fds -> BOOLEAN] /\ sock \in [Clients -> Fds \cup {NoFd}]
        BY <2>1
      <3> QED
        BY <2>1, <2>2, <2>3, <2>7, <3>1, <3>2 DEF Kinds
    <2>9. OneOwner
      <3>1. \A c \in Clients : sock[c] = NoFd
        BY <2>1
      <3>2. \A r, s \in Roles : socks[r] # NoFd /\ socks[r] = socks[s] => r = s
        BY <2>1 DEF Init
      <3>3. \A r \in Roles : socks[r] # NoFd => open[socks[r]]
        BY <2>1 DEF InRole
      <3> QED
        BY <3>1, <3>2, <3>3 DEF OneOwner
    <2>10. Heard
      <3>1. \A r \in ByNetwork : socks[r] # NoFd => socks[r] \in allFds
        BY <2>3 DEF InRole
      <3>2. \A fd \in allFds : \E r \in ByNetwork : socks[r] = fd
        BY <2>3 DEF InRole
      <3> QED
        BY <2>1, <2>7, <3>1, <3>2 DEF Heard
    <2> QED
      BY <2>8, <2>9, <2>10 DEF WatchInv
  <1> QED
    BY <1>1, <1>2 DEF EventInv, Init

(* httpProcessInput of a proxy request hands the descriptor over.          *)
LEMMA HttpInputKeeps ==
  ASSUME WatchInv, NoFd \notin fds, HttpInput
  PROVE  WatchInv'
  <1> DEFINE fd == socks["http"]
  <1>1. /\ "http" \in Roles /\ UNCHANGED app
        /\ socks \in [Roles -> Fds \cup {NoFd}]
        /\ \A c \in Clients : sock[c] # NoFd => sock[c] # fd
        /\ \A r \in Roles : r # "http" /\ socks[r] # NoFd => socks[r] # fd
    BY DEF HttpInput, Roles, WatchInv, Kinds, OneOwner
  <1>2. CASE UNCHANGED <<open, watchVars, clientVars, socks>>
    BY <1>1, <1>2, SameWatch DEF watchState, watchVars, clientVars, listVars
  <1>3. CASE /\ open' = [open EXCEPT ![fd] = FALSE]
             /\ socks' = [socks EXCEPT !["http"] = NoFd]
             /\ UNCHANGED <<watchVars, clientVars>>
    <2>1. UNCHANGED <<sock, life, allFds, maxFd>>
      BY <1>3 DEF watchVars, clientVars, listVars
    <2>2. \A r \in Roles : socks'[r] # NoFd => r # "http" /\ socks'[r] = socks[r]
      BY <1>1, <1>3 DEF Roles
    <2>3. \A r \in ByNetwork : socks'[r] = socks[r]
      BY <1>1, <1>3 DEF ByNetwork, Roles
    <2>4. Kinds'
      BY <1>1, <1>3, <2>1 DEF WatchInv, Kinds, Roles
    <2>5. \A f \in Fds : f # fd => open'[f] = open[f]
      BY <1>3 DEF WatchInv, Kinds
    <2>6. OneOwner'
      BY <1>1, <2>1, <2>2, <2>5 DEF WatchInv, Kinds, OneOwner
    <2>7. Heard'
      BY <1>1, <2>1, <2>3 DEF WatchInv, Heard
    <2> QED
      BY <2>4, <2>6, <2>7 DEF WatchInv
  <1>4. CASE /\ NewClient(fd, allFds, maxFd, {fd})
             /\ socks' = [socks EXCEPT !["http"] = NoFd]
    <2>1. fd \in Fds
      <3>1. fd # NoFd
        BY DEF HttpInput
      <3> QED
        BY <1>1, <3>1
    <2>2. \A c \in Clients : sock[c] # fd
      BY <1>1, <2>1, FdsAssumption DEF NoFd
    <2>3. \A r \in Roles : socks'[r] # fd
      BY <1>1, <1>4, <2>1, FdsAssumption DEF NoFd
    <2> QED
      BY <1>1, <1>4, <2>1, <2>2, <2>3, Connecting DEF WatchInv, Kinds, Heard
  <1> QED
    BY <1>2, <1>3, <1>4 DEF HttpInput

(* The next HTTP connection gets a free descriptor, or the one before's.   *)
LEMMA HttpAcceptKeeps ==
  ASSUME WatchInv, HttpAccept
  PROVE  WatchInv'
  <1>1. UNCHANGED <<app, sock, life, allFds, maxFd>>
    BY DEF HttpAccept, watchVars, clientVars, listVars
  <1>2. CASE UNCHANGED <<kernelVars, socks>>
    BY <1>1, <1>2, SameWatch DEF watchState, kernelVars
  <1>3. CASE ~UNCHANGED <<kernelVars, socks>>
    <2> DEFINE old == {socks["http"]} \ {NoFd}
    <2>1. PICK fd \in (Fds \ Open) \cup old, accepted \in BOOLEAN :
            /\ open' = [f \in Fds |-> (open[f] /\ f \notin old) \/ (accepted /\ f = fd)]
            /\ socks' = [socks EXCEPT !["http"] = IF accepted THEN fd ELSE NoFd]
      BY <1>3 DEF HttpAccept
    <2>2. "http" \in Roles /\ ByNetwork \subseteq Roles \ {"http"} /\ "inetd" \in Roles \ {"http"}
      BY DEF Roles, ByNetwork
    <2>3. old \subseteq Fds /\ NoFd \notin Fds
      BY <2>2, FdsAssumption DEF WatchInv, Kinds, NoFd
    <2>4. fd \in Fds /\ fd # NoFd
      BY <2>3
    <2>5. \A r \in Roles : r # "http" => socks'[r] = socks[r]
      BY <2>1 DEF WatchInv, Kinds
    <2>6. socks'["http"] \in {fd, NoFd} /\ (socks'["http"] = fd => accepted)
      BY <2>1, <2>2, <2>4 DEF WatchInv, Kinds
    <2>7. \A c \in Clients : sock[c] # NoFd => sock[c] # fd /\ sock[c] \notin old
      BY <2>2 DEF WatchInv, Kinds, OneOwner, Open
    <2>8. \A r \in Roles : r # "http" /\ socks[r] # NoFd => socks[r] # fd /\ socks[r] \notin old
      BY <2>2 DEF WatchInv, Kinds, OneOwner, Open
    <2>9. Kinds'
      <3>1. socks' \in [Roles -> Fds \cup {NoFd}]
        BY <2>1, <2>4 DEF WatchInv, Kinds
      <3>2. open' \in [Fds -> BOOLEAN]
        <4> HIDE DEF old
        <4> QED
          BY <2>1
      <3> QED
        BY <1>1, <2>2, <2>5, <3>1, <3>2 DEF WatchInv, Kinds
    <2>10. \A f \in Fds : open[f] /\ f \notin old => open'[f]
      BY <2>1
    <2>11. OneOwner'
      <3>1. \A r, s \in Roles : socks'[r] # NoFd /\ socks'[r] = socks'[s] => r = s
        BY <2>5, <2>6, <2>8 DEF WatchInv, OneOwner
      <3>2. \A c \in Clients, r \in Roles : sock[c] # NoFd => sock[c] # socks'[r]
        BY <2>5, <2>6, <2>7 DEF WatchInv, OneOwner
      <3>3. \A c \in Clients : sock[c] # NoFd => open'[sock[c]]
        BY <2>7, <2>10 DEF WatchInv, Kinds, OneOwner
      <3>4. ASSUME NEW r \in Roles, socks'[r] # NoFd PROVE open'[socks'[r]]
        <4>1. CASE r = "http"
          BY <2>1, <2>4, <2>6, <3>4, <4>1
        <4>2. CASE r # "http"
          BY <2>5, <2>8, <2>10, <3>4, <4>2 DEF WatchInv, Kinds, OneOwner
        <4> QED
          BY <4>1, <4>2
      <3> QED
        BY <1>1, <3>1, <3>2, <3>3, <3>4 DEF WatchInv, OneOwner
    <2>12. Heard'
      BY <1>1, <2>2, <2>5 DEF WatchInv, Heard
    <2> QED
      BY <2>9, <2>11, <2>12 DEF WatchInv
  <1> QED
    BY <1>2, <1>3

LEMMA ShutdownKeeps ==
  ASSUME WatchInv, ShutdownSockets
  PROVE  WatchInv'
  <1>1. /\ UNCHANGED <<app, sock, life, maxFd>>
        /\ open' = [fd \in Fds |-> open[fd] /\ fd \notin InRole(Roles)]
        /\ allFds' = allFds \ InRole(Roles)
        /\ socks' = [r \in Roles |-> NoFd]
    BY DEF ShutdownSockets, clientVars, listVars
  <1>2. \A c \in Clients : sock[c] # NoFd => sock[c] \notin InRole(Roles)
    BY DEF InRole, WatchInv, OneOwner
  <1>3. \A r \in ByNetwork : r \in Roles /\ (socks[r] # NoFd => socks[r] \in InRole(Roles))
    BY DEF InRole, Roles, ByNetwork
  <1>4. Kinds'
    BY <1>1 DEF WatchInv, Kinds, Roles
  <1>5. OneOwner'
    BY <1>1, <1>2 DEF WatchInv, Kinds, OneOwner
  <1>6. Heard'
    <2>1. NoFd \notin allFds
      BY FdsAssumption DEF WatchInv, Kinds, NoFd
    <2>2. \A fd \in allFds' : ~ \E r \in ByNetwork : socks[r] = fd
      BY <1>1, <1>3, <2>1
    <2> QED
      BY <1>1, <1>2, <1>3, <2>2 DEF WatchInv, Heard
  <1> QED
    BY <1>4, <1>5, <1>6 DEF WatchInv

-----------------------------------------------------------------------------
LEMMA GoneFreesOne ==
  ASSUME ListTypeOK, NEW c \in Clients, Gone(c)
  PROVE  /\ life' \in [Clients -> {"none", "linked", "unlinked", "freed"}]
         /\ \A d \in Clients : life'[d] = "none" => life[d] = "none"
  BY DEF ListTypeOK, Gone

LEMMA WatchStep ==
  ASSUME ListTypeOK, Stands, WatchInv, NoFd \notin fds, Next
  PROVE  WatchInv'
  <1> USE DEF screenVars
  <1>1. CASE UNCHANGED <<app, socks, kernelVars, watchVars, clientVars>>
    BY <1>1, SameWatch DEF watchState, kernelVars, watchVars, clientVars, listVars
  <1>2. ASSUME NEW D \in SUBSET Clients, CloseClients(D, {}), UNCHANGED <<app, socks, listVars>>
        PROVE  WatchInv'
    BY <1>2, Closing DEF WatchInv, Kinds, listVars
  <1>3. CASE Arrives
    BY <1>3, SameWatch DEF Arrives, watchState, watchVars, clientVars, listVars
  <1>4. CASE AppActs
    BY <1>1, <1>4, ClosingOrConnecting DEF AppActs, ShutsDown
  <1>5. CASE StartOnHoldClient
    BY <1>5, SameWatch DEF StartOnHoldClient, watchState, kernelVars, watchVars, listVars
  <1>6. CASE RefuseOnHoldClient
    <2>1. PICK c \in Clients : CloseClients({c}, {}) /\ Gone(c) /\ UNCHANGED <<app, socks>>
      BY <1>6 DEF RefuseOnHoldClient, InList
    <2> QED
      BY <2>1, Closing, GoneFreesOne
  <1>7. CASE InetdClient
    BY <1>7 DEF InetdClient, WatchInv, Kinds
  <1>8. CASE SelectTimesOut
    <2>1. PICK D \in SUBSET Clients : CloseClients(D, {})
      BY <1>8 DEF SelectTimesOut, Connected
    <2> QED
      BY <1>2, <1>8, <2>1 DEF SelectTimesOut
  <1>9. CASE ConnectionAccepted
    <2>1. PICK fd \in Fds : LowestFree(fd) /\ NewClient(fd, allFds, maxFd, {Chosen})
      BY <1>9 DEF ConnectionAccepted
    <2>2. fd \notin Open
      BY <2>1 DEF LowestFree
    <2> QED
      BY <1>9, <2>1, <2>2, NotOpenNotOwned, Connecting
         DEF ConnectionAccepted, WatchInv, Kinds, Heard
  <1>10. CASE ClientMessage
    <2>1. UNCHANGED <<app, socks>>
      BY <1>10 DEF ClientMessage
    <2> QED
      BY <1>10, <2>1, SameWatch, ClosingOrConnecting
         DEF ClientMessage, ShutsDown, watchState, kernelVars, watchVars, clientVars, listVars
  <1>11. CASE ClientChunk
    <2>1. at \in Clients
      BY <1>11 DEF ClientChunk, Stands
    <2>2. PICK D \in {{}, {at}} : CloseClients(D, {})
      BY <1>11 DEF ClientChunk
    <2> QED
      BY <1>2, <1>11, <2>1, <2>2 DEF ClientChunk
  <1>12. CASE UpdateClient
    BY <1>1, <1>12, ClosingOrConnecting DEF UpdateClient, ShutsDown
  <1>13. CASE RemoveClosed
    <2>1. at \in Clients /\ UNCHANGED <<app, socks, sock, open, allFds, maxFd>>
      BY <1>13 DEF RemoveClosed, Stands, kernelVars, watchVars
    <2>2. CASE UNCHANGED listVars
      BY <2>1, <2>2, SameWatch DEF watchState, listVars
    <2>3. CASE Gone(at)
      BY <2>1, <2>3, GoneFreesOne DEF WatchInv, Kinds, OneOwner, Heard
    <2> QED
      BY <1>13, <2>2, <2>3 DEF RemoveClosed
  <1>14. CASE Disconnect
    <2>1. gone \in Clients
      BY <1>14 DEF Disconnect, Stands
    <2> QED
      BY <1>14, <2>1, Closing, GoneFreesOne DEF Disconnect
  <1>15. CASE HttpInput \/ HttpAccept \/ ShutdownSockets
    BY <1>15, HttpInputKeeps, HttpAcceptKeeps, ShutdownKeeps
  <1>16. CASE \/ ProcessEvents \/ SelectFails \/ Select
              \/ (\E r \in {"listen", "listen6", "udp"} : NotReady(r))
    BY <1>1, <1>16 DEF ProcessEvents, SelectFails, Select, NotReady
  <1>17. CASE ConnectionDenied \/ UdpClientArrives \/ Datagram
    BY <1>17, SameWatch DEF ConnectionDenied, UdpClientArrives, Datagram, watchState,
                            kernelVars, watchVars, clientVars, listVars
  <1>18. CASE SkipClient \/ ClientsDone \/ HttpSelect \/ HttpNoInput
    BY <1>1, <1>18 DEF SkipClient, ClientsDone, HttpSelect, HttpNoInput
  <1>19. CASE UpdatedFreed \/ PassDone \/ SkipClosed
    BY <1>1, <1>19 DEF UpdatedFreed, PassDone, SkipClosed
  <1> QED
    BY <1>3, <1>4, <1>5, <1>6, <1>7, <1>8, <1>9, <1>10, <1>11, <1>12, <1>13, <1>14, <1>15,
       <1>16, <1>17, <1>18, <1>19 DEF Next, Pass

(* What select has returned are descriptors. *)
LEMMA FdsStep ==
  ASSUME Kinds, NoFd \notin fds, Next
  PROVE  NoFd \notin fds'
  <1> USE DEF Goto, passVars
  <1>1. CASE Arrives \/ AppActs \/ StartOnHoldClient \/ RefuseOnHoldClient
    BY <1>1 DEF Arrives, AppActs, StartOnHoldClient, RefuseOnHoldClient, ShutsDown
  <1>2. CASE ProcessEvents \/ InetdClient \/ SelectFails \/ SelectTimesOut
    BY <1>2 DEF ProcessEvents, InetdClient, SelectFails, SelectTimesOut
  <1>3. CASE Select
    BY <1>3, FdsAssumption DEF Select, Watched, Kinds, NoFd
  <1>4. CASE \/ (\E r \in {"listen", "listen6", "udp"} : NotReady(r))
             \/ ConnectionDenied \/ ConnectionAccepted \/ UdpClientArrives \/ Datagram
    BY <1>4 DEF NotReady, ConnectionDenied, ConnectionAccepted, UdpClientArrives, Datagram,
                Dealt
  <1>5. CASE SkipClient \/ ClientMessage \/ ClientChunk \/ ClientsDone
    BY <1>5 DEF SkipClient, ClientMessage, ClientChunk, ClientsDone, MovesOn, ShutsDown
  <1>6. CASE HttpSelect \/ HttpNoInput \/ HttpInput \/ HttpAccept
    BY <1>6 DEF HttpSelect, HttpNoInput, HttpInput, HttpAccept, HttpReadable, InRole
  <1>7. CASE UpdateClient \/ RemoveClosed \/ UpdatedFreed \/ PassDone
    BY <1>7 DEF UpdateClient, RemoveClosed, UpdatedFreed, PassDone, ShutsDown
  <1>8. CASE SkipClosed \/ Disconnect \/ ShutdownSockets
    BY <1>8 DEF SkipClosed, Disconnect, ShutdownSockets
  <1> QED
    BY <1>1, <1>2, <1>3, <1>4, <1>5, <1>6, <1>7, <1>8 DEF Next, Pass

LEMMA AppStays == Next => app' = app
  BY DEF Next, Pass, Arrives, AppActs, StartOnHoldClient, RefuseOnHoldClient, ProcessEvents,
         InetdClient, SelectFails, SelectTimesOut, Select, NotReady, ConnectionDenied,
         ConnectionAccepted, UdpClientArrives, Datagram, SkipClient, ClientMessage,
         ClientChunk, ClientsDone, HttpSelect, HttpNoInput, HttpInput, HttpAccept,
         UpdateClient, RemoveClosed, UpdatedFreed, PassDone, SkipClosed, Disconnect,
         ShutdownSockets

LEMMA EventStep == EventInv /\ [Next]_vars => EventInv'
  <1> SUFFICES ASSUME EventInv, [Next]_vars PROVE EventInv'
    OBVIOUS
  <1>1. CASE Next
    BY <1>1, ListKept, StandsKept, WatchStep, FdsStep, AppStays DEF EventInv, WatchInv
  <1>2. CASE UNCHANGED vars
    <2>1. UNCHANGED <<watchState, listVars, pc, fds, at, back, gone>>
      BY <1>2 DEF vars, kernelVars, watchVars, screenVars, clientVars, passVars, listVars,
                  watchState
    <2>2. WatchInv => WatchInv'
      BY <2>1, SameWatch
    <2>3. ListTypeOK' /\ Stands'
      BY <2>1 DEF EventInv, ListTypeOK, Stands, listVars
    <2> QED
      BY <2>1, <2>2, <2>3 DEF EventInv, watchState
  <1> QED
    BY <1>1, <1>2

(* Whoever connects, in whichever way, and is closed, by whomever and      *)
(* wherever in a pass: what is watched are the open sockets of the screen  *)
(* and of the connected clients, each of one owner.                        *)
THEOREM WatchesRightSockets == Spec => []("inetd" \notin app.roles => WatchedSockets)
  <1>1. EventInv => ("inetd" \notin app.roles => WatchedSockets)
    BY WatchedIfInv DEF EventInv
  <1> QED
    BY <1>1, EventInit, EventStep, PTL DEF Spec

-----------------------------------------------------------------------------
(***************************************************************************)
(* The list: whoever rfbProcessEvents or rfbShutdownServer stands on is    *)
(* still in it, although messages, callbacks and hooks close and link      *)
(* clients behind its back.                                                *)
(***************************************************************************)
ListSound == ListTypeOK /\ ListWellFormed /\ Ranked /\ Connected \subseteq InList

LifeInv ==
    /\ ListSound
    /\ pc \in {"clients", "update"} => at \in InList \cup {Null}
    /\ pc = "updated" \/ (pc = "shutdown" /\ back \in {"clients", "updated"})
         => at \in Clients /\ life[at] \in {"linked", "freed"}
    /\ pc = "shutdown" => gone \in InList \cup {Null} /\ back \in {"idle", "clients", "updated"}
    /\ Careful => /\ pc # "lost"
                  /\ pc = "updated" => life[at] = "linked"
                  /\ pc = "shutdown" => back = "idle"

(* A connection arrives: nobody leaves the list. *)
Grows == InList \subseteq InList' /\ \A c \in Clients : life[c] = "freed" => life'[c] = "freed"

LEMMA ConnectingLife ==
  ASSUME ListSound, NEW fd, NEW W, NEW m, NEW K, NewClient(fd, W, m, K)
  PROVE  ListSound' /\ Grows
  <1>1. ListTypeOK'
    BY NewClientKeepsList DEF ListSound
  <1>2. PICK c \in Clients : \/ ClientStays(c, fd, W, m, K)
                             \/ ClientGoesAtOnce(c, fd, W, m, K)
                             \/ NonBlockingFails(c, fd, W, m, K)
    BY DEF NewClient
  <1>3. CASE ClientStays(c, fd, W, m, K)
    <2>1. LinkClient(c)
      BY <1>3 DEF ClientStays
    <2>2. ListWellFormed' /\ Ranked'
      BY <2>1, LinkKeepsList DEF ListSound
    <2>3. InList' = InList \cup {c} /\ Grows
      BY <2>1 DEF LinkClient, InList, ListSound, ListTypeOK, Grows
    <2>4. Connected' \subseteq Connected \cup {c}
      BY <1>3 DEF ClientStays, Connected
    <2> QED
      BY <1>1, <2>2, <2>3, <2>4 DEF ListSound
  <1>4. CASE ClientGoesAtOnce(c, fd, W, m, K) \/ NonBlockingFails(c, fd, W, m, K)
    <2>1. /\ UNCHANGED <<clientHead, next, prev, sock>>
          /\ life[c] = "none" /\ life' = [life EXCEPT ![c] = "freed"]
      BY <1>4 DEF ClientGoesAtOnce, NonBlockingFails
    <2>2. InList' = InList /\ Grows
      BY <2>1 DEF InList, ListSound, ListTypeOK, Grows
    <2> QED
      BY <1>1, <2>1, <2>2 DEF ListSound, ListWellFormed, Ranked, Connected
  <1> QED
    BY <1>2, <1>3, <1>4

LEMMA ClosingLife ==
  ASSUME ListSound, NEW D, NEW K, CloseClients(D, K), UNCHANGED listVars
  PROVE  ListSound' /\ Grows
  <1>1. Connected' \subseteq Connected /\ InList' = InList
    BY DEF CloseClients, Connected, InList, listVars
  <1>2. ListTypeOK' /\ ListWellFormed' /\ Ranked' /\ Grows
    BY <1>1 DEF ListSound, ListTypeOK, ListWellFormed, Ranked, Grows, listVars
  <1> QED
    BY <1>1, <1>2 DEF ListSound

LEMMA CallbackLife ==
  ASSUME ListSound, NEW K, ClosesOrConnects(K)
  PROVE  ListSound' /\ Grows
  BY ClosingLife, ConnectingLife DEF ClosesOrConnects, Connects

LEMMA SameLife ==
  ASSUME ListSound, UNCHANGED <<listVars, sock>>
  PROVE  ListSound' /\ Grows
  BY DEF ListSound, ListTypeOK, ListWellFormed, Ranked, Grows, InList, Connected, listVars

(* rfbClientConnectionGone of a client of the list without a socket *)
LEMMA GoneLife ==
  ASSUME ListSound, NEW c \in InList, Gone(c), sock'[c] = NoFd,
         \A d \in Clients : sock'[d] # NoFd => sock[d] # NoFd
  PROVE  /\ ListSound' /\ InList' = InList \ {c}
         /\ next[c] \in (InList \ {c}) \cup {Null}
  <1>1. c \in Clients
    BY DEF InList
  <1>2. ListTypeOK'
    BY <1>1, GoneKeepsList DEF ListSound
  <1>3. InList' = InList \ {c}
    BY <1>1 DEF Gone, InList, ListSound, ListTypeOK
  <1>4. ListWellFormed' /\ Ranked'
    BY <1>3, UnlinkKeepsList DEF ListSound, Gone
  <1>5. Connected' \subseteq Connected \ {c}
    BY DEF Connected
  <1>6. next[c] \in (InList \ {c}) \cup {Null}
    BY DEF ListSound, ListWellFormed
  <1> QED
    BY <1>2, <1>3, <1>4, <1>5, <1>6 DEF ListSound

(* A step after which nobody stands on a client. *)
OffList == pc \notin {"clients", "update", "updated", "shutdown", "lost"}

LEMMA LifeStep ==
  ASSUME LifeInv, Next
  PROVE  LifeInv'
  <1>1. Careful' = Careful
    BY AppStays DEF Careful
  <1>2. ASSUME ListSound', OffList' PROVE LifeInv'
    BY <1>2 DEF LifeInv, OffList
  <1>3. clientHead \in InList \cup {Null} /\ InList \subseteq Clients
    BY DEF LifeInv, ListSound, ListWellFormed, InList
  <1>4. \A c \in InList : life[c] = "linked" /\ next[c] \in InList \cup {Null}
    BY DEF LifeInv, ListSound, ListWellFormed, InList
  <1> USE DEF clientVars, Goto, passVars
  <1>5. CASE Arrives \/ StartOnHoldClient
    <2>1. UNCHANGED <<listVars, sock, pc, at, back, gone>>
      BY <1>5 DEF Arrives, StartOnHoldClient
    <2>2. ListSound'
      BY <2>1, SameLife DEF LifeInv
    <2> QED
      BY <1>1, <2>1, <2>2 DEF LifeInv, InList, listVars
  <1>6. CASE AppActs
    <2>1. CASE ClosesOrConnects({}) /\ UNCHANGED passVars
      BY <1>2, <1>6, <2>1, CallbackLife DEF AppActs, LifeInv, OffList
    <2>2. CASE ShutsDown("idle")
      <3>1. ListSound' /\ InList' = InList
        BY <2>2, SameLife DEF ShutsDown, LifeInv, InList, listVars
      <3> QED
        BY <1>1, <1>3, <2>2, <3>1 DEF ShutsDown, LifeInv
    <2> QED
      BY <1>6, <2>1, <2>2 DEF AppActs
  <1>7. CASE RefuseOnHoldClient
    <2>1. PICK c \in InList : CloseClients({c}, {}) /\ Gone(c)
      BY <1>7 DEF RefuseOnHoldClient
    <2>2. ListSound'
      BY <1>3, <2>1, GoneLife DEF CloseClients, LifeInv
    <2> QED
      BY <1>2, <1>7, <2>2 DEF RefuseOnHoldClient, OffList
  <1>8. CASE ProcessEvents \/ SelectFails \/ Select \/ ConnectionDenied
    <2>1. UNCHANGED <<listVars, sock>> /\ OffList'
      BY <1>8 DEF ProcessEvents, SelectFails, Select, ConnectionDenied, OffList
    <2> QED
      BY <1>2, <2>1, SameLife DEF LifeInv
  <1>9. CASE InetdClient
    <2>1. ListSound'
      BY <1>9, ConnectingLife DEF InetdClient, LifeInv
    <2> QED
      BY <1>2, <1>9, <2>1 DEF InetdClient, OffList
  <1>10. CASE SelectTimesOut
    <2>1. ListSound'
      BY <1>10, ClosingLife DEF SelectTimesOut, LifeInv
    <2> QED
      BY <1>2, <1>10, <2>1 DEF SelectTimesOut, OffList
  <1>11. CASE ConnectionAccepted
    <2>1. ListSound'
      BY <1>11, ConnectingLife DEF ConnectionAccepted, LifeInv
    <2> QED
      BY <1>2, <1>11, <2>1 DEF ConnectionAccepted, Dealt, NextAfter, OffList
  <1>12. CASE (\E r \in {"listen", "listen6", "udp"} : NotReady(r)) \/ Datagram \/ SkipClient
               \/ ClientsDone
    <2>1. UNCHANGED <<listVars, sock>> /\ ListSound' /\ InList' = InList
      BY <1>12, SameLife DEF NotReady, Datagram, SkipClient, ClientsDone, LifeInv, InList,
                             listVars
    <2>2. \/ OffList'
          \/ pc' = "clients" /\ at' \in InList \cup {Null}
      BY <1>3, <1>4, <1>12 DEF NotReady, Datagram, SkipClient, ClientsDone, NextAfter,
                               OffList, LifeInv
    <2> QED
      BY <1>2, <2>1, <2>2 DEF LifeInv
  <1>13. CASE UdpClientArrives
    <2>1. UNCHANGED <<listVars, sock>> /\ ListSound'
      BY <1>13, SameLife DEF UdpClientArrives, LifeInv
    <2>2. OffList' \/ (pc' = "lost" /\ ~Careful)
      BY <1>13 DEF UdpClientArrives, Careful, OffList
    <2> QED
      BY <1>1, <1>2, <2>1, <2>2 DEF LifeInv
  <1>14. ASSUME pc = "clients", at # Null, ListSound', Grows, MovesOn(at)
         PROVE  LifeInv'
    <2>1. at \in InList /\ at \in InList'
      BY <1>14 DEF LifeInv, Grows
    <2>2. life'[at] = "linked" /\ next'[at] \in InList' \cup {Null}
      BY <1>14, <2>1 DEF InList, ListSound, ListWellFormed
    <2>3. pc' = "clients" /\ at' = next'[at]
      BY <1>14, <2>2 DEF MovesOn
    <2> QED
      BY <1>14, <2>2, <2>3 DEF LifeInv
  <1>15. ASSUME NEW from \in {"clients", "updated"}, ShutsDown(from), app.shutsInCallback,
                at \in InList
         PROVE  LifeInv'
    <2>1. ListSound' /\ InList' = InList /\ life' = life
      BY <1>15, SameLife DEF ShutsDown, LifeInv, InList, listVars
    <2> QED
      BY <1>1, <1>3, <1>4, <1>15, <2>1 DEF ShutsDown, LifeInv, Careful
  <1>16. CASE ClientMessage
    <2>1. pc = "clients" /\ at # Null /\ at \in InList
      BY <1>16 DEF ClientMessage, LifeInv
    <2>2. CASE UNCHANGED <<open, watchVars, clientVars>> /\ MovesOn(at)
      BY <1>14, <2>1, <2>2, SameLife DEF LifeInv
    <2>3. CASE ClosesOrConnects({sock[at]}) /\ MovesOn(at)
      BY <1>14, <2>1, <2>3, CallbackLife DEF LifeInv
    <2>4. CASE app.shutsInCallback /\ ShutsDown("clients")
      BY <1>15, <2>1, <2>4
    <2> QED
      BY <1>16, <2>2, <2>3, <2>4 DEF ClientMessage
  <1>17. CASE ClientChunk
    <2>1. ListSound' /\ Grows
      BY <1>17, ClosingLife DEF ClientChunk, LifeInv
    <2> QED
      BY <1>14, <1>17, <2>1 DEF ClientChunk
  <1>18. CASE HttpSelect \/ HttpNoInput \/ HttpAccept
    <2>1. UNCHANGED <<listVars, sock>> /\ ListSound' /\ InList' = InList
      BY <1>18, SameLife DEF HttpSelect, HttpNoInput, HttpAccept, LifeInv, InList, listVars
    <2>2. OffList' \/ (pc' = "update" /\ at' = clientHead)
      BY <1>18 DEF HttpSelect, HttpNoInput, HttpAccept, OffList
    <2> QED
      BY <1>2, <1>3, <2>1, <2>2 DEF LifeInv
  <1>19. CASE HttpInput
    <2>1. ListSound'
      BY <1>19, SameLife, ConnectingLife DEF HttpInput, LifeInv
    <2> QED
      BY <1>2, <1>19, <2>1 DEF HttpInput, OffList
  <1>20. CASE UpdateClient
    <2>1. pc = "update" /\ at \in InList
      BY <1>20 DEF UpdateClient, LifeInv
    <2>2. ASSUME ListSound', Grows, Goto("updated") PROVE LifeInv'
      <3>1. at' = at /\ pc' = "updated" /\ at \in InList' /\ life'[at] = "linked"
        BY <2>1, <2>2 DEF Grows, InList
      <3> QED
        BY <1>3, <2>1, <2>2, <3>1 DEF LifeInv
    <2>3. CASE UNCHANGED <<kernelVars, watchVars, clientVars, events>> /\ Goto("updated")
      BY <2>2, <2>3, SameLife DEF LifeInv
    <2>4. CASE ClosesOrConnects({}) /\ Goto("updated")
      BY <2>2, <2>4, CallbackLife DEF LifeInv
    <2>5. CASE app.shutsInCallback /\ ShutsDown("updated")
      BY <1>15, <2>1, <2>5
    <2> QED
      BY <1>20, <2>3, <2>4, <2>5 DEF UpdateClient
  <1>21. CASE RemoveClosed
    <2>1. at \in InList /\ pc' = "update" /\ at' = next[at] /\ UNCHANGED sock
      BY <1>21 DEF RemoveClosed, LifeInv, InList
    <2>2. CASE UNCHANGED listVars
      <3>1. ListSound' /\ InList' = InList
        BY <2>1, <2>2, SameLife DEF LifeInv, InList, listVars
      <3> QED
        BY <1>4, <2>1, <3>1 DEF LifeInv
    <2>3. CASE sock[at] = NoFd /\ Gone(at)
      <3>1. ListSound' /\ InList' = InList \ {at} /\ next[at] \in (InList \ {at}) \cup {Null}
        BY <2>1, <2>3, GoneLife DEF LifeInv
      <3> QED
        BY <2>1, <3>1 DEF LifeInv
    <2> QED
      BY <1>21, <2>2, <2>3 DEF RemoveClosed
  <1>22. CASE UpdatedFreed
    <2>1. ListSound' /\ pc' = "lost"
      BY <1>22, SameLife DEF UpdatedFreed, LifeInv
    <2>2. ~Careful
      BY <1>22 DEF UpdatedFreed, LifeInv
    <2> QED
      BY <1>1, <2>1, <2>2 DEF LifeInv
  <1>23. CASE PassDone
    BY <1>2, <1>23, SameLife DEF PassDone, LifeInv, OffList
  <1>24. CASE SkipClosed
    <2>1. ListSound' /\ InList' = InList /\ UNCHANGED <<pc, at, back, life>>
      BY <1>24, SameLife DEF SkipClosed, LifeInv, InList, listVars
    <2>2. pc = "shutdown" /\ gone \in InList /\ gone' \in InList \cup {Null}
      BY <1>4, <1>24 DEF SkipClosed, LifeInv
    <2> QED
      BY <1>1, <2>1, <2>2 DEF LifeInv
  <1>25. CASE Disconnect
    <2>1. pc = "shutdown" /\ gone \in InList /\ gone' = next[gone] /\ UNCHANGED <<pc, at, back>>
      BY <1>25 DEF Disconnect, LifeInv
    <2>2. CloseClients({gone}, {}) /\ Gone(gone)
      BY <1>25 DEF Disconnect
    <2>3. ListSound' /\ InList' = InList \ {gone}
          /\ next[gone] \in (InList \ {gone}) \cup {Null}
      BY <1>3, <2>1, <2>2, GoneLife DEF CloseClients, LifeInv
    <2>4. at \in Clients /\ life[at] \in {"linked", "freed"} => life'[at] \in {"linked", "freed"}
      BY <2>2 DEF Gone, LifeInv, ListSound, ListTypeOK
    <2> QED
      BY <1>1, <2>1, <2>3, <2>4 DEF LifeInv
  <1>26. CASE ShutdownSockets
    <2>1. ListSound' /\ InList' = InList /\ UNCHANGED <<life, at, back, gone>>
      BY <1>26, SameLife DEF ShutdownSockets, LifeInv, InList, listVars
    <2>2. back \in {"idle", "clients", "updated"} /\ pc = "shutdown"
      BY <1>26 DEF ShutdownSockets, LifeInv
    <2>3. CASE back = "clients" /\ life[at] = "freed"
      BY <1>1, <1>26, <2>1, <2>2, <2>3 DEF ShutdownSockets, LifeInv
    <2>4. CASE ~(back = "clients" /\ life[at] = "freed")
      <3>1. pc' = back
        BY <1>26, <2>4 DEF ShutdownSockets
      <3>2. back = "clients" => at \in InList
        BY <2>2, <2>4 DEF LifeInv, InList
      <3> QED
        BY <1>1, <2>1, <2>2, <3>1, <3>2 DEF LifeInv
    <2> QED
      BY <2>3, <2>4
  <1> QED
    BY <1>5, <1>6, <1>7, <1>8, <1>9, <1>10, <1>11, <1>12, <1>13, <1>16, <1>17, <1>18, <1>19,
       <1>20, <1>21, <1>22, <1>23, <1>24, <1>25, <1>26 DEF Next, Pass

LEMMA LifeInit == Init => LifeInv
  <1> SUFFICES ASSUME Init PROVE LifeInv
    OBVIOUS
  <1>1. ListTypeOK /\ ListWellFormed /\ Ranked
    BY EmptyListIsWellFormed DEF Init, ListInit, ListTypeOK
  <1>2. Connected = {}
    BY DEF Init, Connected
  <1> QED
    BY <1>1, <1>2 DEF Init, LifeInv, ListSound

LEMMA LifeStutters == LifeInv /\ UNCHANGED vars => LifeInv'
  <1> SUFFICES ASSUME LifeInv, UNCHANGED vars PROVE LifeInv'
    OBVIOUS
  <1>1. UNCHANGED <<listVars, sock, app, pc, at, back, gone>>
    BY DEF vars, clientVars, passVars
  <1>2. ListSound'
    BY <1>1, SameLife DEF LifeInv
  <1> QED
    BY <1>1, <1>2 DEF LifeInv, InList, Careful, listVars

(* Unless the application shuts the server down in a callback or refuses   *)
(* the pseudo client of the datagrams, no client is used after it has been *)
(* freed, and none keeps its socket when it leaves the list.               *)
THEOREM FreedIsNeverUsed == Spec => []NeverLost
  <1>1. LifeInv => NeverLost
    BY DEF LifeInv, ListSound, NeverLost, FreedNeverUsed
  <1>2. LifeInv /\ [Next]_vars => LifeInv'
    BY LifeStep, LifeStutters
  <1> QED
    BY <1>1, <1>2, LifeInit, PTL DEF Spec

-----------------------------------------------------------------------------
(***************************************************************************)
(* Reading: what select has found readable is still so when its client is  *)
(* come to.                                                                *)
(***************************************************************************)
Waiting(c) == sock[c] \in fds => sock[c] \in readable

LEMMA ClosingLeavesReadable ==
  ASSUME WatchInv, NoFd \notin fds, NEW D \in SUBSET Clients, NEW K, CloseClients(D, K),
         NEW c \in Clients, Waiting(c), sock[c] \notin K, fds' \subseteq fds
  PROVE  Waiting(c)'
  <1>1. CASE c \in D
    BY <1>1 DEF CloseClients, Waiting
  <1>2. CASE c \notin D
    <2>1. sock'[c] = sock[c] /\ readable' = readable \ (SocketsOf(D) \cup K)
      BY <1>2 DEF CloseClients
    <2>2. sock[c] \notin SocketsOf(D)
      BY <1>2 DEF SocketsOf, WatchInv, OneOwner
    <2> QED
      BY <2>1, <2>2 DEF Waiting
  <1> QED
    BY <1>1, <1>2

LEMMA ConnectingLeavesReadable ==
  ASSUME ListTypeOK, WatchInv, NoFd \notin fds, NEW fd \in Fds, fd \notin Open, NEW W, NEW m, NEW K,
         NewClient(fd, W, m, K), NEW c \in Clients, life[c] # "none", Waiting(c),
         sock[c] \notin K, fds' \subseteq fds
  PROVE  Waiting(c)' /\ next'[c] = next[c]
  <1>1. PICK n \in Clients : \/ ClientStays(n, fd, W, m, K)
                             \/ ClientGoesAtOnce(n, fd, W, m, K)
                             \/ NonBlockingFails(n, fd, W, m, K)
    BY DEF NewClient
  <1>2. n # c
    BY <1>1 DEF ClientStays, LinkClient, ClientGoesAtOnce, NonBlockingFails
  <1>3. sock[c] # fd
    BY NotOpenNotOwned
  <1>4. CASE ClientStays(n, fd, W, m, K)
    <2>1. PICK D \in SUBSET Connected :
            /\ sock' = [d \in Clients |-> IF d = n THEN fd ELSE IF d \in D THEN NoFd ELSE sock[d]]
            /\ readable' = readable \ (SocketsOf(D) \cup K)
      BY <1>4 DEF ClientStays
    <2>2. next'[c] = next[c]
      BY <1>2, <1>4 DEF ClientStays, LinkClient, ListTypeOK
    <2>3. c \in D => sock'[c] = NoFd
      BY <1>2, <2>1
    <2>4. c \notin D => sock'[c] = sock[c] /\ sock[c] \notin SocketsOf(D)
      BY <1>2, <2>1 DEF SocketsOf, Connected, WatchInv, OneOwner
    <2> QED
      BY <2>1, <2>2, <2>3, <2>4 DEF Waiting
  <1>5. CASE ClientGoesAtOnce(n, fd, W, m, K) \/ NonBlockingFails(n, fd, W, m, K)
    BY <1>3, <1>5 DEF ClientGoesAtOnce, NonBlockingFails, Waiting
  <1> QED
    BY <1>1, <1>4, <1>5

LEMMA CallbackLeavesReadable ==
  ASSUME ListTypeOK, WatchInv, NoFd \notin fds, NEW K, ClosesOrConnects(K), NEW c \in InList,
         Waiting(c), sock[c] \notin K, fds' \subseteq fds
  PROVE  Waiting(c)' /\ next'[c] = next[c]
  <1>1. c \in Clients /\ life[c] # "none"
    BY DEF InList
  <1>2. ASSUME NEW D \in SUBSET Connected, CloseClients(D, K), UNCHANGED <<listVars, onHold>>
        PROVE  Waiting(c)' /\ next'[c] = next[c]
    <2>1. D \in SUBSET Clients
      BY DEF Connected
    <2> QED
      BY <1>1, <1>2, <2>1, ClosingLeavesReadable DEF listVars
  <1>3. CASE Connects(K)
    <2>1. PICK fd \in Fds : LowestFree(fd)
                            /\ NewClient(fd, allFds \cup {fd}, AtLeast(fd, maxFd), K)
      BY <1>3 DEF Connects
    <2>2. fd \notin Open
      BY <2>1 DEF LowestFree
    <2> QED
      BY <1>1, <2>1, <2>2, ConnectingLeavesReadable
  <1> QED
    BY <1>2, <1>3 DEF ClosesOrConnects

(* From the client the walk stands on, it meets those only that are        *)
(* readable if select has found them so.                                   *)
Ahead == \E L \in SUBSET InList :
    /\ at \in InList => at \in L
    /\ \A c \in L : next[c] \in L \cup {Null} /\ Waiting(c)

ReadInv ==
    /\ ~blocked
    /\ \A r \in {"listen", "listen6"} : socks[r] # NoFd => r \in app.roles
    /\ pc \in {"listen", "listen6", "udp"} => \A c \in Clients : Waiting(c)
    /\ pc = "listen" \/ (pc = "listen6" /\ ~(app.hookCloses /\ "listen" \in app.roles))
         => fds \subseteq Open
    /\ pc = "clients" \/ (pc = "shutdown" /\ back = "clients") => Ahead

(* At the start of the walk everybody is ahead. *)
LEMMA WalkBegins ==
  ASSUME ListWellFormed, \A c \in InList : Waiting(c)
  PROVE  Ahead
  BY DEF Ahead, ListWellFormed

(* The walk leaves at and goes on to its next. *)
LEMMA WalkGoesOn ==
  ASSUME ListSound, ListSound', Ahead, at \in InList, at' = next[at], Grows,
         \A c \in InList : next'[c] = next[c],
         \A c \in InList : c # at /\ Waiting(c) => Waiting(c)'
  PROVE  Ahead'
  <1>1. PICK L \in SUBSET InList :
               at \in L /\ \A c \in L : next[c] \in L \cup {Null} /\ Waiting(c)
    BY DEF Ahead
  <1>2. PICK rank \in [Clients -> Nat] :
               \A c \in InList : next[c] # Null => rank[next[c]] < rank[c]
    BY DEF ListSound, Ranked
  <1> DEFINE M == {c \in L : rank[c] < rank[at]}
  <1>3. L \subseteq Clients /\ at \in Clients
    BY DEF InList
  <1>4. at' \in M \cup {Null}
    BY <1>1, <1>2
  <1>5. ASSUME NEW c \in M PROVE next'[c] \in M \cup {Null} /\ Waiting(c)'
    <2>1. c \in L /\ c \in InList /\ c \in Clients /\ rank[c] < rank[at] /\ c # at
      BY <1>3
    <2>2. next[c] \in M \cup {Null}
      <3>1. CASE next[c] = Null
        BY <3>1
      <3>2. CASE next[c] # Null
        <4>1. next[c] \in L /\ next[c] \in Clients /\ rank[next[c]] < rank[c]
          BY <1>1, <1>2, <1>3, <2>1, <3>2
        <4>2. rank[next[c]] \in Nat /\ rank[c] \in Nat /\ rank[at] \in Nat
          BY <1>3, <2>1, <4>1
        <4> QED
          BY <2>1, <4>1, <4>2
      <3> QED
        BY <3>1, <3>2
    <2> QED
      BY <1>1, <2>1, <2>2
  <1>6. M \in SUBSET InList' /\ Null \notin InList'
    BY NullAssumption DEF Grows, InList
  <1> HIDE DEF M
  <1> QED
    BY <1>4, <1>5, <1>6 DEF Ahead

(* Whoever else is in the list, nothing is moved for those ahead. *)
LEMMA WalkStands ==
  ASSUME Ahead, UNCHANGED <<listVars, at>>, \A c \in InList : Waiting(c) => Waiting(c)'
  PROVE  Ahead'
  <1>1. InList' = InList /\ UNCHANGED next
    BY DEF InList, listVars
  <1> QED
    BY <1>1 DEF Ahead

LEMMA RolesStay ==
  ASSUME WatchInv, Next
  PROVE  \A r \in {"listen", "listen6"} : socks'[r] \in {socks[r], NoFd}
  <1> USE DEF screenVars
  <1>1. CASE UNCHANGED socks
    BY <1>1
  <1>2. CASE HttpInput \/ HttpAccept \/ ShutdownSockets
    BY <1>2 DEF HttpInput, HttpAccept, ShutdownSockets, WatchInv, Kinds, Roles
  <1> QED
    BY <1>1, <1>2
       DEF Next, Pass, Arrives, AppActs, StartOnHoldClient, RefuseOnHoldClient, ProcessEvents,
           InetdClient, SelectFails, SelectTimesOut, Select, NotReady, ConnectionDenied,
           ConnectionAccepted, UdpClientArrives, Datagram, SkipClient, ClientMessage,
           ClientChunk, ClientsDone, HttpSelect, HttpNoInput, UpdateClient, RemoveClosed,
           UpdatedFreed, PassDone, SkipClosed, Disconnect

(* Only a message that is read can block. *)
LEMMA BlockedStays ==
  ASSUME Next, ~ClientMessage
  PROVE  blocked' = blocked
  BY DEF Next, Pass, Arrives, AppActs, StartOnHoldClient, RefuseOnHoldClient, ProcessEvents,
         InetdClient, SelectFails, SelectTimesOut, Select, NotReady, ConnectionDenied,
         ConnectionAccepted, UdpClientArrives, Datagram, SkipClient, ClientChunk, ClientsDone,
         HttpSelect, HttpNoInput, HttpInput, HttpAccept, UpdateClient, RemoveClosed,
         UpdatedFreed, PassDone, SkipClosed, Disconnect, ShutdownSockets

OffWalk == /\ pc \notin {"listen", "listen6", "udp", "clients"}
           /\ ~(pc = "shutdown" /\ back = "clients")

(* A connection is accepted after select and before the walk. *)
LEMMA AcceptedIsNotRead ==
  ASSUME WatchInv, LifeInv, NoFd \notin fds, ~Reuses, ReadInv, ConnectionAccepted
  PROVE  /\ \A c \in Clients : Waiting(c)'
         /\ pc = "listen" /\ ~app.hookCloses => fds' \subseteq Open'
  <1>1. pc \in {"listen", "listen6"} /\ socks[pc] \in fds /\ fds' \subseteq fds
    BY DEF ConnectionAccepted, AtListener, Dealt
  <1>2. pc \in app.roles
    BY <1>1 DEF ReadInv
  <1>3. fds \subseteq Open
    BY <1>1, <1>2 DEF ReadInv, Reuses
  <1>4. PICK fd \in Fds : LowestFree(fd) /\ NewClient(fd, allFds, maxFd, {Chosen})
    BY DEF ConnectionAccepted
  <1>5. fd \notin Open /\ fd \notin fds'
    BY <1>1, <1>3, <1>4 DEF LowestFree
  <1>6. \A c \in Clients : sock[c] \in fds => sock[c] # Chosen
    BY DEF WatchInv, Kinds, OneOwner, Chosen, Roles
  <1>7. ASSUME NEW c \in Clients PROVE Waiting(c)'
    <2>1. Waiting(c)
      BY <1>1, <1>7 DEF ReadInv
    <2>2. CASE life[c] # "none" /\ sock[c] \in fds
      BY <1>1, <1>4, <1>5, <1>6, <1>7, <2>1, <2>2, ConnectingLeavesReadable
         DEF LifeInv, ListSound
    <2>3. CASE ~(life[c] # "none" /\ sock[c] \in fds)
      <3>1. sock[c] \notin fds
        BY <1>7, <2>3 DEF WatchInv, OneOwner
      <3>2. sock'[c] \in {sock[c], fd, NoFd}
        BY <1>4, <1>7 DEF NewClient, ClientStays, ClientGoesAtOnce, NonBlockingFails
      <3> QED
        BY <1>1, <1>5, <3>1, <3>2 DEF Waiting
    <2> QED
      BY <2>2, <2>3
  <1>8. ASSUME ~app.hookCloses PROVE fds' \subseteq Open'
    <2>1. SocketsOf({}) = {}
      BY DEF SocketsOf
    <2>2. \A f \in Fds : f # fd => open'[f] = open[f]
      BY <1>4, <1>8, <2>1
         DEF NewClient, ClientStays, ClientGoesAtOnce, NonBlockingFails, WatchInv, Kinds
    <2> QED
      BY <1>1, <1>3, <1>5, <2>2 DEF Open
  <1> QED
    BY <1>7, <1>8

(* rfbShutdownServer disconnects and removes a client under the walk. *)
LEMMA DisconnectUnderWalk ==
  ASSUME WatchInv, LifeInv, NoFd \notin fds, Ahead, Disconnect
  PROVE  Ahead'
  <1>1. /\ gone \in InList /\ CloseClients({gone}, {}) /\ Gone(gone)
        /\ UNCHANGED <<fds, at>>
    BY DEF Disconnect, LifeInv
  <1>2. InList' = InList \ {gone} /\ next[gone] # gone
    BY <1>1 DEF Gone, InList, LifeInv, ListSound, ListTypeOK, ListWellFormed
  <1>3. PICK L \in SUBSET InList : /\ at \in InList => at \in L
                                   /\ \A c \in L : next[c] \in L \cup {Null} /\ Waiting(c)
    BY DEF Ahead
  <1>4. ASSUME NEW c \in L \ {gone}
        PROVE  next'[c] \in (L \ {gone}) \cup {Null} /\ Waiting(c)'
    <2>1. c \in Clients /\ gone \in Clients /\ c \in InList
      BY <1>1 DEF InList
    <2>2. next'[c] = IF c = prev[gone] THEN next[gone] ELSE next[c]
      BY <1>1, <2>1 DEF Gone
    <2>3. next[c] = gone => c = prev[gone]
      BY <1>1, <2>1, NullAssumption DEF LifeInv, ListSound, ListWellFormed
    <2>4. c = prev[gone] => next[c] = gone
      BY <1>1, <2>1, NullAssumption DEF LifeInv, ListSound, ListWellFormed
    <2>5. next[c] \in L \cup {Null} /\ Waiting(c) /\ (next[c] = gone => next[gone] \in L \cup {Null})
      BY <1>1, <1>3, <2>1, NullAssumption
    <2>6. Waiting(c)'
      BY <1>1, <2>1, <2>5, ClosingLeavesReadable
    <2> QED
      BY <1>2, <2>2, <2>3, <2>4, <2>5, <2>6
  <1> DEFINE M == L \ {gone}
  <1>5. M \in SUBSET InList' /\ (at' \in InList' => at' \in M)
    BY <1>1, <1>2, <1>3
  <1>6. \A c \in M : next'[c] \in M \cup {Null} /\ Waiting(c)'
    BY <1>4
  <1> HIDE DEF M
  <1> QED
    BY <1>5, <1>6 DEF Ahead

LEMMA ReadStep ==
  ASSUME LifeInv, WatchInv, NoFd \notin fds, ~Reuses, ReadInv, Next, LifeInv'
  PROVE  ReadInv'
  <1>1. app' = app /\ \A r \in {"listen", "listen6"} : socks'[r] # NoFd => r \in app'.roles
    BY AppStays, RolesStay DEF ReadInv
  <1>2. ASSUME OffWalk', ~ClientMessage PROVE ReadInv'
    BY <1>1, <1>2, BlockedStays DEF ReadInv, OffWalk
  <1> USE DEF clientVars, Goto, passVars
  <1>3. CASE Arrives \/ StartOnHoldClient
    <2>1. /\ UNCHANGED <<listVars, sock, socks, open, fds, pc, at, back, gone, blocked>>
          /\ readable \subseteq readable'
      BY <1>3 DEF Arrives, StartOnHoldClient, kernelVars, screenVars
    <2>2. \A c \in Clients : Waiting(c) => Waiting(c)'
      BY <2>1 DEF Waiting
    <2>3. Ahead => Ahead'
      BY <2>1, <2>2, WalkStands DEF InList
    <2> QED
      BY <1>1, <2>1, <2>2, <2>3 DEF ReadInv, Open
  <1>4. CASE AppActs \/ RefuseOnHoldClient \/ ProcessEvents \/ SelectFails \/ SelectTimesOut
             \/ ConnectionDenied
    <2>1. OffWalk' /\ ~ClientMessage
      BY <1>4 DEF AppActs, RefuseOnHoldClient, ShutsDown, ProcessEvents, SelectFails, CanSelect,
                  SelectTimesOut, ConnectionDenied, ClientMessage, OffWalk, AtListener
    <2> QED
      BY <1>2, <2>1
  <1>5. CASE InetdClient
    BY <1>5 DEF InetdClient, WatchInv, Kinds
  <1>6. CASE Select
    <2>1. /\ pc' = "listen" /\ fds' = Watched \cap readable /\ Watched \subseteq Open
          /\ UNCHANGED <<open, readable, sock, blocked>>
      BY <1>6 DEF Select, kernelVars
    <2>2. \A c \in Clients : Waiting(c)'
      BY <2>1 DEF Waiting
    <2> QED
      BY <1>1, <2>1, <2>2 DEF ReadInv, Open
  <1>7. ASSUME NEW r \in {"listen", "listen6", "udp"}, NotReady(r) PROVE ReadInv'
    <2>1. pc = r /\ UNCHANGED <<app, listVars, sock, socks, open, readable, fds, back, blocked>>
      BY <1>7 DEF NotReady, NextAfter, kernelVars, screenVars
    <2>2. \A c \in Clients : Waiting(c) /\ Waiting(c)'
      BY <1>7, <2>1 DEF ReadInv, Waiting
    <2>3. CASE r = "udp"
      <3>1. pc' = "clients" /\ ListWellFormed'
        BY <1>7, <2>3 DEF NotReady, LifeInv, ListSound
      <3>2. at' = clientHead'
        BY <1>7, <2>1, <2>3 DEF NotReady, listVars
      <3>3. Ahead'
        <4>1. \A c \in InList' : next'[c] \in InList' \cup {Null} /\ Waiting(c)'
          BY <2>2, <3>1 DEF ListWellFormed, InList
        <4> QED
          BY <4>1 DEF Ahead
      <3> QED
        BY <1>1, <2>1, <3>1, <3>3 DEF ReadInv
    <2>4. CASE r = "listen"
      <3>1. pc' = "listen6" /\ fds' \subseteq Open'
        BY <1>7, <2>1, <2>4 DEF NotReady, NextAfter, ReadInv, Open
      <3> QED
        BY <1>1, <2>1, <2>2, <3>1 DEF ReadInv
    <2>5. CASE r = "listen6"
      <3>1. pc' = "udp"
        BY <1>7, <2>5 DEF NotReady, NextAfter
      <3> QED
        BY <1>1, <2>1, <2>2, <3>1 DEF ReadInv
    <2> QED
      BY <2>3, <2>4, <2>5
  <1>8. CASE ConnectionAccepted
    <2>1. ~ClientMessage /\ pc \in {"listen", "listen6"} /\ socks[pc] \in fds
      BY <1>8 DEF ConnectionAccepted, AtListener, ClientMessage
    <2>2. pc' \in {NextAfter(pc), "http"}
      BY <1>8 DEF ConnectionAccepted, Dealt
    <2>3. pc = "listen" => "listen" \in app.roles
      BY <2>1 DEF ReadInv
    <2>4. blocked' = blocked
      BY <2>1, BlockedStays
    <2>5. CASE pc' = "listen6"
      <3>1. pc = "listen" /\ (~app.hookCloses => fds' \subseteq Open')
        BY <1>8, <2>1, <2>2, <2>5, AcceptedIsNotRead DEF NextAfter
      <3> QED
        BY <1>1, <1>8, <2>3, <2>4, <2>5, <3>1, AcceptedIsNotRead DEF ReadInv
    <2>6. CASE pc' = "udp"
      BY <1>1, <1>8, <2>4, <2>6, AcceptedIsNotRead DEF ReadInv
    <2>7. CASE pc' = "http"
      BY <1>2, <2>1, <2>7 DEF OffWalk
    <2> QED
      BY <2>1, <2>2, <2>5, <2>6, <2>7 DEF NextAfter
  <1>9. CASE UdpClientArrives
    <2>1. /\ pc = "udp" /\ pc' \in {"udp", "lost"}
          /\ UNCHANGED <<sock, fds, readable, blocked>>
      BY <1>9 DEF UdpClientArrives, kernelVars
    <2> QED
      BY <1>1, <2>1 DEF ReadInv, Waiting
  <1>10. CASE Datagram
    <2>1. /\ pc = "udp" /\ pc' \in {"clients", "http"} /\ fds' \subseteq fds
          /\ readable \ {socks["udp"]} \subseteq readable'
          /\ UNCHANGED <<listVars, sock, blocked>>
      BY <1>10 DEF Datagram
    <2>2. \A c \in Clients : Waiting(c)'
      <3>1. \A c \in Clients : sock[c] \in fds => sock[c] # socks["udp"]
        BY DEF WatchInv, OneOwner, Roles
      <3> QED
        BY <2>1, <3>1 DEF ReadInv, Waiting
    <2>3. Ahead'
      <3>1. \A c \in InList' : next'[c] \in InList' \cup {Null} /\ Waiting(c)'
        BY <2>2 DEF LifeInv, ListSound, ListWellFormed, InList
      <3> QED
        BY <3>1 DEF Ahead
    <2> QED
      BY <1>1, <2>1, <2>3 DEF ReadInv
  <1>11. ASSUME pc = "clients", at # Null, pc' \in {"clients", "lost"}, ~blocked',
                pc' = "clients" => /\ at' = next[at] /\ Grows
                                   /\ \A c \in InList : next'[c] = next[c]
                                   /\ \A c \in InList : c # at /\ Waiting(c) => Waiting(c)'
         PROVE  ReadInv'
    <2>1. at \in InList /\ Ahead
      BY <1>11 DEF LifeInv, ReadInv
    <2>2. pc' = "clients" => Ahead'
      BY <1>11, <2>1, WalkGoesOn DEF LifeInv
    <2> QED
      BY <1>1, <1>11, <2>2 DEF ReadInv
  <1>12. CASE SkipClient
    <2>1. /\ pc = "clients" /\ at # Null /\ pc' = pc /\ at' = next[at]
          /\ UNCHANGED <<listVars, sock, fds, readable, blocked>>
      BY <1>12 DEF SkipClient, kernelVars
    <2>2. Grows /\ \A c \in InList : Waiting(c) => Waiting(c)'
      BY <2>1 DEF Grows, InList, listVars, Waiting
    <2> QED
      BY <1>11, <2>1, <2>2 DEF listVars, ReadInv
  <1>13. CASE ClientMessage
    <2>1. /\ pc = "clients" /\ at \in InList /\ at # Null /\ sock[at] \in fds /\ sock[at] # NoFd
          /\ blocked' = (blocked \/ sock[at] \notin readable)
      BY <1>13 DEF ClientMessage, Serves, LifeInv
    <2>2. Ahead /\ Waiting(at)
      BY <2>1 DEF ReadInv, Ahead
    <2>3. ~blocked'
      BY <2>1, <2>2 DEF ReadInv, Waiting
    <2>4. \A c \in InList : c # at => sock[c] # sock[at]
      BY <2>1 DEF WatchInv, OneOwner, InList
    <2>5. ASSUME MovesOn(at), next'[at] = next[at]
          PROVE  /\ pc' \in {"clients", "lost"} /\ fds' = fds
                 /\ pc' = "clients" => at' = next[at]
      BY <2>1, <2>5 DEF MovesOn
    <2>6. CASE readable' = readable \ {sock[at]} /\ UNCHANGED clientVars /\ MovesOn(at)
      <3>1. Grows /\ \A c \in InList : next'[c] = next[c]
        BY <2>6 DEF Grows, InList, listVars
      <3>2. \A c \in InList : c # at /\ Waiting(c) => Waiting(c)'
        BY <2>1, <2>4, <2>5, <2>6, <3>1 DEF Waiting
      <3> QED
        BY <1>11, <2>1, <2>3, <2>5, <2>6, <3>1, <3>2
    <2>7. CASE ClosesOrConnects({sock[at]}) /\ MovesOn(at)
      <3>1. Grows
        BY <2>7, CallbackLife DEF LifeInv
      <3>2. fds' \subseteq fds
        BY <2>7 DEF MovesOn
      <3>3. \A c \in InList : c # at /\ Waiting(c) => Waiting(c)'
        BY <2>4, <2>7, <3>2, CallbackLeavesReadable DEF LifeInv, ListSound
      <3>4. \A c \in InList : next'[c] = next[c]
        <4>1. CASE UNCHANGED listVars
          BY <4>1 DEF listVars
        <4>2. CASE Connects({sock[at]})
          BY <4>2 DEF Connects, NewClient, ClientStays, ClientGoesAtOnce, NonBlockingFails,
                      LinkClient, InList, LifeInv, ListSound, ListTypeOK
        <4> QED
          BY <2>7, <4>1, <4>2 DEF ClosesOrConnects
      <3> QED
        BY <1>11, <2>1, <2>3, <2>5, <2>7, <3>1, <3>3, <3>4
    <2>8. CASE ShutsDown("clients")
      <3>1. /\ pc' = "shutdown" /\ back' = "clients"
            /\ UNCHANGED <<listVars, sock, at, fds, readable>>
        BY <2>8 DEF ShutsDown, kernelVars
      <3>2. Ahead'
        BY <2>2, <3>1, WalkStands DEF Waiting
      <3> QED
        BY <1>1, <2>3, <3>1, <3>2 DEF ReadInv
    <2> QED
      BY <1>13, <2>6, <2>7, <2>8 DEF ClientMessage
  <1>14. CASE ClientChunk
    <2>1. pc = "clients" /\ at # Null /\ at \in InList /\ MovesOn(at) /\ UNCHANGED listVars
          /\ blocked' = blocked
      BY <1>14 DEF ClientChunk, LifeInv
    <2>2. PICK D \in {{}, {at}} : CloseClients(D, {})
      BY <1>14 DEF ClientChunk
    <2>3. D \in SUBSET Clients /\ fds' = fds /\ pc' \in {"clients", "lost"}
          /\ (pc' = "clients" => at' = next[at])
      BY <2>1 DEF MovesOn, InList, listVars
    <2>4. Grows /\ \A c \in InList : next'[c] = next[c]
      BY <2>1 DEF Grows, InList, listVars
    <2>5. \A c \in InList : Waiting(c) => Waiting(c)'
      BY <2>2, <2>3, ClosingLeavesReadable DEF InList
    <2> QED
      BY <1>11, <2>1, <2>3, <2>4, <2>5 DEF ReadInv
  <1>15. CASE ClientsDone \/ HttpSelect \/ HttpNoInput \/ HttpInput \/ HttpAccept
              \/ UpdateClient \/ RemoveClosed \/ UpdatedFreed \/ PassDone
    <2>1. OffWalk'
      BY <1>15 DEF ClientsDone, HttpSelect, HttpNoInput, HttpInput, HttpAccept, ShutsDown,
                   UpdateClient, RemoveClosed, UpdatedFreed, PassDone, OffWalk
    <2>2. blocked' = blocked
      BY <1>15 DEF ClientsDone, HttpSelect, HttpNoInput, HttpInput, HttpAccept, UpdateClient,
                   RemoveClosed, UpdatedFreed, PassDone
    <2> QED
      BY <1>1, <2>1, <2>2 DEF ReadInv, OffWalk
  <1>16. CASE SkipClosed
    <2>1. /\ pc = "shutdown" /\ UNCHANGED <<pc, back, listVars, sock, at, fds, readable, blocked>>
      BY <1>16 DEF SkipClosed, kernelVars
    <2>2. Ahead => Ahead'
      BY <2>1, WalkStands DEF Waiting
    <2> QED
      BY <1>1, <2>1, <2>2 DEF ReadInv
  <1>17. CASE Disconnect
    <2>1. pc = "shutdown" /\ UNCHANGED <<pc, back, blocked>>
      BY <1>17 DEF Disconnect
    <2> QED
      BY <1>1, <1>17, <2>1, DisconnectUnderWalk DEF ReadInv
  <1>18. CASE ShutdownSockets
    <2>1. /\ pc = "shutdown" /\ pc' \in {back, "lost"}
          /\ readable' = readable \ InRole(Roles)
          /\ UNCHANGED <<back, listVars, sock, at, fds, blocked>>
      BY <1>18 DEF ShutdownSockets
    <2>2. back \in {"idle", "clients", "updated"}
      BY <2>1 DEF LifeInv
    <2>3. \A c \in InList : Waiting(c) => Waiting(c)'
      <3>1. \A c \in Clients : sock[c] \notin InRole(Roles)
        BY DEF InRole, WatchInv, OneOwner
      <3> QED
        BY <2>1, <3>1 DEF Waiting, InList
    <2>4. Ahead => Ahead'
      BY <2>1, <2>3, WalkStands
    <2> QED
      BY <1>1, <2>1, <2>2, <2>4 DEF ReadInv
  <1> QED
    BY <1>3, <1>4, <1>5, <1>6, <1>7, <1>8, <1>9, <1>10, <1>12, <1>13, <1>14, <1>15, <1>16,
       <1>17, <1>18 DEF Next, Pass

LoopInv == EventInv /\ LifeInv /\ ("inetd" \notin app.roles /\ ~Reuses => ReadInv)

LEMMA LoopInit == Init => LoopInv
  <1> SUFFICES ASSUME Init PROVE LoopInv
    OBVIOUS
  <1>1. \A r \in {"listen", "listen6"} : socks[r] # NoFd => r \in app.roles
    BY DEF Init, Roles
  <1>2. ReadInv
    BY <1>1 DEF Init, ReadInv
  <1> QED
    BY <1>2, EventInit, LifeInit DEF LoopInv

LEMMA LoopStep == LoopInv /\ [Next]_vars => LoopInv'
  <1> SUFFICES ASSUME LoopInv, [Next]_vars PROVE LoopInv'
    OBVIOUS
  <1>1. EventInv' /\ LifeInv'
    BY EventStep, LifeStep, LifeStutters DEF LoopInv
  <1>2. CASE Next
    <2>1. app' = app
      BY <1>2, AppStays
    <2>2. "inetd" \notin app.roles /\ ~Reuses => ReadInv'
      BY <1>1, <1>2, ReadStep DEF LoopInv, EventInv
    <2> QED
      BY <1>1, <2>1, <2>2 DEF LoopInv, Reuses
  <1>3. CASE UNCHANGED vars
    <2>1. UNCHANGED <<listVars, sock, socks, open, readable, fds, pc, at, back, app, blocked>>
      BY <1>3 DEF vars, kernelVars, screenVars, clientVars, passVars
    <2>2. \A c \in Clients : Waiting(c) <=> Waiting(c)'
      BY <2>1 DEF Waiting
    <2>3. Ahead => Ahead'
      BY <2>1, <2>2, WalkStands DEF InList
    <2>4. ReadInv => ReadInv'
      BY <2>1, <2>2, <2>3 DEF ReadInv, Open
    <2> QED
      BY <1>1, <2>1, <2>4 DEF LoopInv, Reuses
  <1> QED
    BY <1>2, <1>3

(* No message is read from a client that has sent nothing, whatever has    *)
(* been closed and connected since select, unless two connections come in  *)
(* one pass and newClientHook closes a client in between.                  *)
THEOREM ReadsNeverBlock == Spec => []("inetd" \notin app.roles => NeverBlocks)
  <1>1. LoopInv => ("inetd" \notin app.roles => NeverBlocks)
    BY DEF LoopInv, ReadInv, NeverBlocks
  <1> QED
    BY <1>1, LoopInit, LoopStep, PTL DEF Spec
=============================================================================
