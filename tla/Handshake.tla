----------------------------- MODULE Handshake -----------------------------
(***************************************************************************)
(* The handshake of RFB connections: the server's handlers up to           *)
(* RFB_NORMAL (rfbserver.c, auth.c, the TightVNC security type), the       *)
(* viewer of libvncclient (InitialiseRFBConnection), and viewers that are  *)
(* not in this repository: three that the server has code for, and one     *)
(* that is set to a security type and asks for it whatever list it is      *)
(* sent.  The server is single-threaded: a handler runs to its end before  *)
(* another one starts, and one that reads again (the TightVNC security     *)
(* type) keeps the other clients waiting.                                  *)
(*                                                                         *)
(* What is read has no type on the wire: a reader takes the bytes that     *)
(* come next for the message it waits for.  Here each message carries its  *)
(* kind, and InStep says that no reader is ever wrong about it.            *)
(***************************************************************************)
EXTENDS Naturals, Sequences, SequencesExt

CONSTANTS Clients,      \* connections
          Screens,      \* configurations of the rfbScreenInfo
          Peers         \* kinds of viewers

VARIABLES screen,       \* the configuration, never changed
          peer,         \* the viewer at the other end, never changed
          state,        \* cl->state; "none" before the connection
          open,         \* cl->sock is valid
          minor,        \* cl->protocolMinorVersion
          viewOnly,     \* cl->viewOnly
          tight,        \* the TightVNC extension is enabled for the client
          cause,        \* why rfbCloseClient was called
          busy,         \* the client whose handler is inside rfbReadExact
          handlers,     \* the process-wide list of security handlers
          offered,      \* history: the security types sent to the client
          at,           \* what the viewer waits for
          viewerMinor,  \* client->minor
          scheme,       \* client->authScheme
          toServer, toViewer

serverVars == <<state, open, minor, viewOnly, tight, cause, busy, handlers, offered>>
viewerVars == <<at, viewerMinor, scheme>>
vars == <<screen, peer, serverVars, viewerVars, toServer, toViewer>>

Handlers == {"None", "VncAuth", "Tight"}
Nil == "nil"
Passwords == {"full", "view", "wrong", "absent"}
ScreenType == [password : BOOLEAN, minor : Nat, tight : BOOLEAN, neverShared : BOOLEAN,
               alwaysShared : BOOLEAN, dontDisconnect : BOOLEAN]
PeerType == [kind : {"library", "mac", "old", "tight", "set"}, minor : Nat, reverse : BOOLEAN,
             shared : BOOLEAN, password : Passwords, schemes : SUBSET Handlers]
States == {"none", "version", "securityType", "authType", "tightResponse",
           "authentication", "initialisation", "normal"}
Stages == {"off", "version", "list", "scheme", "challenge", "result", "reason", "tunnel",
           "authCaps", "serverInit", "caps", "up", "gone"}

ASSUME HandshakeAssumption ==
    Screens \subseteq ScreenType /\ Peers \subseteq PeerType /\ Nil \notin Clients
(* rfbVncAuthNone takes a viewer that says 3.889, and no other, for a Mac. *)
ASSUME MacAssumption == \A p \in Peers : p.minor = 889 <=> p.kind = "mac"

NeedsPassword(c) == screen.password /\ ~peer[c].reverse
Good(c) == peer[c].password \in {"full", "view"}

-----------------------------------------------------------------------------
(* The process-wide list of security handlers: securityHandlers is its     *)
(* head, and a handler that was taken out keeps its next.  Both functions  *)
(* go on with handler->next, whether handler was in the list or not; with  *)
(* three handlers the recursion is at most three deep.                     *)
After(list, h) == IF h = Nil THEN Nil ELSE list.next[h]
Listed(list) ==
    LET a == list.head  b == After(list, a)  d == After(list, b)
    IN  IF a = Nil THEN <<>> ELSE IF b = Nil THEN <<a>>
        ELSE IF d = Nil THEN <<a, b>> ELSE <<a, b, d>>
IsListed(list, h) == h \in {list.head, After(list, list.head),
                           After(list, After(list, list.head))}

Link(list, h) ==
    IF h = Nil \/ IsListed(list, h) THEN list
    ELSE [head |-> h, next |-> [list.next EXCEPT ![h] = list.head]]
Unlink(list, h) ==
    IF h = Nil \/ ~IsListed(list, h) THEN list
    ELSE IF list.head = h THEN [head |-> list.next[h], next |-> list.next]
    ELSE [head |-> list.head,
          next |-> [x \in Handlers |-> IF list.next[x] = h /\ IsListed(list, x)
                                       THEN list.next[h] ELSE list.next[x]]]
(* rfbRegisterSecurityHandler, rfbUnregisterSecurityHandler *)
Registered(list, h) ==
    Link(Link(Link(list, h), After(list, h)), After(list, After(list, h)))
Unregistered(list, h) ==
    Unlink(Unlink(Unlink(list, h), After(list, h)), After(list, After(list, h)))

\* Mutant of Advertised: the other primary type stays in the list.
MutantAdvertised(list, primary) == Registered(list, primary)
(* What rfbSendSecurityTypeList makes of the list before it sends it. *)
Advertised(list, primary) ==
    Registered(Unregistered(list, IF primary = "None" THEN "VncAuth" ELSE "None"), primary)

Init == /\ screen \in Screens /\ peer \in [Clients -> Peers]
        /\ state = [c \in Clients |-> "none"] /\ open = [c \in Clients |-> FALSE]
        /\ minor = [c \in Clients |-> 0] /\ viewOnly = [c \in Clients |-> FALSE]
        /\ tight = [c \in Clients |-> FALSE] /\ cause = [c \in Clients |-> "none"]
        /\ busy = Nil
        /\ handlers = [head |-> IF screen.tight THEN "Tight" ELSE Nil,
                       next |-> [h \in Handlers |-> Nil]]
        /\ offered = [c \in Clients |-> <<>>]
        /\ at = [c \in Clients |-> "off"] /\ viewerMinor = [c \in Clients |-> 0]
        /\ scheme = [c \in Clients |-> Nil]
        /\ toServer = [c \in Clients |-> <<>>] /\ toViewer = [c \in Clients |-> <<>>]

-----------------------------------------------------------------------------
(* Messages *)
Msg(kind, value) == [kind |-> kind, value |-> value]

(* The server writes; when the viewer is gone rfbWriteExact may fail. *)
Writes(c, msgs) == toViewer' = [toViewer EXCEPT ![c] = @ \o msgs]
MayFail(c) == at[c] = "gone"
Received(c, kind) == toServer[c] # <<>> /\ Head(toServer[c]).kind = kind
Consumes(c) == toServer' = [toServer EXCEPT ![c] = Tail(@)]

(* rfbCloseClient *)
Close(c, why) == /\ open' = [open EXCEPT ![c] = FALSE]
                 /\ cause' = [cause EXCEPT ![c] = why]
StayOpen == UNCHANGED <<open, cause>>
Becomes(c, s) == state' = [state EXCEPT ![c] = s]

(* A handler that has to write msgs and then goes on in state s. *)
WritesThen(c, msgs, s) ==
    \/ Writes(c, msgs) /\ Becomes(c, s) /\ StayOpen
    \/ MayFail(c) /\ Close(c, "write") /\ UNCHANGED <<toViewer, state>>
(* rfbClientSendString: the reason, then the connection is closed. *)
WritesAndCloses(c, msgs, why) == Writes(c, msgs) /\ Close(c, why) /\ UNCHANGED state

-----------------------------------------------------------------------------
(* rfbSendSecurityTypeList *)
SendSecurityTypeList(c, primary) ==
    /\ handlers' = Advertised(handlers, primary)
    /\ offered' = [offered EXCEPT ![c] = Listed(handlers')]
    /\ WritesThen(c, <<Msg("list", Listed(handlers'))>>, "securityType")

(* rfbSendSecurityType, for protocol 3.3 *)
SendSecurityType(c, primary) ==
    /\ IF primary = "None"
       THEN WritesThen(c, <<Msg("scheme", primary)>>, "initialisation")
       ELSE WritesThen(c, <<Msg("scheme", primary), Msg("challenge", c)>>, "authentication")
    /\ offered' = [offered EXCEPT ![c] = <<primary>>]
    /\ UNCHANGED handlers

-----------------------------------------------------------------------------
(* The server's handlers *)
Runs(c) == open[c] /\ busy \in {Nil, c}

(* The list is that of the process: connections before these ones, and     *)
(* those of other screens, exchange its entries like the ones here.        *)
OtherConnection(primary) ==
    /\ busy = Nil
    /\ handlers' = Advertised(handlers, primary)
    /\ UNCHANGED <<screen, peer, state, open, minor, viewOnly, tight, cause, busy, offered,
                   viewerVars, toServer, toViewer>>

(* rfbNewTCPOrUDPClient writes the screen's version. *)
Connect(c) ==
    /\ state[c] = "none" /\ busy = Nil
    /\ Writes(c, <<Msg("version", screen.minor)>>) /\ Becomes(c, "version")
    /\ open' = [open EXCEPT ![c] = TRUE]
    /\ at' = [at EXCEPT ![c] = "version"]
    /\ UNCHANGED <<screen, peer, minor, viewOnly, tight, cause, busy, handlers, offered,
                   viewerMinor, scheme, toServer>>

(* rfbProcessClientProtocolVersion and rfbAuthNewClient *)
ProtocolVersion(c) ==
    /\ Runs(c) /\ state[c] = "version" /\ Received(c, "version")
    /\ Consumes(c)
    /\ minor' = [minor EXCEPT ![c] = Head(toServer[c]).value]
    /\ LET primary == IF NeedsPassword(c) THEN "VncAuth" ELSE "None"
       IN  IF minor'[c] < 7 THEN SendSecurityType(c, primary)
                            ELSE SendSecurityTypeList(c, primary)
    /\ UNCHANGED <<screen, peer, viewOnly, tight, busy, viewerVars>>

(* What follows ClientInit: the extensions are initialised, the client is  *)
(* in RFB_NORMAL, and a client that does not share makes the others go,    *)
(* or goes itself.                                                         *)
InteractionCaps(c) == IF tight[c] THEN <<Msg("caps", Nil)>> ELSE <<>>
Others(c) == {d \in Clients \ {c} : open[d] /\ state[d] = "normal"}
\* Mutant of Exclusively: neverShared yields to the viewer's wish.
MutantExclusively(c, shared) == ~peer[c].reverse /\ ~screen.alwaysShared /\ ~shared
Exclusively(c, shared) ==
    ~peer[c].reverse /\ (screen.neverShared \/ (~screen.alwaysShared /\ ~shared))
\* Mutant of ClosedBy: dontDisconnect ends both.
MutantClosedBy(c, shared) == IF ~Exclusively(c, shared) \/ Others(c) = {} THEN {}
                             ELSE Others(c) \cup (IF screen.dontDisconnect THEN {c} ELSE {})
ClosedBy(c, shared) == IF ~Exclusively(c, shared) THEN {}
                       ELSE IF ~screen.dontDisconnect THEN Others(c)
                       ELSE IF Others(c) = {} THEN {} ELSE {c}
Initialise(c, shared, before) ==
    \/ /\ Writes(c, before \o <<Msg("serverInit", Nil)>> \o InteractionCaps(c))
       /\ Becomes(c, "normal")
       /\ LET out == ClosedBy(c, shared)
          IN  /\ open' = [d \in Clients |-> open[d] /\ d \notin out]
              /\ cause' = [d \in Clients |-> IF d \in out THEN "policy" ELSE cause[d]]
    \/ MayFail(c) /\ Close(c, "write") /\ UNCHANGED <<toViewer, state>>

\* Mutant of VncAuthNone: a Mac viewer gets a SecurityResult like any other.
MutantVncAuthNone(c) ==
    /\ IF minor[c] = 889 THEN Initialise(c, TRUE, <<Msg("result", "ok")>>)
       ELSE WritesThen(c, IF minor[c] > 7 THEN <<Msg("result", "ok")>> ELSE <<>>,
                       "initialisation")
    /\ UNCHANGED <<tight, busy>>
(* rfbVncAuthNone: a Mac viewer sends no ClientInit. *)
VncAuthNone(c) ==
    /\ IF minor[c] = 889 THEN Initialise(c, TRUE, <<>>)
       ELSE WritesThen(c, IF minor[c] > 7 THEN <<Msg("result", "ok")>> ELSE <<>>,
                       "initialisation")
    /\ UNCHANGED <<tight, busy>>
(* rfbVncAuthSendChallenge *)
VncAuthSendChallenge(c) ==
    WritesThen(c, <<Msg("challenge", c)>>, "authentication") /\ UNCHANGED <<tight, busy>>
(* rfbHandleSecTypeTight: no tunnels, and the password when there is one;  *)
(* the answers are read before the handler returns.                        *)
TightCaps(c) == IF NeedsPassword(c) THEN <<"VncAuth">> ELSE <<>>
\* Mutant of HandleSecTypeTight: no SecurityResult without a password.
MutantHandleSecTypeTight(c) ==
    /\ tight' = [tight EXCEPT ![c] = TRUE]
    /\ busy' = IF NeedsPassword(c) /\ at[c] # "gone" THEN c ELSE Nil
    /\ WritesThen(c, <<Msg("tunnels", Nil),
                       Msg("authCaps", IF NeedsPassword(c) THEN <<"VncAuth">> ELSE <<>>)>>,
                  IF NeedsPassword(c) THEN "authType" ELSE "initialisation")
HandleSecTypeTight(c) ==
    /\ tight' = [tight EXCEPT ![c] = TRUE]
    /\ IF TightCaps(c) = <<>>
       THEN /\ WritesThen(c, <<Msg("tunnels", Nil), Msg("authCaps", <<>>)>> \o
                             (IF minor[c] > 7 THEN <<Msg("result", "ok")>> ELSE <<>>),
                          "initialisation")
            /\ UNCHANGED busy
       ELSE /\ WritesThen(c, <<Msg("tunnels", Nil), Msg("authCaps", TightCaps(c))>>, "authType")
            /\ busy' = IF open'[c] THEN c ELSE Nil

(* rfbProcessClientSecurityType: the handler is looked up in the list as   *)
(* it is now.                                                              *)
SecurityType(c) ==
    /\ Runs(c) /\ state[c] = "securityType" /\ Received(c, "type")
    /\ Consumes(c)
    /\ LET type == Head(toServer[c]).value
       IN  \/ /\ type \notin Range(Listed(handlers))
              /\ Close(c, "type") /\ UNCHANGED <<state, toViewer, tight, busy>>
           \/ /\ type \in Range(Listed(handlers))
              /\ \/ type = "None" /\ VncAuthNone(c)
                 \/ type = "VncAuth" /\ VncAuthSendChallenge(c)
                 \/ type = "Tight" /\ HandleSecTypeTight(c)
    /\ UNCHANGED <<screen, peer, minor, viewOnly, handlers, offered, viewerVars>>

(* rfbProcessClientAuthType: the type is one of the capabilities sent, and *)
(* the challenge follows.                                                  *)
AuthType(c) ==
    /\ Runs(c) /\ state[c] = "authType" /\ Received(c, "type")
    /\ Consumes(c)
    /\ IF Head(toServer[c]).value \in Range(TightCaps(c))
       THEN /\ WritesThen(c, <<Msg("challenge", c)>>, "tightResponse")
            /\ busy' = IF open'[c] THEN c ELSE Nil
       ELSE Close(c, "type") /\ busy' = Nil /\ UNCHANGED <<state, toViewer>>
    /\ UNCHANGED <<screen, peer, minor, viewOnly, tight, handlers, offered, viewerVars>>

(* rfbAuthProcessClientMessage, with rfbCheckPasswordByList: the handler   *)
(* of RFB_AUTHENTICATION, which the TightVNC type calls itself.  Without a *)
(* password rfbDefaultPasswordCheck finds no file to read one from.        *)
Authentication(c) ==
    /\ Runs(c) /\ state[c] \in {"authentication", "tightResponse"} /\ Received(c, "response")
    /\ Consumes(c) /\ busy' = Nil
    /\ LET password == Head(toServer[c]).value
       IN  IF screen.password /\ password \in {"full", "view"}
           THEN /\ viewOnly' = [viewOnly EXCEPT ![c] = @ \/ password = "view"]
                /\ WritesThen(c, <<Msg("result", "ok")>>, "initialisation")
           ELSE /\ WritesAndCloses(c, <<Msg("result", "failed")>> \o
                                      (IF minor[c] > 7 THEN <<Msg("reason", Nil)>> ELSE <<>>),
                                   "password")
                /\ UNCHANGED viewOnly
    /\ UNCHANGED <<screen, peer, minor, tight, handlers, offered, viewerVars>>

(* rfbProcessClientInitMessage *)
ClientInit(c) ==
    /\ Runs(c) /\ state[c] = "initialisation" /\ Received(c, "clientInit")
    /\ Consumes(c) /\ Initialise(c, Head(toServer[c]).value, <<>>)
    /\ UNCHANGED <<screen, peer, minor, viewOnly, tight, busy, handlers, offered, viewerVars>>

(* rfbReadExact fails: the viewer has gone, or a handler that reads again  *)
(* waits longer than rfbMaxClientWait.                                     *)
ReadFails(c) ==
    /\ Runs(c) /\ toServer[c] = <<>>
    /\ at[c] = "gone" \/ busy = c
    /\ Close(c, IF at[c] = "gone" THEN "gone" ELSE "timeout")
    /\ busy' = Nil
    /\ UNCHANGED <<screen, peer, state, minor, viewOnly, tight, handlers, offered,
                   viewerVars, toServer, toViewer>>

ServerStep(c) == \/ ProtocolVersion(c) \/ SecurityType(c) \/ AuthType(c)
                 \/ Authentication(c) \/ ClientInit(c) \/ ReadFails(c)

-----------------------------------------------------------------------------
(* The viewer: InitialiseRFBConnection, one action per message it reads.   *)
Reads(c, stage, kind) ==
    /\ at[c] = stage
    /\ toViewer[c] # <<>> /\ Head(toViewer[c]).kind = kind
    /\ toViewer' = [toViewer EXCEPT ![c] = Tail(@)]
    /\ UNCHANGED <<screen, peer, serverVars>>
Value(c) == Head(toViewer[c]).value
Moves(c, stage) == at' = [at EXCEPT ![c] = stage]
Sends(c, msgs) == toServer' = [toServer EXCEPT ![c] = @ \o msgs]
KeepsVersion == UNCHANGED <<viewerMinor, scheme>>
(* The viewer closes; unread data makes that a reset, and what it wrote    *)
(* may be lost.                                                            *)
Leaves(c) == /\ Moves(c, "gone")
             /\ \/ UNCHANGED toServer
                \/ toViewer[c] # <<>> /\ toServer' = [toServer EXCEPT ![c] = <<>>]

\* Mutant of LibraryMinor: every version is taken for a Single Click one.
MutantLibraryMinor(server) == server - 10
(* The version the viewer answers with: UltraVNC's 3.4 and 3.6, its Single *)
(* Click 3.14 and 3.16, and at most 3.8.                                   *)
LibraryMinor(server) == IF server \in {14, 16} THEN server - 10
                        ELSE IF server > 8 THEN 8 ELSE server
AnswerMinor(c, server) == IF peer[c].kind = "library" THEN LibraryMinor(server)
                          ELSE IF server < 7 THEN 3 ELSE peer[c].minor
ViewerVersion(c) ==
    /\ Reads(c, "version", "version")
    /\ LET m == AnswerMinor(c, Value(c))
       IN  /\ viewerMinor' = [viewerMinor EXCEPT ![c] = m]
           /\ Sends(c, <<Msg("version", m)>>)
           /\ Moves(c, IF m > 6 THEN "list" ELSE "scheme")
    /\ UNCHANGED scheme

(* The viewer has been accepted: it sends ClientInit, except the Mac one   *)
(* that chose None from a list.                                            *)
GoesOn(c, sent) ==
    /\ Moves(c, "serverInit")
    /\ Sends(c, sent \o IF peer[c].kind = "mac" /\ viewerMinor[c] > 6 /\ scheme'[c] = "None"
                        THEN <<>> ELSE <<Msg("clientInit", peer[c].shared)>>)
(* After the type is known: None is followed by a SecurityResult from 3.8  *)
(* on, VncAuth by the challenge, Tight by the tunneling capabilities.      *)
Starts(c, type, sent) ==
    /\ scheme' = [scheme EXCEPT ![c] = type]
    /\ CASE type = "VncAuth" -> Moves(c, "challenge") /\ Sends(c, sent)
         [] type = "Tight"   -> Moves(c, "tunnel") /\ Sends(c, sent)
         [] type = "None"    -> IF viewerMinor[c] > 7 /\ peer[c].kind # "mac"
                                THEN Moves(c, "result") /\ Sends(c, sent)
                                ELSE GoesOn(c, sent)
    /\ UNCHANGED viewerMinor

(* ReadSupportedSecurityType: the first type of the list it can do; the    *)
(* application may have restricted them (SetClientAuthSchemes).  A viewer  *)
(* that is set to a type does not look at the list.                        *)
MayAskFor(c, list) ==
    LET first == SelectInSeq(list, LAMBDA t : t \in peer[c].schemes)
    IN  IF peer[c].kind = "set" THEN peer[c].schemes
        ELSE IF first = 0 THEN {} ELSE {list[first]}
ViewerList(c) ==
    /\ Reads(c, "list", "list")
    /\ IF Value(c) = <<>> THEN Moves(c, "reason") /\ UNCHANGED toServer /\ KeepsVersion
       ELSE IF MayAskFor(c, Value(c)) = {} THEN Leaves(c) /\ KeepsVersion
       ELSE \E type \in MayAskFor(c, Value(c)) : Starts(c, type, <<Msg("type", type)>>)
ViewerScheme(c) == Reads(c, "scheme", "scheme") /\ Starts(c, Value(c), <<>>)

(* HandleVncAuth *)
ViewerChallenge(c) ==
    /\ Reads(c, "challenge", "challenge") /\ KeepsVersion
    /\ IF peer[c].password = "absent" THEN Leaves(c)
       ELSE Moves(c, "result") /\ Sends(c, <<Msg("response", peer[c].password)>>)
(* rfbHandleAuthResult and ReadReason *)
ViewerResult(c) ==
    /\ Reads(c, "result", "result") /\ KeepsVersion
    /\ IF Value(c) = "ok" THEN GoesOn(c, <<>>)
       ELSE IF viewerMinor[c] > 7 THEN Moves(c, "reason") /\ UNCHANGED toServer
       ELSE Leaves(c)
ViewerReason(c) == Reads(c, "reason", "reason") /\ Leaves(c) /\ KeepsVersion

(* The TightVNC viewer reads the capabilities and takes VncAuth if listed. *)
ViewerTunnels(c) == Reads(c, "tunnel", "tunnels") /\ Moves(c, "authCaps")
                    /\ UNCHANGED toServer /\ KeepsVersion
ViewerAuthCaps(c) ==
    /\ Reads(c, "authCaps", "authCaps") /\ KeepsVersion
    /\ IF Value(c) # <<>> THEN Moves(c, "challenge") /\ Sends(c, <<Msg("type", Head(Value(c)))>>)
       ELSE IF viewerMinor[c] > 7 THEN Moves(c, "result") /\ UNCHANGED toServer
       ELSE GoesOn(c, <<>>)

ViewerServerInit(c) ==
    /\ Reads(c, "serverInit", "serverInit") /\ UNCHANGED toServer /\ KeepsVersion
    /\ Moves(c, IF scheme[c] = "Tight" THEN "caps" ELSE "up")
ViewerCaps(c) == Reads(c, "caps", "caps") /\ Moves(c, "up") /\ UNCHANGED toServer /\ KeepsVersion

(* ReadFromRFBServer fails: the server has closed. *)
ViewerReadFails(c) ==
    /\ at[c] \notin {"off", "gone"} /\ ~open[c] /\ toViewer[c] = <<>>
    /\ Leaves(c) /\ KeepsVersion /\ UNCHANGED <<screen, peer, serverVars, toViewer>>
(* The user ends the viewer. *)
HangUp(c) ==
    /\ at[c] \notin {"off", "gone"}
    /\ Leaves(c) /\ KeepsVersion /\ UNCHANGED <<screen, peer, serverVars, toViewer>>

ViewerStep(c) == \/ ViewerVersion(c) \/ ViewerList(c) \/ ViewerScheme(c) \/ ViewerChallenge(c)
                 \/ ViewerResult(c) \/ ViewerReason(c) \/ ViewerTunnels(c) \/ ViewerAuthCaps(c)
                 \/ ViewerServerInit(c) \/ ViewerCaps(c) \/ ViewerReadFails(c)

Next == \/ \E c \in Clients : Connect(c) \/ ServerStep(c) \/ ViewerStep(c) \/ HangUp(c)
        \/ \E primary \in {"None", "VncAuth"} : OtherConnection(primary)
Spec == Init /\ [][Next]_vars

-----------------------------------------------------------------------------
TypeOK == /\ screen \in Screens /\ peer \in [Clients -> Peers]
          /\ state \in [Clients -> States] /\ open \in [Clients -> BOOLEAN]
          /\ viewOnly \in [Clients -> BOOLEAN] /\ tight \in [Clients -> BOOLEAN]
          /\ minor \in [Clients -> Nat] /\ viewerMinor \in [Clients -> Nat]
          /\ at \in [Clients -> Stages] /\ busy \in Clients \cup {Nil}
          /\ handlers \in [head : Handlers \cup {Nil}, next : [Handlers -> Handlers \cup {Nil}]]

(* What each reader takes the next bytes for. *)
ServerExpects(s) == CASE s = "version" -> "version" [] s \in {"securityType", "authType"} -> "type"
                      [] s \in {"authentication", "tightResponse"} -> "response"
                      [] s = "initialisation" -> "clientInit" [] OTHER -> "none"
ViewerExpects(s) == CASE s = "tunnel" -> "tunnels" [] OTHER -> s
(* Whatever version, security type and password: neither side takes a      *)
(* message for another one (InitialiseRFBConnection against                *)
(* rfbProcessClientMessage).                                               *)
InStep == \A c \in Clients :
    /\ open[c] /\ toServer[c] # <<>> => Head(toServer[c]).kind = ServerExpects(state[c])
    /\ at[c] # "gone" /\ toViewer[c] # <<>> => Head(toViewer[c]).kind = ViewerExpects(at[c])

(* A client of a screen with a password gets to ClientInit only when the   *)
(* password was right, and it may use the mouse and the keyboard only with *)
(* a full password.  One thing is excepted, which TypeWasListed is about:  *)
(* the client asked for None, which the list it was sent did not have, and *)
(* another connection has put None into the list of the process since.     *)
Unlisted(c) == scheme[c] \in Handlers \ Range(offered[c])
Entitled(c) == \/ Good(c) /\ viewOnly[c] = (peer[c].password = "view")
               \/ scheme[c] = "None" /\ Unlisted(c)
Authenticated == \A c \in Clients :
    state[c] \in {"initialisation", "normal"} /\ NeedsPassword(c) => Entitled(c)

(* neverShared: at most one client that came by itself is being served. *)
Served(c) == open[c] /\ state[c] = "normal" /\ ~peer[c].reverse
Exclusive == screen.neverShared => \A c, d \in Clients : Served(c) /\ Served(d) => c = d

(* dontDisconnect: a client in RFB_NORMAL whose viewer is there is never   *)
(* closed for another one.                                                 *)
NotDisconnected == [][screen.dontDisconnect =>
    \A c \in Clients : open[c] /\ state[c] = "normal" /\ at[c] # "gone" => open'[c]]_vars

(* The two sides never wait for each other: when nothing is on its way     *)
(* between a server and a viewer that both still have the connection, the  *)
(* handshake is over on both sides.  Since no step of a connection can be  *)
(* repeated for ever, every handshake therefore comes to an end.           *)
NoDeadlock == \A c \in Clients :
    open[c] /\ at[c] # "gone" /\ toServer[c] = <<>> /\ toViewer[c] = <<>>
      => state[c] = "normal" /\ at[c] = "up"

(* "Make sure it was present in the list sent by the server" (auth.c:348). *)
(* What this check is for: no client of a screen with a password gets to   *)
(* ClientInit with a type that the list it was sent did not have.          *)
TypeWasListed == \A c \in Clients :
    state[c] \in {"initialisation", "normal"} /\ NeedsPassword(c) => ~Unlisted(c)
(* And what it should let through: a viewer that chooses from the list it  *)
(* was sent is not turned away.                                            *)
ListedTypeAccepted == \A c \in Clients : peer[c].kind # "set" => cause[c] # "type"
=============================================================================
