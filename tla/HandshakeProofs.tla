--------------------------- MODULE HandshakeProofs ---------------------------
(***************************************************************************)
(* Proofs about Handshake, for any number of connections, viewers and      *)
(* configurations.                                                         *)
(*                                                                         *)
(* The sharing policy of rfbProcessClientInitMessage: neverShared leaves   *)
(* at most one client that came by itself, and dontDisconnect closes       *)
(* nobody.  Both rest on where rfbCloseClient can be called: on a client   *)
(* that is not in RFB_NORMAL yet, on one whose viewer has gone, on one     *)
(* whose handler reads again (busy), which is not in RFB_NORMAL, or by the *)
(* policy itself.                                                          *)
(*                                                                         *)
(* The conversation: the two sides stay in step and never both wait, and   *)
(* only a viewer with the password gets past the handshake.  The invariant *)
(* (Session) says for each connection where the two sides can be together  *)
(* and what is on its way between them, what a viewer that has gone leaves *)
(* and what a server that has closed leaves; and it needs to know what the *)
(* process-wide list of security handlers can look like (ListOK), since    *)
(* None must not be offered to a client that needs a password.             *)
(***************************************************************************)
EXTENDS Handshake, TLAPS, SequenceTheorems, WellFoundedInduction

(*------------------------- The sharing policy -----------------------------*)

PolicyInv ==
    /\ screen \in ScreenType /\ peer \in [Clients -> PeerType]
    /\ state \in [Clients -> States] /\ open \in [Clients -> BOOLEAN]
    /\ busy \in Clients => state[busy] \in {"authType", "tightResponse"}
    /\ Exclusive

LEMMA PolicyInit == Init => PolicyInv
  <1> SUFFICES ASSUME Init PROVE PolicyInv
    OBVIOUS
  <1>1. screen \in ScreenType /\ peer \in [Clients -> PeerType]
    BY HandshakeAssumption DEF Init
  <1>2. state \in [Clients -> States] /\ open \in [Clients -> BOOLEAN]
    BY DEF Init, States
  <1>3. busy \notin Clients
    BY HandshakeAssumption DEF Init
  <1>4. Exclusive
    BY DEF Init, Exclusive, Served
  <1> QED
    BY <1>1, <1>2, <1>3, <1>4 DEF PolicyInv

(* What a handler of c may do to the state, unless it initialises c: it    *)
(* moves c on, not to RFB_NORMAL, and closes nobody but c.                 *)
MovesOn(c) ==
    /\ UNCHANGED <<screen, peer>>
    /\ \/ UNCHANGED state
       \/ \E s \in States \ {"normal"} : state' = [state EXCEPT ![c] = s]
    /\ \/ UNCHANGED open
       \/ open' = [open EXCEPT ![c] = FALSE]
       \/ open' = [open EXCEPT ![c] = TRUE] /\ state'[c] # "normal"
    /\ busy' \in Clients => state'[busy'] \in {"authType", "tightResponse"}

LEMMA MovingOn ==
  ASSUME PolicyInv, NEW c \in Clients, MovesOn(c)
  PROVE  PolicyInv'
  <1>1. /\ screen' \in ScreenType /\ peer' \in [Clients -> PeerType]
        /\ state' \in [Clients -> States] /\ open' \in [Clients -> BOOLEAN]
    BY DEF PolicyInv, MovesOn
  <1>2. \A d \in Clients : Served(d)' => Served(d)
    BY DEF PolicyInv, MovesOn, Served
  <1>3. Exclusive'
    BY <1>2 DEF PolicyInv, MovesOn, Exclusive
  <1> QED
    BY <1>1, <1>3 DEF PolicyInv, MovesOn

(* rfbProcessClientInitMessage, and rfbVncAuthNone for a Mac viewer.       *)
LEMMA Initialising ==
  ASSUME PolicyInv, NEW c \in Clients, NEW shared, NEW before,
         Initialise(c, shared, before), busy' = busy \/ busy' = Nil,
         state[c] \notin {"authType", "tightResponse"}, UNCHANGED <<screen, peer>>
  PROVE  PolicyInv'
  <1>1. CASE MayFail(c) /\ Close(c, "write") /\ UNCHANGED state
    BY <1>1, MovingOn, HandshakeAssumption DEF MovesOn, Close, PolicyInv
  <1>2. CASE /\ Becomes(c, "normal")
             /\ open' = [d \in Clients |-> open[d] /\ d \notin ClosedBy(c, shared)]
    <2>1. /\ screen' \in ScreenType /\ peer' \in [Clients -> PeerType]
          /\ state' \in [Clients -> States] /\ open' \in [Clients -> BOOLEAN]
      BY <1>2 DEF PolicyInv, Becomes, States
    <2>2. busy' \in Clients => state'[busy'] \in {"authType", "tightResponse"}
      BY <1>2, HandshakeAssumption DEF PolicyInv, Becomes
    <2>3. ASSUME screen.neverShared, NEW d \in Clients, Served(d)', d # c
          PROVE  Served(d) /\ ~Served(c)'
      <3>1. Served(d) /\ d \in Others(c) /\ d \notin ClosedBy(c, shared)
        BY <1>2, <2>3 DEF PolicyInv, Becomes, Served, Others
      <3>2. CASE peer[c].reverse
        BY <3>1, <3>2 DEF Served
      <3>3. CASE ~peer[c].reverse
        <4>1. Exclusively(c, shared)
          BY <2>3, <3>3 DEF Exclusively
        <4>2. ClosedBy(c, shared) = {c}
          BY <3>1, <4>1 DEF ClosedBy
        <4>3. ~open'[c]
          BY <1>2, <4>2
        <4> QED
          BY <3>1, <4>3 DEF Served
      <3> QED
        BY <3>2, <3>3
    <2>4. Exclusive'
      BY <2>3 DEF PolicyInv, Exclusive
    <2> QED
      BY <2>1, <2>2, <2>4 DEF PolicyInv
  <1> QED
    BY <1>1, <1>2 DEF Initialise

(*------------------------ One lemma per handler ---------------------------*)

LEMMA WritingOn ==
  ASSUME PolicyInv, NEW c \in Clients, NEW msgs, NEW s \in States \ {"normal"},
         WritesThen(c, msgs, s), UNCHANGED <<screen, peer>>,
         busy' \in Clients => state'[busy'] \in {"authType", "tightResponse"}
  PROVE  MovesOn(c)
  BY DEF MovesOn, WritesThen, Becomes, StayOpen, Close

Initialises(c) ==
    /\ \E shared, before : Initialise(c, shared, before)
    /\ busy' = busy \/ busy' = Nil
    /\ state[c] \notin {"authType", "tightResponse"}
    /\ UNCHANGED <<screen, peer>>

LEMMA WhatHandlersDo ==
  ASSUME PolicyInv, NEW c \in Clients, Connect(c) \/ ServerStep(c)
  PROVE  MovesOn(c) \/ Initialises(c)
  <1>1. CASE Connect(c)
    BY <1>1, HandshakeAssumption DEF PolicyInv, Connect, MovesOn, Becomes, States
  <1>2. CASE ProtocolVersion(c)
    <2>1. state[c] = "version" /\ UNCHANGED <<screen, peer, busy>>
      BY <1>2 DEF ProtocolVersion
    <2>2. \E msgs : \E s \in {"securityType", "initialisation", "authentication"} :
             WritesThen(c, msgs, s)
      BY <1>2 DEF ProtocolVersion, SendSecurityType, SendSecurityTypeList
    <2>3. PICK msgs, s : s \in {"securityType", "initialisation", "authentication"}
                         /\ WritesThen(c, msgs, s)
      BY <2>2
    <2>4. busy' \in Clients => state'[busy'] \in {"authType", "tightResponse"}
      BY <2>1, <2>3 DEF PolicyInv, WritesThen, Becomes
    <2> QED
      BY <2>1, <2>3, <2>4, WritingOn DEF States
  <1>3. CASE SecurityType(c)
    <2>1. state[c] = "securityType" /\ UNCHANGED <<screen, peer>> /\ busy \in {Nil, c}
      BY <1>3 DEF SecurityType, Runs
    <2>2. busy = Nil
      BY <2>1 DEF PolicyInv
    <2>3. CASE Close(c, "type") /\ UNCHANGED <<state, busy>>
      BY <2>1, <2>2, <2>3, HandshakeAssumption DEF PolicyInv, MovesOn, Close
    <2>4. CASE VncAuthNone(c)
      <3>1. UNCHANGED busy
        BY <2>4 DEF VncAuthNone
      <3>2. CASE minor[c] = 889
        BY <2>1, <2>4, <3>1, <3>2 DEF VncAuthNone, Initialises
      <3>3. CASE minor[c] # 889
        BY <2>1, <2>2, <2>4, <3>1, <3>3, WritingOn, HandshakeAssumption DEF VncAuthNone, States
      <3> QED
        BY <3>2, <3>3
    <2>5. CASE VncAuthSendChallenge(c)
      BY <2>1, <2>2, <2>5, WritingOn, HandshakeAssumption DEF VncAuthSendChallenge, States
    <2>6. CASE HandleSecTypeTight(c)
      <3>1. CASE TightCaps(c) = <<>>
        BY <2>1, <2>2, <2>6, <3>1, WritingOn, HandshakeAssumption DEF HandleSecTypeTight, States
      <3>2. CASE TightCaps(c) # <<>>
        <4> DEFINE msgs == <<Msg("tunnels", Nil), Msg("authCaps", TightCaps(c))>>
        <4>1. WritesThen(c, msgs, "authType") /\ busy' = IF open'[c] THEN c ELSE Nil
          BY <2>6, <3>2 DEF HandleSecTypeTight
        <4> HIDE DEF msgs
        <4>2. state'[c] = "authType" \/ ~open'[c]
          BY <4>1 DEF WritesThen, Becomes, Close, PolicyInv
        <4> QED
          BY <2>1, <4>1, <4>2, WritingOn, HandshakeAssumption DEF States
      <3> QED
        BY <3>1, <3>2
    <2> QED
      BY <1>3, <2>3, <2>4, <2>5, <2>6 DEF SecurityType
  <1>4. CASE AuthType(c)
    <2>1. UNCHANGED <<screen, peer>>
      BY <1>4 DEF AuthType
    <2>2. CASE /\ WritesThen(c, <<Msg("challenge", c)>>, "tightResponse")
               /\ busy' = IF open'[c] THEN c ELSE Nil
      <3>1. state'[c] = "tightResponse" \/ ~open'[c]
        BY <2>2 DEF WritesThen, Becomes, Close, PolicyInv
      <3> QED
        BY <2>1, <2>2, <3>1, WritingOn, HandshakeAssumption DEF States
    <2>3. CASE Close(c, "type") /\ busy' = Nil /\ UNCHANGED state
      BY <2>1, <2>3, HandshakeAssumption DEF PolicyInv, MovesOn, Close
    <2> QED
      BY <1>4, <2>2, <2>3 DEF AuthType
  <1>5. CASE Authentication(c)
    <2>1. UNCHANGED <<screen, peer>> /\ busy' = Nil
      BY <1>5 DEF Authentication
    <2>2. CASE WritesThen(c, <<Msg("result", "ok")>>, "initialisation")
      BY <2>1, <2>2, WritingOn, HandshakeAssumption DEF States
    <2>3. CASE Close(c, "password") /\ UNCHANGED state
      BY <2>1, <2>3, HandshakeAssumption DEF PolicyInv, MovesOn, Close
    <2> QED
      BY <1>5, <2>2, <2>3 DEF Authentication, WritesAndCloses
  <1>6. CASE ClientInit(c)
    BY <1>6 DEF ClientInit, Initialises
  <1>7. CASE ReadFails(c)
    BY <1>7, HandshakeAssumption DEF PolicyInv, ReadFails, MovesOn, Close
  <1> QED
    BY <1>1, <1>2, <1>3, <1>4, <1>5, <1>6, <1>7 DEF ServerStep

LEMMA ServerSteps ==
  ASSUME PolicyInv, NEW c \in Clients, Connect(c) \/ ServerStep(c)
  PROVE  PolicyInv'
  BY WhatHandlersDo, MovingOn, Initialising DEF Initialises

LEMMA ViewerSteps ==
  ASSUME NEW c \in Clients, ViewerStep(c) \/ HangUp(c)
  PROVE  UNCHANGED <<screen, peer, serverVars>>
  BY DEF ViewerStep, HangUp, ViewerVersion, ViewerList, ViewerScheme, ViewerChallenge,
         ViewerResult, ViewerReason, ViewerTunnels, ViewerAuthCaps, ViewerServerInit,
         ViewerCaps, ViewerReadFails, Reads

LEMMA PolicyStep == PolicyInv /\ [Next]_vars => PolicyInv'
  <1> SUFFICES ASSUME PolicyInv, [Next]_vars PROVE PolicyInv'
    OBVIOUS
  <1>1. CASE UNCHANGED <<screen, peer, state, open, busy>>
    BY <1>1 DEF PolicyInv, Exclusive, Served
  <1> QED
    BY <1>1, ServerSteps, ViewerSteps DEF Next, vars, serverVars, OtherConnection

(* neverShared: whoever connects while whoever else does, at most one      *)
(* client that came by itself is open and in RFB_NORMAL.                   *)
THEOREM AtMostOne == Spec => []Exclusive
  <1>1. PolicyInv => Exclusive
    BY DEF PolicyInv
  <1> QED
    BY <1>1, PolicyInit, PolicyStep, PTL DEF Spec

(* A step of the server closes the client it serves, and that only when    *)
(* its viewer has gone or it is not in RFB_NORMAL, or those that the       *)
(* policy closes.                                                          *)
LEMMA WhoIsClosed ==
  ASSUME PolicyInv, screen.dontDisconnect, NEW c \in Clients,
         Connect(c) \/ ServerStep(c), NEW d \in Clients,
         open[d], state[d] = "normal", at[d] # "gone"
  PROVE  open'[d]
  <1>1. CASE d # c
    <2>1. CASE Initialises(c)
      <3>1. PICK shared, before : Initialise(c, shared, before)
        BY <2>1 DEF Initialises
      <3>2. d \notin ClosedBy(c, shared)
        BY <1>1 DEF ClosedBy
      <3> QED
        BY <1>1, <3>1, <3>2 DEF Initialise, Close, PolicyInv
    <2>2. CASE MovesOn(c)
      BY <1>1, <2>2 DEF MovesOn, PolicyInv
    <2> QED
      BY <2>1, <2>2, WhatHandlersDo
  <1>2. CASE d = c
    <2>1. ~ReadFails(c)
      BY <1>2, HandshakeAssumption DEF ReadFails, PolicyInv
    <2> QED
      BY <1>2, <2>1 DEF Connect, ServerStep, ProtocolVersion, SecurityType, AuthType,
                        Authentication, ClientInit
  <1> QED
    BY <1>1, <1>2

(* dontDisconnect: no client in RFB_NORMAL whose viewer is there is ever   *)
(* closed, neither for another one nor by mistake.                         *)
THEOREM NobodyDisconnected == Spec => NotDisconnected
  <1>1. ASSUME PolicyInv, Next
        PROVE  screen.dontDisconnect =>
                 \A c \in Clients : open[c] /\ state[c] = "normal" /\ at[c] # "gone" => open'[c]
    BY <1>1, WhoIsClosed, ViewerSteps DEF Next, serverVars, OtherConnection
  <1>2. PolicyInv /\ [Next]_vars => [screen.dontDisconnect =>
          \A c \in Clients : open[c] /\ state[c] = "normal" /\ at[c] # "gone" => open'[c]]_vars
    BY <1>1
  <1> QED
    BY <1>2, PolicyInit, PolicyStep, PTL DEF Spec, NotDisconnected

(*-------------------------- The conversation ------------------------------*)

(*------------------------- The list of handlers ---------------------------*)

HandlersType == [head : Handlers \cup {Nil}, next : [Handlers -> Handlers \cup {Nil}]]
(* Of the handlers at most one has another one after it.                   *)
OneLink(list, h, k) == list.next = [[x \in Handlers |-> Nil] EXCEPT ![h] = k]
HandlersOK(list) ==
    \/ list.head \in Handlers \cup {Nil} /\ OneLink(list, "None", Nil)
    \/ list.head \in {"None", "VncAuth"} /\ \E h \in {"None", "VncAuth"} : OneLink(list, h, "Tight")
    \/ list.head = "Tight" /\ \E h \in {"None", "VncAuth"} : OneLink(list, "Tight", h)

(*---------------------- Where a connection can be -------------------------*)

(* The security types a client may be offered, and what a viewer sends.    *)
Types(c) == IF NeedsPassword(c) THEN {"VncAuth", "Tight"} ELSE Handlers
Type(c) == Msg("type", scheme[c])
(* A viewer may also ask for a type that it was not offered.               *)
Askable(c) == Types(c) \cup (Handlers \ Range(offered[c]))
MayAsk(c) == scheme[c] \in Types(c) \/ Unlisted(c)
Response(c) == Msg("response", peer[c].password)
InitMsg(c) == Msg("clientInit", peer[c].shared)
Ok == Msg("result", "ok")
Failed == Msg("result", "failed")
Reason == Msg("reason", Nil)
Tunnels == Msg("tunnels", Nil)
Challenge(c) == Msg("challenge", c)
NoCaps == Msg("authCaps", <<>>)
PasswordCap == Msg("authCaps", <<"VncAuth">>)

(* The server is open, the viewer has not gone: where both of them are,    *)
(* and what is on its way.                                                 *)
Way(c, stage, down, up) == at[c] = stage /\ toViewer[c] = down /\ toServer[c] = up

InVersion(c) ==
    /\ state[c] = "version" /\ ~tight[c] /\ scheme[c] = Nil
    /\ \/ Way(c, "version", <<Msg("version", screen.minor)>>, <<>>)
       \/ Way(c, IF viewerMinor[c] > 6 THEN "list" ELSE "scheme", <<>>,
              <<Msg("version", viewerMinor[c])>>)

ListSent(c) == toViewer[c][1].value
InSecurityType(c) ==
    /\ state[c] = "securityType" /\ ~tight[c]
    /\ minor[c] = viewerMinor[c] /\ minor[c] > 6
    /\ \/ /\ scheme[c] = Nil /\ toViewer[c] # <<>>
          /\ ListSent(c) \in Seq(Types(c)) \ {<<>>} /\ offered[c] = ListSent(c)
          /\ Way(c, "list", <<Msg("list", ListSent(c))>>, <<>>)
       \/ /\ MayAsk(c)
          /\ \/ scheme[c] = "VncAuth" /\ Way(c, "challenge", <<>>, <<Type(c)>>)
             \/ scheme[c] = "Tight" /\ Way(c, "tunnel", <<>>, <<Type(c)>>)
             \/ /\ scheme[c] = "None"
                /\ IF peer[c].kind = "mac" THEN Way(c, "serverInit", <<>>, <<Type(c)>>)
                   ELSE IF minor[c] > 7 THEN Way(c, "result", <<>>, <<Type(c)>>)
                   ELSE Way(c, "serverInit", <<>>, <<Type(c), InitMsg(c)>>)

InAuthType(c) ==
    /\ state[c] = "authType" /\ tight[c] /\ scheme[c] = "Tight" /\ minor[c] = viewerMinor[c]
    /\ \/ Way(c, "tunnel", <<Tunnels, PasswordCap>>, <<>>)
       \/ Way(c, "authCaps", <<PasswordCap>>, <<>>)
       \/ Way(c, "challenge", <<>>, <<Msg("type", "VncAuth")>>)

InAuthentication(c) ==
    /\ minor[c] = viewerMinor[c]
    /\ \/ /\ state[c] = "authentication" /\ ~tight[c] /\ scheme[c] = Nil
          /\ minor[c] < 7
          /\ Way(c, "scheme", <<Msg("scheme", "VncAuth"), Challenge(c)>>, <<>>)
       \/ /\ \/ state[c] = "authentication" /\ ~tight[c] /\ scheme[c] = "VncAuth"
             \/ state[c] = "tightResponse" /\ tight[c] /\ scheme[c] = "Tight"
          /\ \/ Way(c, "challenge", <<Challenge(c)>>, <<>>)
             \/ Way(c, "result", <<>>, <<Response(c)>>)

InInitialisation(c) ==
    /\ state[c] = "initialisation" /\ minor[c] = viewerMinor[c]
    /\ \/ /\ ~tight[c] /\ scheme[c] = Nil /\ minor[c] < 7
          /\ Way(c, "scheme", <<Msg("scheme", "None")>>, <<>>)
       \/ /\ tight[c] /\ scheme[c] = "Tight"
          /\ \/ Way(c, "tunnel",
                    IF minor[c] > 7 THEN <<Tunnels, NoCaps, Ok>> ELSE <<Tunnels, NoCaps>>, <<>>)
             \/ Way(c, "authCaps", IF minor[c] > 7 THEN <<NoCaps, Ok>> ELSE <<NoCaps>>, <<>>)
       \/ /\ scheme[c] \in Handlers /\ (tight[c] <=> scheme[c] = "Tight")
          /\ \/ /\ scheme[c] = "None" => peer[c].kind # "mac" \/ minor[c] < 7
                /\ Way(c, "result", <<Ok>>, <<>>)
             \/ Way(c, "serverInit", <<>>, <<InitMsg(c)>>)

InNormal(c) ==
    /\ state[c] = "normal" /\ scheme[c] \in Handlers /\ (tight[c] <=> scheme[c] = "Tight")
    /\ \/ Way(c, "serverInit", IF tight[c] THEN <<Msg("serverInit", Nil), Msg("caps", Nil)>>
                               ELSE <<Msg("serverInit", Nil)>>, <<>>)
       \/ tight[c] /\ Way(c, "caps", <<Msg("caps", Nil)>>, <<>>)
       \/ Way(c, "up", <<>>, <<>>)

Together(c) == \/ InVersion(c) \/ InSecurityType(c) \/ InAuthType(c) \/ InAuthentication(c)
               \/ InInitialisation(c) \/ InNormal(c)

(* The viewer has gone: what the server may still find.                    *)
Leftover(c) ==
    \/ toServer[c] = <<>> /\ state[c] \in States \ {"none"}
    \/ state[c] = "version" /\ toServer[c] = <<Msg("version", viewerMinor[c])>>
    \/ state[c] = "securityType" /\ MayAsk(c) /\ toServer[c] = <<Type(c)>>
    \/ /\ state[c] = "securityType" /\ MayAsk(c) /\ scheme[c] = "None" /\ minor[c] < 8
       /\ toServer[c] = <<Type(c), InitMsg(c)>>
    \/ state[c] = "authType" /\ toServer[c] = <<Msg("type", "VncAuth")>>
    \/ state[c] \in {"authentication", "tightResponse"} /\ toServer[c] = <<Response(c)>>
    \/ state[c] = "initialisation" /\ toServer[c] = <<InitMsg(c)>>

(* The server has closed: what the viewer may still find.                  *)
LastWords(c) ==
    \/ at[c] \in {"challenge", "tunnel", "result", "serverInit", "up"} /\ toViewer[c] = <<>>
    \/ at[c] = "challenge" /\ toViewer[c] = <<Challenge(c)>>
    \/ at[c] = "tunnel" /\ toViewer[c] = <<Tunnels, PasswordCap>>
    \/ at[c] = "authCaps" /\ toViewer[c] = <<PasswordCap>>
    \/ /\ at[c] = "result"
       /\ toViewer[c] = IF viewerMinor[c] > 7 THEN <<Failed, Reason>> ELSE <<Failed>>
    \/ at[c] = "reason" /\ toViewer[c] = <<Reason>>
    \/ /\ at[c] = "serverInit"
       /\ toViewer[c] = IF scheme[c] = "Tight"
                        THEN <<Msg("serverInit", Nil), Msg("caps", Nil)>>
                        ELSE <<Msg("serverInit", Nil)>>
    \/ at[c] = "caps" /\ toViewer[c] = <<Msg("caps", Nil)>>

Session(c) ==
    \/ /\ state[c] = "none" /\ ~open[c] /\ Way(c, "off", <<>>, <<>>)
       /\ scheme[c] = Nil /\ ~tight[c] /\ ~viewOnly[c]
    \/ /\ state[c] # "none" /\ at[c] # "off"
       /\ open[c] /\ at[c] # "gone" => Together(c)
       /\ open[c] /\ at[c] = "gone" => Leftover(c)
       /\ ~open[c] /\ at[c] # "gone" => LastWords(c)

Versioned(c) == viewerMinor[c] > 6 => (viewerMinor[c] = 889 <=> peer[c].kind = "mac")
OnlyViewer(c) == open[c] /\ state[c] \notin {"initialisation", "normal"} => ~viewOnly[c]

AuthenticatedAt(c) ==
    state[c] \in {"initialisation", "normal"} /\ NeedsPassword(c) => Entitled(c)

ClientOK(c) == Session(c) /\ Versioned(c) /\ OnlyViewer(c) /\ AuthenticatedAt(c)
ListOK == HandlersOK(handlers)
Shape == /\ TypeOK /\ scheme \in [Clients -> Handlers \cup {Nil}]
         /\ offered = [c \in Clients |-> offered[c]]
         /\ toServer = [c \in Clients |-> toServer[c]]
         /\ toViewer = [c \in Clients |-> toViewer[c]]
Sessions == \A c \in Clients : ClientOK(c)

(* Messages on their way: what is read next, and what is left.             *)
LEMMA Readings ==
  ASSUME NEW a, NEW b, NEW d
  PROVE  /\ <<a>> # <<>> /\ Head(<<a>>) = a /\ Tail(<<a>>) = <<>>
         /\ <<a, b>> # <<>> /\ Head(<<a, b>>) = a /\ Tail(<<a, b>>) = <<b>>
         /\ <<a, b, d>> # <<>> /\ Head(<<a, b, d>>) = a /\ Tail(<<a, b, d>>) = <<b, d>>
  OBVIOUS

(* And what is there after some more have been written.                    *)
LEMMA Writings ==
  ASSUME NEW a, NEW b, NEW d
  PROVE  /\ <<>> \o <<a>> = <<a>> /\ <<>> \o <<a, b>> = <<a, b>>
         /\ <<>> \o <<a, b, d>> = <<a, b, d>> /\ <<>> \o <<>> = <<>>
         /\ <<a>> \o <<>> = <<a>> /\ <<a, b>> \o <<>> = <<a, b>>
         /\ <<a>> \o <<b>> = <<a, b>> /\ <<a, b>> \o <<d>> = <<a, b, d>>
  <1> DEFINE S == {a, b, d}
  <1>1. /\ <<>> \in Seq(S) /\ <<a>> \in Seq(S) /\ <<b>> \in Seq(S) /\ <<d>> \in Seq(S)
        /\ <<a, b>> \in Seq(S) /\ <<a, b, d>> \in Seq(S) /\ b \in S /\ d \in S
    OBVIOUS
  <1> HIDE DEF S
  <1>2. /\ <<>> \o <<a>> = <<a>> /\ <<>> \o <<a, b>> = <<a, b>>
        /\ <<>> \o <<a, b, d>> = <<a, b, d>> /\ <<>> \o <<>> = <<>>
        /\ <<a>> \o <<>> = <<a>> /\ <<a, b>> \o <<>> = <<a, b>>
    BY <1>1, ConcatEmptySeq
  <1>3. ASSUME NEW s \in Seq(S), NEW t \in Seq(S), Len(t) = 2, Len(s) = 2,
               s[1] = t[1], s[2] = t[2]
        PROVE  s = t
    <2>1. \A i \in 1 .. Len(s) : s[i] = t[i]
      BY <1>3
    <2> QED
      BY <1>3, <2>1, SeqEqual
  <1>4. <<a>> \o <<b>> = <<a, b>>
    <2>1. /\ <<a>> \o <<b>> \in Seq(S) /\ Len(<<a>> \o <<b>>) = 2
          /\ (<<a>> \o <<b>>)[1] = a /\ (<<a>> \o <<b>>)[2] = b
      BY <1>1, ConcatProperties
    <2>2. Len(<<a, b>>) = 2 /\ <<a, b>>[1] = a /\ <<a, b>>[2] = b
      OBVIOUS
    <2> QED
      BY <1>1, <1>3, <2>1, <2>2
  <1>5. ASSUME NEW s \in Seq(S), NEW t \in Seq(S), Len(t) = 3, Len(s) = 3,
               s[1] = t[1], s[2] = t[2], s[3] = t[3]
        PROVE  s = t
    <2>1. \A i \in 1 .. Len(s) : s[i] = t[i]
      BY <1>5
    <2> QED
      BY <1>5, <2>1, SeqEqual
  <1>6. <<a, b>> \o <<d>> = <<a, b, d>>
    <2> DEFINE s == <<a, b>> \o <<d>>
    <2>1. /\ s \in Seq(S) /\ Len(s) = 3
          /\ \A i \in 1 .. 3 : s[i] = IF i <= 2 THEN <<a, b>>[i] ELSE <<d>>[i - 2]
      BY <1>1, ConcatProperties
    <2> HIDE DEF s
    <2>2. s[1] = a /\ s[2] = b /\ s[3] = d
      BY <2>1
    <2>3. Len(<<a, b, d>>) = 3 /\ <<a, b, d>>[1] = a /\ <<a, b, d>>[2] = b /\ <<a, b, d>>[3] = d
      OBVIOUS
    <2>4. s = <<a, b, d>>
      BY <1>1, <1>5, <2>1, <2>2, <2>3
    <2> QED
      BY <2>4 DEF s
  <1> QED
    BY <1>2, <1>4, <1>6

(* The list at the beginning is empty or consists of Tight.                *)
LEMMA FirstList == ASSUME Init PROVE ListOK
  BY DEF Init, ListOK, HandlersOK, OneLink, Handlers, Nil

Other(primary) == IF primary = "None" THEN "VncAuth" ELSE "None"
(* A list by its head and by what follows each handler.                    *)
Pointers(primary, a, p, o, t) ==
    [head |-> a, next |-> [x \in Handlers |-> IF x = primary THEN p
                                              ELSE IF x = "Tight" THEN t ELSE o]]

(* What follows each handler.                                              *)
LEMMA Following ==
  ASSUME NEW primary \in {"None", "VncAuth"}, NEW a, NEW p, NEW o, NEW t
  PROVE  LET list == Pointers(primary, a, p, o, t)
         IN  /\ list.head = a
             /\ After(list, Nil) = Nil /\ After(list, primary) = p
             /\ After(list, Other(primary)) = o /\ After(list, "Tight") = t
             /\ primary # Nil /\ primary # "Tight" /\ Other(primary) # Nil
             /\ Other(primary) # "Tight" /\ Other(primary) # primary /\ "Tight" # Nil
             /\ Handlers = {primary, Other(primary), "Tight"}
  BY DEF Pointers, After, Other, Handlers, Nil

(* The lists there can be, seen from a primary type.                       *)
LEMMA PointersOf ==
  ASSUME NEW list \in HandlersType, NEW primary \in {"None", "VncAuth"}, HandlersOK(list)
  PROVE  LET O == Other(primary)
         IN  \/ \E a \in {Nil, primary, O, "Tight"} : list = Pointers(primary, a, Nil, Nil, Nil)
             \/ \E a \in {primary, O} : \/ list = Pointers(primary, a, "Tight", Nil, Nil)
                                        \/ list = Pointers(primary, a, Nil, "Tight", Nil)
             \/ \E h \in {primary, O} : list = Pointers(primary, "Tight", Nil, Nil, h)
  <1>1. list = [head |-> list.head, next |-> list.next]
    BY DEF HandlersType
  <1>2. CASE list.head \in Handlers \cup {Nil} /\ OneLink(list, "None", Nil)
    <2>1. list.next = [x \in Handlers |-> Nil]
      BY <1>2 DEF OneLink
    <2>2. list = Pointers(primary, list.head, Nil, Nil, Nil)
      BY <1>1, <2>1 DEF Pointers
    <2>3. list.head \in {Nil, primary, Other(primary), "Tight"}
      BY <1>2 DEF Handlers, Other
    <2> QED
      BY <2>2, <2>3
  <1>3. CASE list.head \in {"None", "VncAuth"}
             /\ \E h \in {"None", "VncAuth"} : OneLink(list, h, "Tight")
    <2>1. list.head \in {primary, Other(primary)}
      BY <1>3 DEF Other
    <2>2. CASE OneLink(list, primary, "Tight")
      <3>1. list.next = [x \in Handlers |-> IF x = primary THEN "Tight"
                                            ELSE IF x = "Tight" THEN Nil ELSE Nil]
        BY <2>2 DEF OneLink, Handlers
      <3> QED
        BY <1>1, <2>1, <3>1 DEF Pointers
    <2>3. CASE OneLink(list, Other(primary), "Tight")
      <3>1. list.next = [x \in Handlers |-> IF x = primary THEN Nil
                                            ELSE IF x = "Tight" THEN Nil ELSE "Tight"]
        BY <2>3 DEF OneLink, Handlers, Other
      <3> QED
        BY <1>1, <2>1, <3>1 DEF Pointers
    <2> QED
      BY <1>3, <2>2, <2>3 DEF Other
  <1>4. CASE list.head = "Tight" /\ \E h \in {"None", "VncAuth"} : OneLink(list, "Tight", h)
    <2>1. PICK h \in {"None", "VncAuth"} : OneLink(list, "Tight", h)
      BY <1>4
    <2>2. list.next = [x \in Handlers |-> IF x = primary THEN Nil
                                          ELSE IF x = "Tight" THEN h ELSE Nil]
      BY <2>1 DEF OneLink, Handlers
    <2>3. h \in {primary, Other(primary)}
      BY DEF Other
    <2> QED
      BY <1>1, <1>4, <2>2, <2>3 DEF Pointers
  <1> QED
    BY <1>2, <1>3, <1>4 DEF HandlersOK

(* One handler is taken out.                                               *)
LEMMA TakenOut ==
  ASSUME NEW primary \in {"None", "VncAuth"}, NEW a, NEW p, NEW o, NEW t
  PROVE  LET list == Pointers(primary, a, p, o, t)
             O == Other(primary)
         IN  /\ Unlink(list, Nil) = list
             /\ a = O => Unlink(list, O) = Pointers(primary, o, p, o, t)
             /\ a = "Tight" => Unlink(list, "Tight") = Pointers(primary, t, p, o, t)
             /\ a = "Tight" /\ t = O /\ p = Nil /\ o = Nil
                  => Unlink(list, O) = Pointers(primary, a, p, o, Nil)
             /\ \A h : ~IsListed(list, h) => Unlink(list, h) = list
  <1> DEFINE list == Pointers(primary, a, p, o, t)
             O == Other(primary)
  <1>1. /\ list.head = a
        /\ After(list, Nil) = Nil /\ After(list, primary) = p
        /\ After(list, O) = o /\ After(list, "Tight") = t
        /\ primary # Nil /\ primary # "Tight" /\ O # Nil
        /\ O # "Tight" /\ O # primary /\ "Tight" # Nil
    BY Following
  <1>2. list.next[O] = o /\ list.next["Tight"] = t
    BY <1>1 DEF After
  <1>3. \A b : [head |-> b, next |-> list.next] = Pointers(primary, b, p, o, t)
    BY DEF Pointers
  <1>4. IsListed(list, a)
    BY <1>1 DEF IsListed
  <1> HIDE DEF list
  <1>5. a = O => Unlink(list, O) = Pointers(primary, o, p, o, t)
    BY <1>1, <1>2, <1>3, <1>4 DEF Unlink
  <1>6. a = "Tight" => Unlink(list, "Tight") = Pointers(primary, t, p, o, t)
    BY <1>1, <1>2, <1>3, <1>4 DEF Unlink
  <1>7. (\A h : ~IsListed(list, h) => Unlink(list, h) = list) /\ Unlink(list, Nil) = list
    BY DEF Unlink
  <1>8. ASSUME a = "Tight", t = O, p = Nil, o = Nil
        PROVE  Unlink(list, O) = Pointers(primary, a, p, o, Nil)
    <2>1. \A h : IsListed(list, h) <=> h \in {"Tight", O, Nil}
      BY <1>1, <1>8 DEF IsListed
    <2>2. /\ IsListed(list, O) /\ O # Nil /\ list.head # O
          /\ list.next[O] = Nil
      BY <1>1, <1>2, <1>8, <2>1
    <2>3. Unlink(list, O) = [head |-> list.head,
             next |-> [x \in Handlers |-> IF list.next[x] = O /\ IsListed(list, x)
                                          THEN list.next[O] ELSE list.next[x]]]
      BY <2>2 DEF Unlink
    <2>4. \A x \in Handlers : (IF list.next[x] = O /\ IsListed(list, x)
                               THEN list.next[O] ELSE list.next[x]) = Nil
      BY <1>1, <1>2, <1>8, <2>1, <2>2 DEF list, Pointers
    <2>5. [x \in Handlers |-> IF list.next[x] = O /\ IsListed(list, x)
                              THEN list.next[O] ELSE list.next[x]] = [x \in Handlers |-> Nil]
      BY <2>4
    <2>6. Pointers(primary, a, p, o, Nil) = [head |-> a, next |-> [x \in Handlers |-> Nil]]
      BY <1>8 DEF Pointers
    <2> QED
      BY <1>1, <2>3, <2>5, <2>6
  <1> QED
    BY <1>5, <1>6, <1>7, <1>8 DEF list

(* And one is put in.                                                      *)
LEMMA PutIn ==
  ASSUME NEW primary \in {"None", "VncAuth"}, NEW a, NEW p, NEW o, NEW t
  PROVE  LET list == Pointers(primary, a, p, o, t)
         IN  /\ Link(list, Nil) = list
             /\ ~IsListed(list, primary) => Link(list, primary) = Pointers(primary, primary, a, o, t)
             /\ ~IsListed(list, "Tight") => Link(list, "Tight") = Pointers(primary, "Tight", p, o, a)
             /\ \A h : IsListed(list, h) => Link(list, h) = list
  <1> DEFINE list == Pointers(primary, a, p, o, t)
  <1>1. list.head = a /\ primary # Nil /\ primary # "Tight" /\ "Tight" # Nil
    BY Following
  <1>2. [head |-> primary, next |-> [list.next EXCEPT ![primary] = a]]
          = Pointers(primary, primary, a, o, t)
    BY DEF Pointers, Handlers
  <1>3. [head |-> "Tight", next |-> [list.next EXCEPT !["Tight"] = a]]
          = Pointers(primary, "Tight", p, o, a)
    BY <1>1 DEF Pointers, Handlers
  <1> HIDE DEF list
  <1>4. /\ Link(list, Nil) = list /\ \A h : IsListed(list, h) => Link(list, h) = list
        /\ ~IsListed(list, primary) => Link(list, primary) = Pointers(primary, primary, a, o, t)
        /\ ~IsListed(list, "Tight") => Link(list, "Tight") = Pointers(primary, "Tight", p, o, a)
    BY <1>1, <1>2, <1>3 DEF Link
  <1> QED
    BY <1>4 DEF list

(* The handlers in a list, and their order.                                *)
LEMMA WhoIsListed ==
  ASSUME NEW primary \in {"None", "VncAuth"}, NEW a, NEW p, NEW o, NEW t
  PROVE  LET list == Pointers(primary, a, p, o, t)
             O == Other(primary)
             next(h) == IF h = primary THEN p ELSE IF h = O THEN o
                        ELSE IF h = "Tight" THEN t ELSE Nil
         IN  a \in {Nil, primary, O, "Tight"} /\ next(a) \in {Nil, primary, O, "Tight"}
               => /\ \A h : IsListed(list, h) <=> h \in {a, next(a), next(next(a))}
                  /\ Listed(list) = IF a = Nil THEN <<>> ELSE IF next(a) = Nil THEN <<a>>
                                    ELSE IF next(next(a)) = Nil THEN <<a, next(a)>>
                                    ELSE <<a, next(a), next(next(a))>>
  <1> DEFINE list == Pointers(primary, a, p, o, t)
             O == Other(primary)
             next(h) == IF h = primary THEN p ELSE IF h = O THEN o
                        ELSE IF h = "Tight" THEN t ELSE Nil
  <1>1. /\ list.head = a
        /\ After(list, Nil) = Nil /\ After(list, primary) = p
        /\ After(list, O) = o /\ After(list, "Tight") = t
        /\ primary # Nil /\ primary # "Tight" /\ O # Nil
        /\ O # "Tight" /\ O # primary /\ "Tight" # Nil
    BY Following
  <1> HIDE DEF list, O
  <1>2. \A h \in {Nil, primary, O, "Tight"} : After(list, h) = next(h)
    BY <1>1
  <1>3. ASSUME a \in {Nil, primary, O, "Tight"}, next(a) \in {Nil, primary, O, "Tight"}
        PROVE  /\ After(list, list.head) = next(a)
               /\ After(list, After(list, list.head)) = next(next(a))
    BY <1>1, <1>2, <1>3
  <1> HIDE DEF next
  <1>4. ASSUME a \in {Nil, primary, O, "Tight"}, next(a) \in {Nil, primary, O, "Tight"}
        PROVE  /\ \A h : IsListed(list, h) <=> h \in {a, next(a), next(next(a))}
               /\ Listed(list) = IF a = Nil THEN <<>> ELSE IF next(a) = Nil THEN <<a>>
                                 ELSE IF next(next(a)) = Nil THEN <<a, next(a)>>
                                 ELSE <<a, next(a), next(next(a))>>
    BY <1>1, <1>3, <1>4 DEF IsListed, Listed
  <1> QED
    BY <1>4 DEF list, O, next

(* The other primary type is taken out.                                    *)
LEMMA WithoutOther ==
  ASSUME NEW list \in HandlersType, HandlersOK(list), NEW primary \in {"None", "VncAuth"}
  PROVE  LET O == Other(primary)
         IN  Unregistered(list, O) \in
               {Pointers(primary, a, Nil, Nil, Nil) : a \in {Nil, primary, "Tight"}}
               \cup {Pointers(primary, a, Nil, "Tight", Nil) : a \in {Nil, primary}}
               \cup {Pointers(primary, a, "Tight", Nil, Nil) : a \in {Nil, primary}}
               \cup {Pointers(primary, "Tight", Nil, Nil, primary)}
  <1> DEFINE O == Other(primary)
             L(a, p, o, t) == Pointers(primary, a, p, o, t)
  <1>1. /\ primary # Nil /\ primary # "Tight" /\ O # Nil
        /\ O # "Tight" /\ O # primary /\ "Tight" # Nil
    BY Following
  <1>2. \A a, p, t : Unregistered(L(a, p, Nil, t), O) = Unlink(L(a, p, Nil, t), O)
    <2>1. \A l : Unlink(l, Nil) = l /\ After(l, Nil) = Nil
      BY DEF Unlink, After
    <2>2. \A a, p, t : After(L(a, p, Nil, t), O) = Nil
      BY Following
    <2> HIDE DEF L, O
    <2> QED
      BY <2>1, <2>2 DEF Unregistered
  <1>3. \A a, p : Unregistered(L(a, p, "Tight", Nil), O)
                    = Unlink(Unlink(L(a, p, "Tight", Nil), O), "Tight")
    <2>1. \A l : Unlink(l, Nil) = l
      BY DEF Unlink
    <2>2. \A a, p : /\ After(L(a, p, "Tight", Nil), O) = "Tight"
                    /\ After(L(a, p, "Tight", Nil), "Tight") = Nil
      BY Following
    <2> HIDE DEF L, O
    <2> QED
      BY <2>1, <2>2 DEF Unregistered
  <1>4. ASSUME NEW a, NEW p, NEW o, NEW t, NEW h, ~IsListed(L(a, p, o, t), h)
        PROVE  Unlink(L(a, p, o, t), h) = L(a, p, o, t)
    BY <1>4 DEF Unlink
  <1>5. \A p, o, t : Unlink(L(O, p, o, t), O) = L(o, p, o, t)
    BY TakenOut
  <1>6. \A p, o, t : Unlink(L("Tight", p, o, t), "Tight") = L(t, p, o, t)
    BY TakenOut
  <1>7. Unlink(L("Tight", Nil, Nil, O), O) = L("Tight", Nil, Nil, Nil)
    BY TakenOut
  <1>8. /\ \A a \in {Nil, primary, "Tight"} : ~IsListed(L(a, Nil, Nil, Nil), O)
        /\ ~IsListed(L(primary, "Tight", Nil, Nil), O)
        /\ ~IsListed(L(primary, Nil, "Tight", Nil), O)
        /\ ~IsListed(L(primary, Nil, "Tight", Nil), "Tight")
        /\ ~IsListed(L("Tight", Nil, Nil, primary), O)
    BY <1>1, WhoIsListed
  <1> HIDE DEF L, O
  <1>9. /\ \A a \in {Nil, primary, "Tight"} :
               Unregistered(L(a, Nil, Nil, Nil), O) = L(a, Nil, Nil, Nil)
        /\ Unregistered(L(O, Nil, Nil, Nil), O) = L(Nil, Nil, Nil, Nil)
        /\ Unregistered(L(primary, "Tight", Nil, Nil), O) = L(primary, "Tight", Nil, Nil)
        /\ Unregistered(L(O, "Tight", Nil, Nil), O) = L(Nil, "Tight", Nil, Nil)
    BY <1>2, <1>4, <1>5, <1>8
  <1>10. /\ Unregistered(L(primary, Nil, "Tight", Nil), O) = L(primary, Nil, "Tight", Nil)
         /\ Unregistered(L(O, Nil, "Tight", Nil), O) = L(Nil, Nil, "Tight", Nil)
    BY <1>3, <1>4, <1>5, <1>6, <1>8
  <1>11. /\ Unregistered(L("Tight", Nil, Nil, primary), O) = L("Tight", Nil, Nil, primary)
         /\ Unregistered(L("Tight", Nil, Nil, O), O) = L("Tight", Nil, Nil, Nil)
    BY <1>2, <1>4, <1>7, <1>8
  <1>12. \/ \E a \in {Nil, primary, O, "Tight"} : list = L(a, Nil, Nil, Nil)
         \/ \E a \in {primary, O} : \/ list = L(a, "Tight", Nil, Nil)
                                    \/ list = L(a, Nil, "Tight", Nil)
         \/ \E h \in {primary, O} : list = L("Tight", Nil, Nil, h)
    BY PointersOf DEF L, O
  <1>13. Unregistered(list, O) \in
               {L(a, Nil, Nil, Nil) : a \in {Nil, primary, "Tight"}}
               \cup {L(a, Nil, "Tight", Nil) : a \in {Nil, primary}}
               \cup {L(a, "Tight", Nil, Nil) : a \in {Nil, primary}}
               \cup {L("Tight", Nil, Nil, primary)}
    BY <1>9, <1>10, <1>11, <1>12
  <1> QED
    BY <1>13 DEF L, O

(* The primary type is put in: it is what follows that is listed.          *)
LEMMA WithPrimary ==
  ASSUME NEW primary \in {"None", "VncAuth"},
         NEW list \in {Pointers(primary, a, Nil, Nil, Nil) : a \in {Nil, primary, "Tight"}}
               \cup {Pointers(primary, a, Nil, "Tight", Nil) : a \in {Nil, primary}}
               \cup {Pointers(primary, a, "Tight", Nil, Nil) : a \in {Nil, primary}}
               \cup {Pointers(primary, "Tight", Nil, Nil, primary)}
  PROVE  Registered(list, primary) \in
           {Pointers(primary, primary, Nil, Nil, Nil), Pointers(primary, primary, Nil, "Tight", Nil),
            Pointers(primary, primary, "Tight", Nil, Nil),
            Pointers(primary, "Tight", Nil, Nil, primary)}
  <1> DEFINE L(a, p, o, t) == Pointers(primary, a, p, o, t)
  <1>1. /\ primary # Nil /\ primary # "Tight" /\ "Tight" # Nil
    BY Following
  <1>2. \A a, o, t : Registered(L(a, Nil, o, t), primary) = Link(L(a, Nil, o, t), primary)
    BY Following, PutIn DEF Registered
  <1>3. \A a, o : Registered(L(a, "Tight", o, Nil), primary)
                    = Link(Link(L(a, "Tight", o, Nil), primary), "Tight")
    BY Following, PutIn DEF Registered
  <1>4. ASSUME NEW a, NEW p, NEW o, NEW t, NEW h, IsListed(L(a, p, o, t), h)
        PROVE  Link(L(a, p, o, t), h) = L(a, p, o, t)
    BY <1>4, PutIn
  <1>5. \A a, p, o, t : ~IsListed(L(a, p, o, t), primary)
          => Link(L(a, p, o, t), primary) = L(primary, a, o, t)
    BY PutIn
  <1>6. \A a, p, o, t : ~IsListed(L(a, p, o, t), "Tight")
          => Link(L(a, p, o, t), "Tight") = L("Tight", p, o, a)
    BY PutIn
  <1>7. /\ \A a \in {Nil, "Tight"} : ~IsListed(L(a, Nil, Nil, Nil), primary)
        /\ ~IsListed(L(Nil, Nil, "Tight", Nil), primary)
        /\ ~IsListed(L(Nil, "Tight", Nil, Nil), primary)
        /\ ~IsListed(L(primary, Nil, Nil, Nil), "Tight")
        /\ IsListed(L(primary, Nil, Nil, Nil), primary)
        /\ IsListed(L(primary, Nil, "Tight", Nil), primary)
        /\ IsListed(L(primary, "Tight", Nil, Nil), primary)
        /\ IsListed(L(primary, "Tight", Nil, Nil), "Tight")
        /\ IsListed(L("Tight", Nil, Nil, primary), primary)
    BY <1>1, Following, WhoIsListed
  <1> HIDE DEF L
  <1>8. /\ Registered(L(Nil, Nil, Nil, Nil), primary) = L(primary, Nil, Nil, Nil)
        /\ Registered(L("Tight", Nil, Nil, Nil), primary) = L(primary, "Tight", Nil, Nil)
        /\ Registered(L(Nil, Nil, "Tight", Nil), primary) = L(primary, Nil, "Tight", Nil)
    BY <1>2, <1>5, <1>7
  <1>9. /\ Registered(L(primary, Nil, Nil, Nil), primary) = L(primary, Nil, Nil, Nil)
        /\ Registered(L(primary, Nil, "Tight", Nil), primary) = L(primary, Nil, "Tight", Nil)
        /\ Registered(L("Tight", Nil, Nil, primary), primary) = L("Tight", Nil, Nil, primary)
    BY <1>2, <1>4, <1>7
  <1>10. /\ Registered(L(primary, "Tight", Nil, Nil), primary) = L(primary, "Tight", Nil, Nil)
         /\ Registered(L(Nil, "Tight", Nil, Nil), primary) = L("Tight", Nil, Nil, primary)
    BY <1>3, <1>4, <1>5, <1>6, <1>7
  <1>11. \/ \E a \in {Nil, primary, "Tight"} : list = L(a, Nil, Nil, Nil)
         \/ \E a \in {Nil, primary} : \/ list = L(a, Nil, "Tight", Nil)
                                      \/ list = L(a, "Tight", Nil, Nil)
         \/ list = L("Tight", Nil, Nil, primary)
    BY DEF L
  <1>12. Registered(list, primary) \in
           {L(primary, Nil, Nil, Nil), L(primary, Nil, "Tight", Nil),
            L(primary, "Tight", Nil, Nil), L("Tight", Nil, Nil, primary)}
    BY <1>8, <1>9, <1>10, <1>11
  <1> QED
    BY <1>12 DEF L

(* So the list that is sent is the primary type, with Tight before it or   *)
(* after it, and no later list is one that Listed could not follow.        *)
LEMMA NextList ==
  ASSUME NEW list \in HandlersType, HandlersOK(list), NEW primary \in {"None", "VncAuth"}
  PROVE  /\ HandlersOK(Advertised(list, primary))
         /\ Listed(Advertised(list, primary)) \in
              {<<primary>>, <<primary, "Tight">>, <<"Tight", primary>>}
  <1> DEFINE next == Advertised(list, primary)
             L(a, p, o, t) == Pointers(primary, a, p, o, t)
  <1>1. next = Registered(Unregistered(list, Other(primary)), primary)
    BY DEF Advertised, Other
  <1>2. next \in {L(primary, Nil, Nil, Nil), L(primary, Nil, "Tight", Nil),
                  L(primary, "Tight", Nil, Nil), L("Tight", Nil, Nil, primary)}
    BY <1>1, WithoutOther, WithPrimary
  <1>3. primary # Nil /\ primary # "Tight" /\ "Tight" # Nil
    BY Following
  <1>4. /\ Listed(L(primary, Nil, Nil, Nil)) = <<primary>>
        /\ Listed(L(primary, Nil, "Tight", Nil)) = <<primary>>
        /\ Listed(L(primary, "Tight", Nil, Nil)) = <<primary, "Tight">>
        /\ Listed(L("Tight", Nil, Nil, primary)) = <<"Tight", primary>>
    <2>1. Listed(L(primary, Nil, Nil, Nil)) = <<primary>>
      BY <1>3, WhoIsListed
    <2>2. Listed(L(primary, Nil, "Tight", Nil)) = <<primary>>
      BY <1>3, WhoIsListed
    <2>3. Listed(L(primary, "Tight", Nil, Nil)) = <<primary, "Tight">>
      BY <1>3, WhoIsListed
    <2>4. Listed(L("Tight", Nil, Nil, primary)) = <<"Tight", primary>>
      <3> DEFINE O == Other(primary)
      <3>1. O # "Tight"
        BY Following
      <3> HIDE DEF O
      <3>2. (IF "Tight" = primary THEN Nil ELSE IF "Tight" = O THEN Nil
             ELSE IF "Tight" = "Tight" THEN primary ELSE Nil) = primary
        BY <1>3, <3>1
      <3> QED
        BY <1>3, <3>1, <3>2, WhoIsListed DEF O
    <2> QED
      BY <2>1, <2>2, <2>3, <2>4
  <1>5. /\ OneLink(L(primary, Nil, Nil, Nil), "None", Nil)
        /\ OneLink(L(primary, Nil, "Tight", Nil), Other(primary), "Tight")
        /\ OneLink(L(primary, "Tight", Nil, Nil), primary, "Tight")
        /\ OneLink(L("Tight", Nil, Nil, primary), "Tight", primary)
    BY <1>3 DEF OneLink, Pointers, Handlers, Other
  <1>6. /\ L(primary, Nil, Nil, Nil).head = primary
        /\ L(primary, Nil, "Tight", Nil).head = primary
        /\ L(primary, "Tight", Nil, Nil).head = primary
        /\ L("Tight", Nil, Nil, primary).head = "Tight"
    BY DEF Pointers
  <1>7. Other(primary) \in {"None", "VncAuth"} /\ primary \in Handlers
    BY DEF Other, Handlers
  <1> HIDE DEF L
  <1>8. /\ HandlersOK(L(primary, Nil, Nil, Nil)) /\ HandlersOK(L(primary, Nil, "Tight", Nil))
        /\ HandlersOK(L(primary, "Tight", Nil, Nil)) /\ HandlersOK(L("Tight", Nil, Nil, primary))
    BY <1>5, <1>6, <1>7 DEF HandlersOK
  <1> QED
    BY <1>2, <1>4, <1>8

(* A connection of which nothing changes stays as it is.                   *)
Same(d) ==
    /\ UNCHANGED <<screen, peer>>
    /\ UNCHANGED <<state[d], open[d], minor[d], viewOnly[d], tight[d], offered[d]>>
    /\ UNCHANGED <<at[d], viewerMinor[d], scheme[d], toServer[d], toViewer[d]>>

LEMMA SameOK == ASSUME NEW d \in Clients, ClientOK(d), Same(d) PROVE ClientOK(d)'
  <1>1. Session(d)'
    BY DEF ClientOK, Same, Session, Together, InVersion, InSecurityType, InAuthType, InAuthentication,
           InInitialisation, InNormal, Leftover, LastWords, Way, Types, Type, ListSent, Response,
           InitMsg, Challenge, NeedsPassword, MayAsk, Unlisted
  <1> QED
    BY <1>1 DEF ClientOK, Same, Versioned, OnlyViewer, AuthenticatedAt, NeedsPassword, Good, Entitled, Unlisted

(* The viewer goes: what it sent may still be read.                        *)
LEMMA LeavingOK ==
  ASSUME Shape, NEW c \in Clients, ClientOK(c), at[c] \notin {"off", "gone"},
         UNCHANGED <<screen, peer, serverVars>>, UNCHANGED <<viewerMinor[c], scheme[c]>>,
         at'[c] = "gone", toServer'[c] = toServer[c] \/ toServer'[c] = <<>>
  PROVE  ClientOK(c)'
  <1>1. state[c] # "none" /\ state[c] \in States
    BY DEF ClientOK, Session, Shape, TypeOK, Way
  <1>2. ASSUME open[c] PROVE Leftover(c)'
    <2>1. CASE toServer'[c] = <<>>
      BY <1>1, <2>1 DEF Leftover, serverVars
    <2>2. CASE toServer'[c] = toServer[c]
      <3>1. Together(c)
        BY <1>1, <1>2 DEF ClientOK, Session
      <3>2. CASE toServer[c] = <<>>
        BY <2>1, <2>2, <3>2, <1>1 DEF serverVars
      <3>3. CASE toServer[c] # <<>>
        <4>1. UNCHANGED <<state[c], minor[c]>> /\ Types(c)' = Types(c)
          BY DEF serverVars, Types, NeedsPassword
        <4>2. CASE InVersion(c)
          BY <2>2, <3>3, <4>1, <4>2 DEF InVersion, Leftover, Way
        <4>3. CASE InSecurityType(c)
          <5>1. MayAsk(c)
            BY <3>3, <4>3 DEF InSecurityType, Way
          <5>2. \/ toServer[c] = <<Type(c)>>
                \/ /\ scheme[c] = "None" /\ minor[c] < 8
                   /\ toServer[c] = <<Type(c), InitMsg(c)>>
            BY <3>3, <4>3 DEF InSecurityType, Way, Shape, TypeOK
          <5>3. /\ InitMsg(c)' = InitMsg(c) /\ Type(c)' = Type(c)
                /\ state[c] = "securityType" /\ UNCHANGED scheme[c]
            BY <4>3 DEF InitMsg, Type, InSecurityType
          <5>4. MayAsk(c)'
            BY <4>1, <5>1, <5>3 DEF MayAsk, Unlisted, serverVars
          <5>5. CASE toServer[c] = <<Type(c)>>
            BY <2>2, <4>1, <5>3, <5>4, <5>5 DEF Leftover
          <5> QED
            BY <2>2, <4>1, <5>2, <5>3, <5>4, <5>5 DEF Leftover
        <4>4. CASE InAuthType(c)
          BY <2>2, <3>3, <4>1, <4>4 DEF InAuthType, Leftover, Way
        <4>5. CASE InAuthentication(c)
          BY <2>2, <3>3, <4>1, <4>5 DEF InAuthentication, Leftover, Way, Response
        <4>6. CASE InInitialisation(c)
          BY <2>2, <3>3, <4>1, <4>6 DEF InInitialisation, Leftover, Way, InitMsg
        <4> QED
          BY <3>1, <3>3, <4>2, <4>3, <4>4, <4>5, <4>6 DEF Together, InNormal, Way
      <3> QED
        BY <3>2, <3>3
    <2> QED
      BY <2>1, <2>2
  <1>3. Session(c)'
    BY <1>1, <1>2 DEF Session, serverVars
  <1> QED
    BY <1>3 DEF ClientOK, serverVars, Versioned, OnlyViewer, AuthenticatedAt, NeedsPassword, Good, Entitled, Unlisted

(* A viewer reads a message of the given kind: what it finds is from a     *)
(* server that is in step with it, or what one that has closed left.       *)
LEMMA Reading ==
  ASSUME Shape, NEW c \in Clients, ClientOK(c), NEW stage, NEW kind, Reads(c, stage, kind),
         stage \in Stages \ {"off", "gone"}
  PROVE  /\ at[c] = stage /\ state[c] # "none" /\ toViewer[c] # <<>>
         /\ toViewer'[c] = Tail(toViewer[c])
         /\ open[c] => Together(c)
         /\ ~open[c] => LastWords(c)
         /\ UNCHANGED <<screen, peer, serverVars>>
  BY DEF Reads, ClientOK, Session, Way, Shape

(* A step of the viewer of c changes nothing of the other connections.     *)
OfViewer(c) ==
    /\ at' = [at EXCEPT ![c] = at'[c]] /\ at'[c] \in Stages
    /\ viewerMinor' = [viewerMinor EXCEPT ![c] = viewerMinor'[c]] /\ viewerMinor'[c] \in Nat
    /\ scheme' = [scheme EXCEPT ![c] = scheme'[c]] /\ scheme'[c] \in Handlers \cup {Nil}
    /\ toServer' = [toServer EXCEPT ![c] = toServer'[c]]
    /\ toViewer' = [toViewer EXCEPT ![c] = toViewer'[c]]
    /\ UNCHANGED <<screen, peer, serverVars>>

(* So it is enough to look at c.                                           *)
LEMMA ViewerFrame ==
  ASSUME Shape, Sessions, NEW c \in Clients, OfViewer(c), ClientOK(c)'
  PROVE  Shape' /\ Sessions'
  <1>1. Shape'
    BY DEF Shape, TypeOK, OfViewer, serverVars
  <1>2. \A d \in Clients \ {c} : Same(d)
    BY DEF Same, OfViewer, serverVars, Shape, TypeOK
  <1> QED
    BY <1>1, <1>2, SameOK DEF Sessions

(* A viewer cannot change what the server knows of it.                     *)
LEMMA ViewerKeeps ==
  ASSUME NEW c \in Clients, ClientOK(c), UNCHANGED <<screen, peer, serverVars>>
  PROVE  /\ OnlyViewer(c)'
         /\ scheme'[c] = scheme[c] \/ scheme[c] = Nil => AuthenticatedAt(c)'
         /\ UNCHANGED viewerMinor[c] => Versioned(c)'
         /\ UNCHANGED <<state[c], open[c], minor[c], tight[c], Types(c), InitMsg(c), Response(c)>>
  BY DEF serverVars, ClientOK, OnlyViewer, AuthenticatedAt, Versioned, NeedsPassword, Good, Types,
         InitMsg, Response, Entitled, Unlisted, Nil

(* A viewer that answers 3.889 is the Mac one.                             *)
LEMMA Answers ==
  ASSUME Shape, NEW c \in Clients
  PROVE  /\ AnswerMinor(c, screen.minor) \in Nat
         /\ AnswerMinor(c, screen.minor) > 6
              => (AnswerMinor(c, screen.minor) = 889 <=> peer[c].kind = "mac")
  <1>1. screen.minor \in Nat /\ peer[c] \in Peers /\ peer[c].minor \in Nat
    BY HandshakeAssumption DEF Shape, TypeOK, ScreenType, PeerType
  <1>2. LibraryMinor(screen.minor) \in Nat /\ LibraryMinor(screen.minor) <= 8
    BY <1>1 DEF LibraryMinor
  <1>3. CASE peer[c].kind = "library"
    BY <1>2, <1>3 DEF AnswerMinor
  <1>4. CASE peer[c].kind # "library"
    BY <1>1, <1>4, MacAssumption DEF AnswerMinor
  <1> QED
    BY <1>3, <1>4

(* One lemma per message that the viewer reads.                            *)
LEMMA ViewerVersionOK ==
  ASSUME Shape, NEW c \in Clients, ClientOK(c), ViewerVersion(c)
  PROVE  ClientOK(c)' /\ OfViewer(c)
  <1> DEFINE m == AnswerMinor(c, screen.minor)
  <1>1. Reads(c, "version", "version")
    BY DEF ViewerVersion
  <1>2. /\ at[c] = "version" /\ state[c] # "none" /\ toViewer[c] # <<>>
        /\ toViewer'[c] = Tail(toViewer[c]) /\ UNCHANGED <<screen, peer, serverVars>>
        /\ open[c] => Together(c)
        /\ ~open[c] => LastWords(c)
    BY <1>1, Reading DEF Stages
  <1>3. open[c] /\ InVersion(c) /\ toViewer[c] = <<Msg("version", screen.minor)>> /\ toServer[c] = <<>>
    BY <1>2 DEF Together, InVersion, InSecurityType, InAuthType, InAuthentication,
                InInitialisation, InNormal, LastWords, Way
  <1>4. Value(c) = screen.minor
    BY <1>3, Readings DEF Value, Msg
  <1>5. /\ viewerMinor'[c] = m /\ UNCHANGED scheme
        /\ toServer'[c] = <<>> \o <<Msg("version", m)>>
        /\ at'[c] = IF m > 6 THEN "list" ELSE "scheme"
    BY <1>3, <1>4 DEF ViewerVersion, Sends, Moves, Shape, TypeOK
  <1> HIDE DEF m
  <1>6. toServer'[c] = <<Msg("version", m)>> /\ toViewer'[c] = <<>>
    BY <1>2, <1>3, <1>5, Readings, Writings
  <1>7. InVersion(c)'
    BY <1>2, <1>3, <1>5, <1>6 DEF InVersion, Way, serverVars
  <1>8. m \in Nat /\ (m > 6 => (m = 889 <=> peer[c].kind = "mac"))
    BY Answers DEF m
  <1>9. Session(c)'
    BY <1>2, <1>3, <1>5, <1>7 DEF Session, Together, serverVars
  <1>10. OfViewer(c)
    BY <1>2, <1>5, <1>8 DEF OfViewer, ViewerVersion, Reads, Sends, Moves, Shape, TypeOK, Stages
  <1> QED
    BY <1>2, <1>5, <1>8, <1>9, <1>10, ViewerKeeps DEF ClientOK, Versioned

(* ClientInit follows the type, except from a Mac viewer that chose None.  *)
LEMMA GoingOn ==
  ASSUME Shape, NEW c \in Clients, NEW sent, toServer[c] = <<>>, GoesOn(c, sent),
         sent = <<>> \/ sent = <<Type(c)>>'
  PROVE  /\ at' = [at EXCEPT ![c] = "serverInit"] /\ at'[c] = "serverInit"
         /\ toServer' = [toServer EXCEPT ![c] = toServer'[c]]
         /\ LET silent == peer[c].kind = "mac" /\ viewerMinor[c] > 6 /\ scheme'[c] = "None"
            IN  toServer'[c] = IF silent THEN sent
                               ELSE IF sent = <<>> THEN <<InitMsg(c)>>
                               ELSE <<Type(c)', InitMsg(c)>>
  <1> DEFINE silent == peer[c].kind = "mac" /\ viewerMinor[c] > 6 /\ scheme'[c] = "None"
             rest == IF silent THEN <<>> ELSE <<InitMsg(c)>>
  <1>1. toServer' = [toServer EXCEPT ![c] = <<>> \o (sent \o rest)]
    BY DEF GoesOn, Sends, InitMsg
  <1>2. toServer'[c] = <<>> \o (sent \o rest)
    BY <1>1 DEF Shape
  <1>3. CASE silent
    BY <1>1, <1>2, <1>3, Writings DEF GoesOn, Moves, Shape, TypeOK
  <1>4. CASE ~silent
    BY <1>1, <1>2, <1>4, Writings DEF GoesOn, Moves, Shape, TypeOK
  <1> QED
    BY <1>3, <1>4

(* The viewer asks for a type, of the list it was sent or another one.     *)
LEMMA Choosing ==
  ASSUME Shape, NEW c \in Clients, NEW t \in Askable(c), toServer[c] = <<>>,
         Starts(c, t, <<Msg("type", t)>>), Versioned(c), viewerMinor[c] > 6,
         minor[c] = viewerMinor[c], UNCHANGED <<screen, peer, serverVars>>,
         state[c] = "securityType", ~tight[c], toViewer'[c] = <<>>
  PROVE  /\ InSecurityType(c)'
         /\ at' = [at EXCEPT ![c] = at'[c]] /\ at'[c] \in Stages
         /\ scheme' = [scheme EXCEPT ![c] = t] /\ scheme'[c] = t /\ t \in Handlers
         /\ toServer' = [toServer EXCEPT ![c] = toServer'[c]]
         /\ UNCHANGED viewerMinor
  <1>1. /\ scheme' = [scheme EXCEPT ![c] = t] /\ scheme'[c] = t /\ t \in Handlers
        /\ MayAsk(c)' /\ UNCHANGED viewerMinor
        /\ Type(c)' = Msg("type", t) /\ InitMsg(c)' = InitMsg(c)
    BY DEF Shape, Starts, Types, Handlers, NeedsPassword, Type, InitMsg, Askable, MayAsk, Unlisted,
           serverVars
  <1>2. /\ state'[c] = "securityType" /\ ~tight'[c]
        /\ minor'[c] = viewerMinor'[c] /\ minor'[c] > 6 /\ UNCHANGED minor[c]
    BY <1>1 DEF serverVars
  <1>3. ASSUME NEW stage \in Stages, Moves(c, stage), Sends(c, <<Msg("type", t)>>)
        PROVE  /\ at' = [at EXCEPT ![c] = at'[c]] /\ at'[c] = stage
               /\ toServer' = [toServer EXCEPT ![c] = toServer'[c]]
               /\ toServer'[c] = <<Type(c)>>'
    BY <1>1, <1>3, Writings DEF Moves, Sends, Shape, TypeOK
  <1>4. CASE t = "VncAuth"
    <2>1. Moves(c, "challenge") /\ Sends(c, <<Msg("type", t)>>)
      BY <1>4 DEF Starts
    <2> QED
      BY <1>1, <1>2, <1>3, <1>4, <2>1 DEF Stages, InSecurityType, Way
  <1>5. CASE t = "Tight"
    <2>1. Moves(c, "tunnel") /\ Sends(c, <<Msg("type", t)>>)
      BY <1>5 DEF Starts
    <2> QED
      BY <1>1, <1>2, <1>3, <1>5, <2>1 DEF Stages, InSecurityType, Way
  <1>6. CASE t = "None" /\ viewerMinor[c] > 7 /\ peer[c].kind # "mac"
    <2>1. Moves(c, "result") /\ Sends(c, <<Msg("type", t)>>)
      BY <1>6 DEF Starts
    <2> QED
      BY <1>1, <1>2, <1>3, <1>6, <2>1 DEF Stages, InSecurityType, Way
  <1>7. CASE t = "None" /\ ~(viewerMinor[c] > 7 /\ peer[c].kind # "mac")
    <2>1. GoesOn(c, <<Msg("type", t)>>)
      BY <1>7 DEF Starts
    <2>2. /\ at' = [at EXCEPT ![c] = "serverInit"] /\ at'[c] = "serverInit"
          /\ toServer' = [toServer EXCEPT ![c] = toServer'[c]]
          /\ toServer'[c] = IF peer[c].kind = "mac" THEN <<Type(c)>>'
                            ELSE <<Type(c)', InitMsg(c)>>
      <3>1. <<Msg("type", t)>> = <<Type(c)>>' /\ <<Msg("type", t)>> # <<>>
        BY <1>1
      <3>2. (peer[c].kind = "mac" /\ viewerMinor[c] > 6 /\ scheme'[c] = "None")
              <=> peer[c].kind = "mac"
        BY <1>1, <1>7
      <3> QED
        BY <2>1, <3>1, <3>2, GoingOn
    <2> QED
      BY <1>1, <1>2, <1>7, <2>2 DEF Stages, InSecurityType, Way
  <1> QED
    BY <1>1, <1>4, <1>5, <1>6, <1>7 DEF Handlers

(* SelectInSeq returns the index of an element of the sequence.            *)
LEMMA LeastOne ==
  ASSUME NEW S \in SUBSET Nat, S # {}
  PROVE  Min(S) \in S
  <1> DEFINE Less == {p \in Nat \X Nat : p[1] < p[2]}
  <1>1. IsWellFoundedOn(Less, Nat)
    BY NatLessThanWellFounded DEF OpToRel
  <1> HIDE DEF Less
  <1>2. PICK x \in S : \A y \in S : <<y, x>> \notin Less
    BY <1>1, WFMin
  <1>3. \A y \in S : ~(y < x)
    BY <1>2 DEF Less
  <1>4. \A y \in S : x <= y
    BY <1>3
  <1> QED
    BY <1>4 DEF Min

(* ReadSupportedSecurityType takes a type of the list.                     *)
FirstOf(c, list) == SelectInSeq(list, LAMBDA t : t \in peer[c].schemes)

LEMMA FromTheList ==
  ASSUME NEW S, NEW list \in Seq(S), NEW c, FirstOf(c, list) # 0
  PROVE  list[FirstOf(c, list)] \in S
  <1> DEFINE I == {i \in 1..Len(list) : list[i] \in peer[c].schemes}
  <1>1. I # {} /\ FirstOf(c, list) = Min(I)
    BY DEF SelectInSeq, FirstOf
  <1>2. I \in SUBSET Nat
    OBVIOUS
  <1>3. Min(I) \in I
    BY <1>1, <1>2, LeastOne
  <1>4. list[Min(I)] \in S
    BY <1>3
  <1> QED
    BY <1>1, <1>4

(* A viewer that is set to a type asks for it, offered or not.             *)
LEMMA Asking ==
  ASSUME Shape, NEW c \in Clients, NEW list \in Seq(Types(c)), offered[c] = list,
         NEW t \in MayAskFor(c, list)
  PROVE  t \in Askable(c)
  <1>1. CASE peer[c].kind = "set"
    <2>1. t \in Handlers
      BY <1>1, HandshakeAssumption DEF MayAskFor, Shape, TypeOK, PeerType
    <2>2. \A x \in Range(list) : x \in Types(c)
      BY DEF Range
    <2> QED
      BY <2>1, <2>2 DEF Askable
  <1>2. CASE peer[c].kind # "set"
    <2>1. FirstOf(c, list) # 0 /\ t = list[FirstOf(c, list)]
      BY <1>2 DEF MayAskFor, FirstOf
    <2> QED
      BY <2>1, FromTheList DEF Askable
  <1> QED
    BY <1>1, <1>2

(* The viewer goes after a message it does not go on from.                 *)
LEMMA LeavesOK ==
  ASSUME Shape, NEW c \in Clients, ClientOK(c), Leaves(c), KeepsVersion,
         at[c] \notin {"off", "gone"}, UNCHANGED <<screen, peer, serverVars>>,
         toViewer' = [toViewer EXCEPT ![c] = toViewer'[c]]
  PROVE  ClientOK(c)' /\ OfViewer(c)
  <1>1. at'[c] = "gone" /\ (toServer'[c] = toServer[c] \/ toServer'[c] = <<>>)
    BY DEF Leaves, Moves, Shape, TypeOK
  <1>2. OfViewer(c)
    BY <1>1 DEF OfViewer, Leaves, Moves, Shape, TypeOK, Stages, KeepsVersion
  <1> QED
    BY <1>1, <1>2, LeavingOK DEF KeepsVersion

LEMMA ViewerListOK ==
  ASSUME Shape, NEW c \in Clients, ClientOK(c), ViewerList(c)
  PROVE  ClientOK(c)' /\ OfViewer(c)
  <1>1. Reads(c, "list", "list")
    BY DEF ViewerList
  <1>2. /\ at[c] = "list" /\ state[c] # "none" /\ toViewer[c] # <<>>
        /\ toViewer'[c] = Tail(toViewer[c]) /\ UNCHANGED <<screen, peer, serverVars>>
        /\ open[c] => Together(c)
        /\ ~open[c] => LastWords(c)
    BY <1>1, Reading DEF Stages
  <1>3. /\ open[c] /\ state[c] = "securityType" /\ ~tight[c]
        /\ minor[c] = viewerMinor[c] /\ minor[c] > 6
        /\ ListSent(c) \in Seq(Types(c)) \ {<<>>} /\ offered[c] = ListSent(c) /\ scheme[c] = Nil
        /\ toViewer[c] = <<Msg("list", ListSent(c))>> /\ toServer[c] = <<>>
    BY <1>2 DEF Together, InVersion, InSecurityType, InAuthType, InAuthentication,
                InInitialisation, InNormal, LastWords, Way
  <1>4. Value(c) = ListSent(c) /\ toViewer'[c] = <<>>
    BY <1>2, <1>3, Readings DEF Value, Msg
  <1>5. toViewer' = [toViewer EXCEPT ![c] = toViewer'[c]]
    BY <1>1 DEF Reads, Shape
  <1>6. \/ Leaves(c) /\ KeepsVersion
        \/ \E type \in MayAskFor(c, ListSent(c)) : Starts(c, type, <<Msg("type", type)>>)
    BY <1>3, <1>4 DEF ViewerList
  <1>7. CASE Leaves(c) /\ KeepsVersion
    BY <1>2, <1>5, <1>7, LeavesOK
  <1>8. CASE \E type \in MayAskFor(c, ListSent(c)) : Starts(c, type, <<Msg("type", type)>>)
    <2>0. PICK type \in MayAskFor(c, ListSent(c)) : Starts(c, type, <<Msg("type", type)>>)
      BY <1>8
    <2>1. type \in Askable(c)
      BY <1>3, Asking
    <2>2. /\ InSecurityType(c)'
          /\ at' = [at EXCEPT ![c] = at'[c]] /\ at'[c] \in Stages
          /\ scheme' = [scheme EXCEPT ![c] = type] /\ scheme'[c] = type /\ type \in Handlers
          /\ toServer' = [toServer EXCEPT ![c] = toServer'[c]]
          /\ UNCHANGED viewerMinor
      BY <1>2, <1>3, <1>4, <2>0, <2>1, Choosing DEF ClientOK
    <2>3. OfViewer(c)
      BY <1>2, <1>5, <2>2 DEF OfViewer, Shape, TypeOK
    <2>4. Session(c)'
      BY <1>2, <1>3, <2>2 DEF Session, Together, InSecurityType, Way, serverVars
    <2> QED
      BY <1>2, <1>3, <2>2, <2>3, <2>4, ViewerKeeps DEF ClientOK
  <1> QED
    BY <1>6, <1>7, <1>8

LEMMA ViewerSchemeOK ==
  ASSUME Shape, NEW c \in Clients, ClientOK(c), ViewerScheme(c)
  PROVE  ClientOK(c)' /\ OfViewer(c)
  <1>1. Reads(c, "scheme", "scheme") /\ Starts(c, Value(c), <<>>)
    BY DEF ViewerScheme
  <1>2. /\ at[c] = "scheme" /\ state[c] # "none" /\ toViewer[c] # <<>>
        /\ toViewer'[c] = Tail(toViewer[c]) /\ UNCHANGED <<screen, peer, serverVars>>
        /\ open[c] => Together(c)
        /\ ~open[c] => LastWords(c)
    BY <1>1, Reading DEF Stages
  <1>3. /\ open[c] /\ toServer[c] = <<>> /\ minor[c] = viewerMinor[c] /\ minor[c] < 7 /\ ~tight[c]
        /\ scheme[c] = Nil
        /\ \/ /\ state[c] = "authentication"
              /\ toViewer[c] = <<Msg("scheme", "VncAuth"), Challenge(c)>>
           \/ /\ state[c] = "initialisation"
              /\ toViewer[c] = <<Msg("scheme", "None")>>
    BY <1>2 DEF Together, InVersion, InSecurityType, InAuthType, InAuthentication,
                InInitialisation, InNormal, LastWords, Way
  <1>4. /\ minor'[c] = viewerMinor'[c] /\ minor'[c] < 7 /\ ~tight'[c] /\ open'[c]
        /\ state'[c] = state[c] /\ UNCHANGED viewerMinor
        /\ toViewer' = [toViewer EXCEPT ![c] = toViewer'[c]]
    BY <1>1, <1>2, <1>3 DEF serverVars, Starts, Reads, Shape
  <1>5. CASE state[c] = "authentication"
    <2>0. toViewer[c] = <<Msg("scheme", "VncAuth"), Challenge(c)>>
      BY <1>3, <1>5
    <2>1. Value(c) = "VncAuth" /\ toViewer'[c] = <<Challenge(c)>>
      BY <1>2, <2>0, Readings DEF Value, Msg
    <2>7. Starts(c, "VncAuth", <<>>)
      BY <1>1, <2>1
    <2>2. /\ scheme' = [scheme EXCEPT ![c] = "VncAuth"] /\ scheme'[c] = "VncAuth"
          /\ at' = [at EXCEPT ![c] = "challenge"] /\ at'[c] = "challenge"
          /\ toServer' = [toServer EXCEPT ![c] = <<>> \o <<>>] /\ toServer'[c] = <<>> \o <<>>
      <3>1. Moves(c, "challenge") /\ Sends(c, <<>>) /\ scheme' = [scheme EXCEPT ![c] = "VncAuth"]
        BY <2>7 DEF Starts
      <3> QED
        BY <1>3, <3>1 DEF Moves, Sends, Shape, TypeOK
    <2>3. toServer' = [toServer EXCEPT ![c] = <<>>] /\ toServer'[c] = <<>>
      BY <2>2, Writings
    <2>4. InAuthentication(c)'
      BY <1>4, <1>5, <2>1, <2>2, <2>3 DEF InAuthentication, Way, Challenge
    <2>5. OfViewer(c)
      BY <1>2, <1>4, <2>2, <2>3 DEF OfViewer, Stages, Handlers, Shape, TypeOK
    <2>6. Session(c)'
      BY <1>2, <1>4, <1>5, <2>2, <2>4 DEF Session, Together
    <2> QED
      BY <1>2, <1>3, <1>4, <2>5, <2>6, ViewerKeeps DEF ClientOK
  <1>6. CASE state[c] = "initialisation"
    <2>0. toViewer[c] = <<Msg("scheme", "None")>>
      BY <1>3, <1>6
    <2>1. Value(c) = "None" /\ toViewer'[c] = <<>>
      BY <1>2, <2>0, Readings DEF Value, Msg
    <2>7. Starts(c, "None", <<>>)
      BY <1>1, <2>1
    <2>2. /\ scheme' = [scheme EXCEPT ![c] = "None"] /\ scheme'[c] = "None"
          /\ GoesOn(c, <<>>)
      BY <1>3, <2>7 DEF Starts, Shape, TypeOK
    <2>3. /\ at' = [at EXCEPT ![c] = "serverInit"] /\ at'[c] = "serverInit"
          /\ toServer' = [toServer EXCEPT ![c] = toServer'[c]]
          /\ toServer'[c] = <<InitMsg(c)>>
      <3>1. ~(viewerMinor[c] > 6)
        BY <1>3 DEF Shape, TypeOK
      <3> QED
        BY <1>3, <2>2, <3>1, GoingOn
    <2>4. InInitialisation(c)'
      BY <1>2, <1>4, <1>6, <2>1, <2>2, <2>3 DEF InInitialisation, Way, InitMsg, Handlers
    <2>5. OfViewer(c)
      BY <1>2, <1>4, <2>2, <2>3 DEF OfViewer, Stages, Handlers, Shape, TypeOK
    <2>6. Session(c)'
      BY <1>2, <1>4, <1>6, <2>3, <2>4 DEF Session, Together
    <2> QED
      BY <1>2, <1>3, <1>4, <2>5, <2>6, ViewerKeeps DEF ClientOK
  <1> QED
    BY <1>3, <1>5, <1>6

LEMMA ViewerChallengeOK ==
  ASSUME Shape, NEW c \in Clients, ClientOK(c), ViewerChallenge(c)
  PROVE  ClientOK(c)' /\ OfViewer(c)
  <1>1. Reads(c, "challenge", "challenge") /\ KeepsVersion
    BY DEF ViewerChallenge
  <1>2. /\ at[c] = "challenge" /\ state[c] # "none" /\ toViewer[c] # <<>>
        /\ toViewer'[c] = Tail(toViewer[c]) /\ UNCHANGED <<screen, peer, serverVars>>
        /\ open[c] => Together(c)
        /\ ~open[c] => LastWords(c)
    BY <1>1, Reading DEF Stages
  <1>3. toViewer' = [toViewer EXCEPT ![c] = toViewer'[c]]
    BY <1>1 DEF Reads, Shape
  <1>4. toViewer[c] = <<Challenge(c)>>
    BY <1>2 DEF Together, InVersion, InSecurityType, InAuthType, InAuthentication,
                InInitialisation, InNormal, LastWords, Way
  <1>5. toViewer'[c] = <<>>
    BY <1>2, <1>4, Readings
  <1>6. CASE Leaves(c)
    BY <1>1, <1>2, <1>3, <1>6, LeavesOK
  <1>7. CASE Moves(c, "result") /\ Sends(c, <<Response(c)>>)
    <2>1. /\ at' = [at EXCEPT ![c] = "result"] /\ at'[c] = "result"
          /\ toServer' = [toServer EXCEPT ![c] = toServer'[c]]
          /\ toServer'[c] = toServer[c] \o <<Response(c)>>
      BY <1>7 DEF Moves, Sends, Shape, TypeOK
    <2>2. OfViewer(c)
      BY <1>1, <1>2, <1>3, <2>1 DEF OfViewer, KeepsVersion, Stages, Shape, TypeOK
    <2>3. UNCHANGED <<state[c], open[c], tight[c], minor[c], viewerMinor[c], scheme[c]>>
      BY <1>1, <1>2 DEF serverVars, KeepsVersion
    <2>6. at'[c] = "result" /\ state'[c] # "none" /\ (open'[c] <=> open[c])
      BY <1>2, <2>1, <2>3
    <2>4. ASSUME open[c] PROVE Session(c)'
      <3>1. InAuthentication(c) /\ toServer[c] = <<>>
        BY <1>2, <1>4, <2>4 DEF Together, InVersion, InSecurityType, InAuthType, InAuthentication,
                InInitialisation, InNormal, Way
      <3>2. toServer'[c] = <<Response(c)>> /\ Response(c)' = Response(c)
        BY <1>2, <2>1, <3>1, Writings DEF Response
      <3>3. InAuthentication(c)'
        BY <1>2, <1>5, <2>1, <2>3, <3>1, <3>2 DEF InAuthentication, Way
      <3> QED
        BY <2>4, <2>6, <3>3 DEF Session, Together
    <2>5. ASSUME ~open[c] PROVE Session(c)'
      BY <1>5, <2>5, <2>6 DEF Session, LastWords
    <2> QED
      BY <1>2, <2>2, <2>3, <2>4, <2>5, ViewerKeeps DEF ClientOK
  <1> QED
    BY <1>6, <1>7 DEF ViewerChallenge, Response

LEMMA ViewerResultOK ==
  ASSUME Shape, NEW c \in Clients, ClientOK(c), ViewerResult(c)
  PROVE  ClientOK(c)' /\ OfViewer(c)
  <1>1. Reads(c, "result", "result") /\ KeepsVersion
    BY DEF ViewerResult
  <1>2. /\ at[c] = "result" /\ state[c] # "none" /\ toViewer[c] # <<>>
        /\ toViewer'[c] = Tail(toViewer[c]) /\ UNCHANGED <<screen, peer, serverVars>>
        /\ open[c] => Together(c)
        /\ ~open[c] => LastWords(c)
    BY <1>1, Reading DEF Stages
  <1>3. /\ toViewer' = [toViewer EXCEPT ![c] = toViewer'[c]]
        /\ UNCHANGED <<state[c], open[c], tight[c], minor[c], viewerMinor[c], scheme[c]>>
    BY <1>1, <1>2 DEF Reads, Shape, serverVars, KeepsVersion
  <1>4. CASE open[c]
    <2>1. /\ state[c] = "initialisation" /\ minor[c] = viewerMinor[c]
          /\ scheme[c] \in Handlers /\ (tight[c] <=> scheme[c] = "Tight")
          /\ scheme[c] = "None" => peer[c].kind # "mac" \/ minor[c] < 7
          /\ toViewer[c] = <<Ok>> /\ toServer[c] = <<>>
      BY <1>2, <1>4 DEF Together, InVersion, InSecurityType, InAuthType, InAuthentication,
                InInitialisation, InNormal, Way
    <2>2. Value(c) = "ok" /\ toViewer'[c] = <<>>
      BY <1>2, <2>1, Readings DEF Value, Ok, Msg
    <2>3. GoesOn(c, <<>>)
      BY <2>2 DEF ViewerResult
    <2>4. ~(peer[c].kind = "mac" /\ viewerMinor[c] > 6 /\ scheme'[c] = "None")
      BY <1>3, <2>1 DEF Shape, TypeOK
    <2>5. /\ at' = [at EXCEPT ![c] = "serverInit"] /\ at'[c] = "serverInit"
          /\ toServer' = [toServer EXCEPT ![c] = toServer'[c]]
          /\ toServer'[c] = <<InitMsg(c)>>
      BY <2>1, <2>3, <2>4, GoingOn
    <2>6. InInitialisation(c)'
      BY <1>2, <1>3, <2>1, <2>2, <2>5 DEF InInitialisation, Way, InitMsg
    <2>7. OfViewer(c)
      BY <1>1, <1>2, <1>3, <2>5 DEF OfViewer, KeepsVersion, Stages, Shape, TypeOK
    <2>8. Session(c)'
      BY <1>2, <1>3, <1>4, <2>5, <2>6 DEF Session, Together
    <2> QED
      BY <1>2, <1>3, <2>7, <2>8, ViewerKeeps DEF ClientOK
  <1>5. CASE ~open[c]
    <2>1. toViewer[c] = IF viewerMinor[c] > 7 THEN <<Failed, Reason>> ELSE <<Failed>>
      BY <1>2, <1>5 DEF LastWords
    <2>2. Value(c) = "failed" /\ (viewerMinor[c] > 7 => toViewer'[c] = <<Reason>>)
      BY <1>2, <2>1, Readings DEF Value, Failed, Msg
    <2>3. CASE Leaves(c)
      BY <1>1, <1>2, <1>3, <2>3, LeavesOK
    <2>4. CASE viewerMinor[c] > 7 /\ Moves(c, "reason") /\ UNCHANGED toServer
      <3>1. at' = [at EXCEPT ![c] = "reason"] /\ at'[c] = "reason"
        BY <2>4 DEF Moves, Shape, TypeOK
      <3>2. OfViewer(c)
        BY <1>1, <1>2, <1>3, <2>4, <3>1 DEF OfViewer, KeepsVersion, Stages, Shape, TypeOK
      <3>3. Session(c)'
        BY <1>2, <1>3, <1>5, <2>2, <2>4, <3>1 DEF Session, LastWords, Reason
      <3> QED
        BY <1>2, <1>3, <3>2, <3>3, ViewerKeeps DEF ClientOK
    <2> QED
      BY <2>2, <2>3, <2>4 DEF ViewerResult
  <1> QED
    BY <1>4, <1>5

LEMMA ViewerReasonOK ==
  ASSUME Shape, NEW c \in Clients, ClientOK(c), ViewerReason(c)
  PROVE  ClientOK(c)' /\ OfViewer(c)
  <1>1. toViewer' = [toViewer EXCEPT ![c] = toViewer'[c]]
    BY DEF ViewerReason, Reads, Shape
  <1> QED
    BY <1>1, LeavesOK DEF ViewerReason, Reads

(* A viewer that only moves on in what it reads.                           *)
LEMMA MovingAlong ==
  ASSUME Shape, NEW c \in Clients, ClientOK(c), at[c] \notin {"off", "gone"},
         NEW stage \in Stages \ {"off", "gone"}, Moves(c, stage), UNCHANGED toServer, KeepsVersion,
         UNCHANGED <<screen, peer, serverVars>>,
         toViewer' = [toViewer EXCEPT ![c] = toViewer'[c]],
         open[c] => Together(c)', ~open[c] => LastWords(c)'
  PROVE  ClientOK(c)' /\ OfViewer(c)
  <1>1. at' = [at EXCEPT ![c] = stage] /\ at'[c] = stage
    BY DEF Moves, Shape, TypeOK
  <1>2. OfViewer(c)
    BY <1>1 DEF OfViewer, KeepsVersion, Shape, TypeOK
  <1>3. state'[c] = state[c] /\ open'[c] = open[c] /\ state[c] # "none"
    BY DEF serverVars, ClientOK, Session, Way
  <1>4. Session(c)'
    BY <1>1, <1>3 DEF Session
  <1> QED
    BY <1>2, <1>4, ViewerKeeps DEF ClientOK, KeepsVersion

LEMMA ViewerTunnelsOK ==
  ASSUME Shape, NEW c \in Clients, ClientOK(c), ViewerTunnels(c)
  PROVE  ClientOK(c)' /\ OfViewer(c)
  <1>1. Reads(c, "tunnel", "tunnels") /\ KeepsVersion /\ Moves(c, "authCaps") /\ UNCHANGED toServer
    BY DEF ViewerTunnels
  <1>2. /\ at[c] = "tunnel" /\ state[c] # "none" /\ toViewer[c] # <<>>
        /\ toViewer'[c] = Tail(toViewer[c]) /\ UNCHANGED <<screen, peer, serverVars>>
        /\ open[c] => Together(c)
        /\ ~open[c] => LastWords(c)
    BY <1>1, Reading DEF Stages
  <1>3. /\ toViewer' = [toViewer EXCEPT ![c] = toViewer'[c]] /\ at'[c] = "authCaps"
        /\ UNCHANGED <<state[c], tight[c], minor[c], viewerMinor[c], scheme[c], toServer[c]>>
    BY <1>1, <1>2 DEF Reads, Moves, Shape, TypeOK, serverVars, KeepsVersion
  <1>4. ASSUME open[c] PROVE Together(c)'
    <2>1. CASE state[c] = "authType"
      <3>1. /\ tight[c] /\ scheme[c] = "Tight" /\ minor[c] = viewerMinor[c]
            /\ toViewer[c] = <<Tunnels, PasswordCap>> /\ toServer[c] = <<>>
        BY <1>2, <1>4, <2>1 DEF Together, InVersion, InSecurityType, InAuthType, InAuthentication,
                InInitialisation, InNormal, Way
      <3>2. toViewer'[c] = <<PasswordCap>>
        BY <1>2, <3>1, Readings
      <3> QED
        BY <1>3, <2>1, <3>1, <3>2 DEF Together, InAuthType, Way, PasswordCap
    <2>2. CASE state[c] # "authType"
      <3>1. /\ state[c] = "initialisation" /\ tight[c] /\ scheme[c] = "Tight"
            /\ minor[c] = viewerMinor[c] /\ toServer[c] = <<>>
            /\ toViewer[c] = IF minor[c] > 7 THEN <<Tunnels, NoCaps, Ok>> ELSE <<Tunnels, NoCaps>>
        BY <1>2, <1>4, <2>2 DEF Together, InVersion, InSecurityType, InAuthType, InAuthentication,
                InInitialisation, InNormal, Way
      <3>2. toViewer'[c] = IF minor[c] > 7 THEN <<NoCaps, Ok>> ELSE <<NoCaps>>
        BY <1>2, <3>1, Readings
      <3> QED
        BY <1>3, <3>1, <3>2 DEF Together, InInitialisation, Way, NoCaps, Ok
    <2> QED
      BY <2>1, <2>2
  <1>5. ASSUME ~open[c] PROVE LastWords(c)'
    <2>1. toViewer[c] = <<Tunnels, PasswordCap>>
      BY <1>2, <1>5 DEF LastWords
    <2>2. toViewer'[c] = <<PasswordCap>>
      BY <1>2, <2>1, Readings
    <2> QED
      BY <1>3, <2>2 DEF LastWords, PasswordCap
  <1> QED
    BY <1>1, <1>2, <1>3, <1>4, <1>5, MovingAlong DEF Stages

LEMMA ViewerAuthCapsOK ==
  ASSUME Shape, NEW c \in Clients, ClientOK(c), ViewerAuthCaps(c)
  PROVE  ClientOK(c)' /\ OfViewer(c)
  <1>1. Reads(c, "authCaps", "authCaps") /\ KeepsVersion
    BY DEF ViewerAuthCaps
  <1>2. /\ at[c] = "authCaps" /\ state[c] # "none" /\ toViewer[c] # <<>>
        /\ toViewer'[c] = Tail(toViewer[c]) /\ UNCHANGED <<screen, peer, serverVars>>
        /\ open[c] => Together(c)
        /\ ~open[c] => LastWords(c)
    BY <1>1, Reading DEF Stages
  <1>3. /\ toViewer' = [toViewer EXCEPT ![c] = toViewer'[c]]
        /\ UNCHANGED <<state[c], open[c], tight[c], minor[c], viewerMinor[c], scheme[c]>>
    BY <1>1, <1>2 DEF Reads, Shape, serverVars, KeepsVersion
  <1>4. CASE toViewer[c] = <<PasswordCap>>
    <2>1. Value(c) = <<"VncAuth">> /\ toViewer'[c] = <<>>
      BY <1>2, <1>4, Readings DEF Value, PasswordCap, Msg
    <2>2. Moves(c, "challenge") /\ Sends(c, <<Msg("type", "VncAuth")>>)
      BY <2>1, Readings DEF ViewerAuthCaps
    <2>3. /\ at' = [at EXCEPT ![c] = "challenge"] /\ at'[c] = "challenge"
          /\ toServer' = [toServer EXCEPT ![c] = toServer'[c]]
          /\ toServer'[c] = toServer[c] \o <<Msg("type", "VncAuth")>>
      BY <2>2 DEF Moves, Sends, Shape, TypeOK
    <2>4. OfViewer(c)
      BY <1>1, <1>2, <1>3, <2>3 DEF OfViewer, KeepsVersion, Stages, Shape, TypeOK
    <2>5. at'[c] = "challenge" /\ state'[c] # "none" /\ (open'[c] <=> open[c])
      BY <1>2, <1>3, <2>3
    <2>6. ASSUME open[c] PROVE Session(c)'
      <3>1. /\ toViewer[c] # <<NoCaps>> /\ toViewer[c] # <<NoCaps, Ok>>
        <4>1. Head(toViewer[c]) # NoCaps
          <5>1. Head(toViewer[c]).value # NoCaps.value
            BY <2>1, Readings DEF Value, NoCaps, Msg
          <5> QED
            BY <5>1
        <4> QED
          BY <4>1, Readings
      <3>2. state[c] # "initialisation"
        BY <1>2, <2>6, <3>1 DEF Together, InVersion, InSecurityType, InAuthType, InAuthentication,
                InInitialisation, InNormal, Way
      <3>3. /\ state[c] = "authType" /\ tight[c] /\ scheme[c] = "Tight"
            /\ minor[c] = viewerMinor[c] /\ toServer[c] = <<>>
        BY <1>2, <2>6, <3>2 DEF Together, InVersion, InSecurityType, InAuthType, InAuthentication,
                InInitialisation, InNormal, Way
      <3>4. toServer'[c] = <<Msg("type", "VncAuth")>>
        BY <2>3, <3>3, Writings
      <3>5. InAuthType(c)'
        BY <1>3, <2>1, <2>5, <3>3, <3>4 DEF InAuthType, Way
      <3> QED
        BY <2>5, <2>6, <3>5 DEF Session, Together
    <2>7. ASSUME ~open[c] PROVE Session(c)'
      BY <2>1, <2>5, <2>7 DEF Session, LastWords
    <2> QED
      BY <1>2, <1>3, <2>4, <2>6, <2>7, ViewerKeeps DEF ClientOK
  <1>5. CASE toViewer[c] # <<PasswordCap>>
    <2>1. open[c]
      BY <1>2, <1>5 DEF LastWords
    <2>2. /\ state[c] = "initialisation" /\ tight[c] /\ scheme[c] = "Tight"
          /\ minor[c] = viewerMinor[c] /\ toServer[c] = <<>>
          /\ toViewer[c] = IF minor[c] > 7 THEN <<NoCaps, Ok>> ELSE <<NoCaps>>
      BY <1>2, <1>5, <2>1 DEF Together, InVersion, InSecurityType, InAuthType, InAuthentication,
                InInitialisation, InNormal, Way
    <2>3. Value(c) = <<>> /\ toViewer'[c] = IF minor[c] > 7 THEN <<Ok>> ELSE <<>>
      BY <1>2, <2>2, Readings DEF Value, NoCaps, Msg
    <2>4. CASE minor[c] > 7
      <3>1. Moves(c, "result") /\ UNCHANGED toServer
        BY <2>2, <2>3, <2>4 DEF ViewerAuthCaps
      <3>2. at'[c] = "result"
        BY <3>1 DEF Moves, Shape, TypeOK
      <3>3. InInitialisation(c)'
        BY <1>3, <2>2, <2>3, <2>4, <3>1, <3>2 DEF InInitialisation, Way, Ok, Handlers
      <3> QED
        BY <1>1, <1>2, <1>3, <2>1, <3>1, <3>3, MovingAlong DEF Stages, Together
    <2>5. CASE ~(minor[c] > 7)
      <3>1. GoesOn(c, <<>>)
        BY <2>2, <2>3, <2>5 DEF ViewerAuthCaps
      <3>2. /\ at' = [at EXCEPT ![c] = "serverInit"] /\ at'[c] = "serverInit"
            /\ toServer' = [toServer EXCEPT ![c] = toServer'[c]]
            /\ toServer'[c] = <<InitMsg(c)>>
        BY <1>3, <2>2, <3>1, GoingOn
      <3>3. InInitialisation(c)'
        BY <1>2, <1>3, <2>2, <2>3, <2>5, <3>2 DEF InInitialisation, Way, InitMsg, Handlers
      <3>4. OfViewer(c)
        BY <1>1, <1>2, <1>3, <3>2 DEF OfViewer, KeepsVersion, Stages, Shape, TypeOK
      <3>5. at'[c] = "serverInit" /\ state'[c] # "none" /\ open'[c]
        BY <1>2, <1>3, <2>1, <3>2
      <3>6. Session(c)'
        BY <3>3, <3>5 DEF Session, Together
      <3> QED
        BY <1>2, <1>3, <3>4, <3>6, ViewerKeeps DEF ClientOK
    <2> QED
      BY <2>4, <2>5
  <1> QED
    BY <1>4, <1>5

LEMMA ViewerServerInitOK ==
  ASSUME Shape, NEW c \in Clients, ClientOK(c), ViewerServerInit(c)
  PROVE  ClientOK(c)' /\ OfViewer(c)
  <1> DEFINE stage == IF scheme[c] = "Tight" THEN "caps" ELSE "up"
  <1>1. /\ Reads(c, "serverInit", "serverInit") /\ KeepsVersion /\ UNCHANGED toServer
        /\ Moves(c, stage)
    BY DEF ViewerServerInit
  <1>2. /\ at[c] = "serverInit" /\ state[c] # "none" /\ toViewer[c] # <<>>
        /\ toViewer'[c] = Tail(toViewer[c]) /\ UNCHANGED <<screen, peer, serverVars>>
        /\ open[c] => Together(c)
        /\ ~open[c] => LastWords(c)
    BY <1>1, Reading DEF Stages
  <1>3. /\ toViewer' = [toViewer EXCEPT ![c] = toViewer'[c]] /\ at'[c] = stage
        /\ UNCHANGED <<state[c], tight[c], scheme[c], toServer[c]>>
    BY <1>1, <1>2 DEF Reads, Moves, Shape, TypeOK, serverVars, KeepsVersion
  <1>4. /\ toViewer[c] = IF scheme[c] = "Tight"
                         THEN <<Msg("serverInit", Nil), Msg("caps", Nil)>>
                         ELSE <<Msg("serverInit", Nil)>>
        /\ open[c] => /\ state[c] = "normal" /\ toServer[c] = <<>>
                      /\ scheme[c] \in Handlers /\ (tight[c] <=> scheme[c] = "Tight")
    BY <1>2 DEF Together, InVersion, InSecurityType, InAuthType, InAuthentication,
                InInitialisation, InNormal, LastWords, Way
  <1>5. toViewer'[c] = IF scheme[c] = "Tight" THEN <<Msg("caps", Nil)>> ELSE <<>>
    BY <1>2, <1>4, Readings
  <1>6. open[c] => Together(c)'
    BY <1>3, <1>4, <1>5 DEF Together, InNormal, Way
  <1>7. ~open[c] => LastWords(c)'
    BY <1>3, <1>5 DEF LastWords
  <1>8. stage \in Stages \ {"off", "gone"}
    BY DEF Stages
  <1> HIDE DEF stage
  <1> QED
    BY <1>1, <1>2, <1>3, <1>6, <1>7, <1>8, MovingAlong

LEMMA ViewerCapsOK ==
  ASSUME Shape, NEW c \in Clients, ClientOK(c), ViewerCaps(c)
  PROVE  ClientOK(c)' /\ OfViewer(c)
  <1>1. /\ Reads(c, "caps", "caps") /\ KeepsVersion /\ UNCHANGED toServer /\ Moves(c, "up")
    BY DEF ViewerCaps
  <1>2. /\ at[c] = "caps" /\ state[c] # "none" /\ toViewer[c] # <<>>
        /\ toViewer'[c] = Tail(toViewer[c]) /\ UNCHANGED <<screen, peer, serverVars>>
        /\ open[c] => Together(c)
        /\ ~open[c] => LastWords(c)
    BY <1>1, Reading DEF Stages
  <1>3. /\ toViewer' = [toViewer EXCEPT ![c] = toViewer'[c]] /\ at'[c] = "up"
        /\ UNCHANGED <<state[c], tight[c], scheme[c], toServer[c]>>
    BY <1>1, <1>2 DEF Reads, Moves, Shape, TypeOK, serverVars, KeepsVersion
  <1>4. /\ toViewer[c] = <<Msg("caps", Nil)>>
        /\ open[c] => /\ state[c] = "normal" /\ toServer[c] = <<>>
                      /\ scheme[c] \in Handlers /\ (tight[c] <=> scheme[c] = "Tight")
    BY <1>2 DEF Together, InVersion, InSecurityType, InAuthType, InAuthentication,
                InInitialisation, InNormal, LastWords, Way
  <1>5. toViewer'[c] = <<>>
    BY <1>2, <1>4, Readings
  <1>6. open[c] => Together(c)'
    BY <1>3, <1>4, <1>5 DEF Together, InNormal, Way
  <1>7. ~open[c] => LastWords(c)'
    BY <1>3, <1>5 DEF LastWords
  <1> QED
    BY <1>1, <1>2, <1>3, <1>6, <1>7, MovingAlong DEF Stages

LEMMA ViewerStepsOK ==
  ASSUME Shape, Sessions, NEW c \in Clients, ViewerStep(c) \/ HangUp(c)
  PROVE  Shape' /\ Sessions'
  <1>1. ClientOK(c)
    BY DEF Sessions
  <1>2. CASE ViewerReadFails(c) \/ HangUp(c)
    <2>1. toViewer' = [toViewer EXCEPT ![c] = toViewer'[c]]
      BY <1>2 DEF ViewerReadFails, HangUp, Shape
    <2>2. ClientOK(c)' /\ OfViewer(c)
      BY <1>1, <1>2, <2>1, LeavesOK DEF ViewerReadFails, HangUp
    <2> QED
      BY <2>2, ViewerFrame
  <1>3. CASE ~(ViewerReadFails(c) \/ HangUp(c))
    <2>1. ClientOK(c)' /\ OfViewer(c)
      BY <1>1, <1>3, ViewerVersionOK, ViewerListOK, ViewerSchemeOK, ViewerChallengeOK,
         ViewerResultOK, ViewerReasonOK, ViewerTunnelsOK, ViewerAuthCapsOK, ViewerServerInitOK,
         ViewerCapsOK DEF ViewerStep
    <2> QED
      BY <2>1, ViewerFrame
  <1> QED
    BY <1>2, <1>3

(* A step of the server for c changes nothing of the other connections,    *)
(* except that it may close some in RFB_NORMAL.                            *)
OfServer(c) ==
    /\ UNCHANGED <<screen, peer, viewerMinor, scheme>>
    /\ at' = [at EXCEPT ![c] = at'[c]] /\ at'[c] \in Stages
    /\ state' = [state EXCEPT ![c] = state'[c]] /\ state'[c] \in States
    /\ minor' = [minor EXCEPT ![c] = minor'[c]] /\ minor'[c] \in Nat
    /\ viewOnly' = [viewOnly EXCEPT ![c] = viewOnly'[c]] /\ viewOnly'[c] \in BOOLEAN
    /\ tight' = [tight EXCEPT ![c] = tight'[c]] /\ tight'[c] \in BOOLEAN
    /\ toServer' = [toServer EXCEPT ![c] = toServer'[c]]
    /\ toViewer' = [toViewer EXCEPT ![c] = toViewer'[c]]
    /\ open' \in [Clients -> BOOLEAN]
    /\ \A d \in Clients \ {c} : open'[d] = open[d] \/ (state[d] = "normal" /\ ~open'[d])
    /\ busy' \in Clients \cup {Nil} /\ handlers' \in HandlersType
    /\ offered' = [offered EXCEPT ![c] = offered'[c]]

(* A client in RFB_NORMAL that another one's handler closes.               *)
LEMMA ClosedOK ==
  ASSUME NEW d \in Clients, ClientOK(d), state[d] = "normal", ~open'[d], UNCHANGED <<screen, peer>>,
         UNCHANGED <<state[d], viewOnly[d], offered[d], at[d], viewerMinor[d], scheme[d], toViewer[d]>>
  PROVE  ClientOK(d)'
  <1>1. ASSUME at[d] # "gone", open[d] PROVE LastWords(d)'
    <2>1. Together(d)
      BY <1>1 DEF ClientOK, Session
    <2>2. InNormal(d)
      BY <2>1 DEF Together, InVersion, InSecurityType, InAuthType, InAuthentication,
                  InInitialisation
    <2> QED
      BY <2>2 DEF InNormal, LastWords, Way
  <1>2. ASSUME at[d] # "gone", ~open[d] PROVE LastWords(d)'
    <2>1. LastWords(d)
      BY <1>2 DEF ClientOK, Session
    <2>2. Challenge(d)' = Challenge(d)
      BY DEF Challenge
    <2> QED
      BY <2>1, <2>2 DEF LastWords
  <1>3. Session(d)'
    BY <1>1, <1>2 DEF ClientOK, Session
  <1> QED
    BY <1>3 DEF ClientOK, Versioned, OnlyViewer, AuthenticatedAt, NeedsPassword, Good, Entitled, Unlisted

(* A handler of c changes nothing else of the other connections.           *)
LEMMA ServerFrame ==
  ASSUME Shape, Sessions, NEW c \in Clients, OfServer(c), ClientOK(c)'
  PROVE  Shape' /\ Sessions'
  <1>1. Shape'
    BY DEF Shape, TypeOK, OfServer, HandlersType
  <1>2. ASSUME NEW d \in Clients \ {c} PROVE ClientOK(d)'
    <2>1. /\ UNCHANGED <<screen, peer>>
          /\ UNCHANGED <<state[d], minor[d], viewOnly[d], tight[d], offered[d]>>
          /\ UNCHANGED <<at[d], viewerMinor[d], scheme[d], toServer[d], toViewer[d]>>
      BY <1>2 DEF OfServer, Shape, TypeOK
    <2>2. CASE open'[d] = open[d]
      BY <2>1, <2>2, SameOK DEF Same, Sessions
    <2>3. CASE state[d] = "normal" /\ ~open'[d]
      BY <2>1, <2>3, ClosedOK DEF Sessions
    <2> QED
      BY <2>2, <2>3, <1>2 DEF OfServer
  <1> QED
    BY <1>1, <1>2 DEF Sessions

(* What a handler finds: a viewer that is in step with it, or what one     *)
(* that has gone left.                                                     *)
LEMMA Receiving ==
  ASSUME Shape, NEW c \in Clients, ClientOK(c), Runs(c), NEW kind, Received(c, kind), Consumes(c)
  PROVE  /\ open[c] /\ state[c] # "none" /\ at[c] # "off" /\ toServer[c] # <<>>
         /\ Head(toServer[c]).kind = kind
         /\ toServer'[c] = Tail(toServer[c])
         /\ toServer' = [toServer EXCEPT ![c] = toServer'[c]]
         /\ at[c] # "gone" => Together(c)
         /\ at[c] = "gone" => Leftover(c)
         /\ state[c] \notin {"initialisation", "normal"} => ~viewOnly[c]
  BY DEF Runs, Received, Consumes, ClientOK, Session, Way, OnlyViewer, Shape

(* What a handler that writes leaves: it goes on, or the viewer has gone   *)
(* and the connection is closed.                                           *)
LEMMA Written ==
  ASSUME Shape, NEW c \in Clients, NEW msgs, NEW s \in States, WritesThen(c, msgs, s)
  PROVE  /\ toViewer' = [toViewer EXCEPT ![c] = toViewer'[c]]
         /\ state' = [state EXCEPT ![c] = state'[c]] /\ state'[c] \in States
         /\ open' \in [Clients -> BOOLEAN] /\ \A d \in Clients \ {c} : open'[d] = open[d]
         /\ \/ /\ open'[c] = open[c] /\ state'[c] = s
               /\ toViewer'[c] = toViewer[c] \o msgs
            \/ at[c] = "gone" /\ ~open'[c] /\ state'[c] = state[c]
  <1>1. CASE Writes(c, msgs) /\ Becomes(c, s) /\ StayOpen
    BY <1>1 DEF Writes, Becomes, StayOpen, Shape, TypeOK
  <1>2. CASE MayFail(c) /\ Close(c, "write") /\ UNCHANGED <<toViewer, state>>
    BY <1>2 DEF MayFail, Close, Shape, TypeOK
  <1> QED
    BY <1>1, <1>2 DEF WritesThen

(* The state of a connection after a handler, from what the handler did.   *)
LEMMA Handled ==
  ASSUME NEW c \in Clients, ClientOK(c), UNCHANGED <<screen, peer, at, viewerMinor>>,
         state'[c] # "none", at[c] # "off",
         open'[c] /\ at[c] # "gone" => Together(c)',
         open'[c] /\ at[c] = "gone" => Leftover(c)',
         ~open'[c] /\ at[c] # "gone" => LastWords(c)',
         OnlyViewer(c)', AuthenticatedAt(c)'
  PROVE  ClientOK(c)'
  BY DEF ClientOK, Session, Versioned

(* One lemma per handler.                                                  *)
LEMMA ConnectOK ==
  ASSUME Shape, NEW c \in Clients, ClientOK(c), Connect(c)
  PROVE  ClientOK(c)' /\ OfServer(c)
  <1>1. /\ state[c] = "none" /\ toServer[c] = <<>> /\ toViewer[c] = <<>>
        /\ scheme[c] = Nil /\ ~tight[c] /\ ~viewOnly[c]
    BY DEF Connect, ClientOK, Session, Way
  <1>2. /\ state'[c] = "version" /\ open'[c] /\ at'[c] = "version"
        /\ toViewer'[c] = <<>> \o <<Msg("version", screen.minor)>>
    BY <1>1 DEF Connect, Becomes, Writes, Shape, TypeOK
  <1>3. toViewer'[c] = <<Msg("version", screen.minor)>>
    BY <1>2, Writings
  <1>4. /\ UNCHANGED <<screen, peer, minor, viewOnly, tight, viewerMinor, scheme, toServer>>
    BY DEF Connect
  <1>5. Session(c)'
    BY <1>1, <1>2, <1>3, <1>4 DEF Session, Together, InVersion, Way
  <1>6. OfServer(c)
    BY <1>2, <1>4 DEF OfServer, HandlersType, Connect, Writes, Becomes, Shape, TypeOK, States, Stages
  <1> QED
    BY <1>1, <1>2, <1>4, <1>5, <1>6 DEF ClientOK, Versioned, OnlyViewer, AuthenticatedAt

(* The list of handlers consists of handlers.                              *)
LEMMA AdvertisedType ==
  ASSUME NEW list \in HandlersType, NEW primary \in {"None", "VncAuth"}
  PROVE  Advertised(list, primary) \in HandlersType
  <1>1. ASSUME NEW l \in HandlersType, NEW h \in Handlers \cup {Nil}
        PROVE  Link(l, h) \in HandlersType /\ Unlink(l, h) \in HandlersType
    BY DEF Link, Unlink, HandlersType
  <1>2. ASSUME NEW l \in HandlersType, NEW h \in Handlers \cup {Nil}
        PROVE  After(l, h) \in Handlers \cup {Nil}
    BY DEF After, HandlersType
  <1>3. ASSUME NEW l \in HandlersType, NEW h \in Handlers
        PROVE  Registered(l, h) \in HandlersType /\ Unregistered(l, h) \in HandlersType
    BY <1>1, <1>2, <1>3 DEF Registered, Unregistered
  <1> QED
    BY <1>3 DEF Advertised, Handlers

LEMMA ProtocolVersionOK ==
  ASSUME Shape, ListOK, NEW c \in Clients, ClientOK(c), ProtocolVersion(c)
  PROVE  ClientOK(c)' /\ OfServer(c) /\ ListOK'
  <1> DEFINE primary == IF NeedsPassword(c) THEN "VncAuth" ELSE "None"
             m == viewerMinor[c]
  <1>1. /\ Runs(c) /\ state[c] = "version" /\ Received(c, "version") /\ Consumes(c)
        /\ minor' = [minor EXCEPT ![c] = Head(toServer[c]).value]
        /\ IF minor'[c] < 7 THEN SendSecurityType(c, primary)
                            ELSE SendSecurityTypeList(c, primary)
        /\ UNCHANGED <<screen, peer, viewOnly, tight, busy, viewerVars>>
    BY DEF ProtocolVersion
  <1>2. /\ open[c] /\ at[c] # "off" /\ toServer[c] # <<>> /\ toServer'[c] = Tail(toServer[c])
        /\ toServer' = [toServer EXCEPT ![c] = toServer'[c]]
        /\ at[c] # "gone" => Together(c)
        /\ at[c] = "gone" => Leftover(c)
        /\ ~viewOnly[c]
    BY <1>1, Receiving
  <1>3. /\ toServer[c] = <<Msg("version", m)>>
        /\ at[c] # "gone" => /\ toViewer[c] = <<>> /\ ~tight[c] /\ scheme[c] = Nil
                             /\ at[c] = IF m > 6 THEN "list" ELSE "scheme"
    BY <1>1, <1>2 DEF Together, InVersion, InSecurityType, InAuthType, InAuthentication,
                InInitialisation, InNormal, Leftover, Way
  <1>4. Head(toServer[c]).value = m /\ toServer'[c] = <<>> /\ m \in Nat
    <2>1. Head(toServer[c]) = Msg("version", m) /\ toServer'[c] = <<>>
      BY <1>2, <1>3, Readings
    <2>2. m \in Nat
      BY DEF Shape, TypeOK
    <2> QED
      BY <2>1, <2>2 DEF Msg
  <1>5. /\ minor' = [minor EXCEPT ![c] = minor'[c]] /\ minor'[c] = m
        /\ UNCHANGED <<viewOnly[c], tight[c], at[c], viewerMinor[c], scheme[c]>>
        /\ UNCHANGED <<screen, peer, at, viewerMinor, scheme>>
        /\ offered' = [offered EXCEPT ![c] = offered'[c]]
    BY <1>1, <1>4 DEF viewerVars, Shape, TypeOK, SendSecurityType, SendSecurityTypeList
  <1>6. ASSUME NEW s \in States \ {"none"}, NEW msgs, WritesThen(c, msgs, s), handlers' \in HandlersType
        PROVE  /\ OfServer(c)
               /\ at[c] = "gone" => ~open'[c] \/ Leftover(c)'
               /\ state'[c] # "none"
               /\ at[c] # "gone" => /\ open'[c] = open[c] /\ state'[c] = s
                                    /\ toViewer'[c] = <<>> \o msgs
               /\ state'[c] = s \/ state'[c] = "version"
    <2>1. /\ toViewer' = [toViewer EXCEPT ![c] = toViewer'[c]]
          /\ state' = [state EXCEPT ![c] = state'[c]] /\ state'[c] \in States
          /\ open' \in [Clients -> BOOLEAN] /\ \A d \in Clients \ {c} : open'[d] = open[d]
          /\ \/ /\ open'[c] = open[c] /\ state'[c] = s
                /\ toViewer'[c] = toViewer[c] \o msgs
             \/ at[c] = "gone" /\ ~open'[c] /\ state'[c] = state[c]
      BY <1>6, Written
    <2>2. OfServer(c)
      BY <1>1, <1>2, <1>4, <1>5, <1>6, <2>1 DEF OfServer, Shape, TypeOK
    <2>3. state'[c] # "none" /\ (state'[c] = s \/ state'[c] = "version")
      BY <1>1, <1>6, <2>1
    <2>4. Leftover(c)'
      BY <1>4, <2>1, <2>3 DEF Leftover
    <2> QED
      BY <1>3, <2>1, <2>2, <2>3, <2>4
  <1>7. handlers \in HandlersType /\ primary \in {"None", "VncAuth"}
    BY DEF Shape, TypeOK, HandlersType
  <1>8. NeedsPassword(c)' = NeedsPassword(c) /\ Types(c)' = Types(c) /\ ~viewOnly'[c]
    BY <1>2, <1>5 DEF NeedsPassword, Types
  <1>9. CASE m < 7 /\ primary = "None"
    <2>1. WritesThen(c, <<Msg("scheme", "None")>>, "initialisation") /\ UNCHANGED handlers
      BY <1>1, <1>5, <1>9 DEF SendSecurityType
    <2>2. /\ OfServer(c)
          /\ at[c] = "gone" => ~open'[c] \/ Leftover(c)'
          /\ state'[c] # "none" /\ ListOK'
          /\ at[c] # "gone" => /\ open'[c] = open[c] /\ state'[c] = "initialisation"
                               /\ toViewer'[c] = <<>> \o <<Msg("scheme", "None")>>
          /\ state'[c] \in {"initialisation", "version"}
      BY <1>6, <1>7, <2>1 DEF States, ListOK
    <2>3. at[c] # "gone" => InInitialisation(c)'
      BY <1>3, <1>4, <1>5, <1>9, <2>2, Writings DEF InInitialisation, Way
    <2>4. OnlyViewer(c)' /\ AuthenticatedAt(c)'
      BY <1>8, <1>9 DEF OnlyViewer, AuthenticatedAt
    <2> QED
      BY <1>2, <1>5, <2>2, <2>3, <2>4, Handled DEF Together
  <1>10. CASE m < 7 /\ primary = "VncAuth"
    <2>1. /\ WritesThen(c, <<Msg("scheme", "VncAuth"), Challenge(c)>>, "authentication")
          /\ UNCHANGED handlers
      BY <1>1, <1>5, <1>10 DEF SendSecurityType, Challenge
    <2>2. /\ OfServer(c)
          /\ at[c] = "gone" => ~open'[c] \/ Leftover(c)'
          /\ state'[c] # "none" /\ ListOK'
          /\ at[c] # "gone" => /\ open'[c] = open[c] /\ state'[c] = "authentication"
                               /\ toViewer'[c] = <<>> \o <<Msg("scheme", "VncAuth"), Challenge(c)>>
          /\ state'[c] \in {"authentication", "version"}
      BY <1>6, <1>7, <2>1 DEF States, ListOK
    <2>3. at[c] # "gone" => InAuthentication(c)'
      BY <1>3, <1>4, <1>5, <1>10, <2>2, Writings DEF InAuthentication, Way, Challenge
    <2>4. OnlyViewer(c)' /\ AuthenticatedAt(c)'
      BY <1>8, <2>2 DEF OnlyViewer, AuthenticatedAt
    <2> QED
      BY <1>2, <1>5, <2>2, <2>3, <2>4, Handled DEF Together
  <1>11. CASE ~(m < 7)
    <2> DEFINE list == Listed(Advertised(handlers, primary))
    <2>1. /\ WritesThen(c, <<Msg("list", list)>>, "securityType")
          /\ handlers' = Advertised(handlers, primary) /\ offered'[c] = list
      BY <1>1, <1>5, <1>11 DEF SendSecurityTypeList, Shape
    <2>2. handlers' \in HandlersType /\ ListOK'
      BY <1>7, <2>1, AdvertisedType, NextList DEF ListOK
    <2>3. list \in {<<primary>>, <<primary, "Tight">>, <<"Tight", primary>>}
      BY <1>7, NextList DEF ListOK
    <2>4. primary \in Types(c) /\ "Tight" \in Types(c)
      BY DEF Types, Handlers
    <2> HIDE DEF primary
    <2>5. list \in Seq(Types(c)) \ {<<>>}
      <3>1. ASSUME NEW S, NEW a \in S, NEW b \in S
            PROVE  /\ <<a>> \in Seq(S) \ {<<>>} /\ <<a, b>> \in Seq(S) \ {<<>>}
                   /\ <<b, a>> \in Seq(S) \ {<<>>}
        OBVIOUS
      <3> QED
        BY <2>3, <2>4, <3>1
    <2> HIDE DEF list
    <2>6. /\ OfServer(c)
          /\ at[c] = "gone" => ~open'[c] \/ Leftover(c)'
          /\ state'[c] # "none"
          /\ at[c] # "gone" => /\ open'[c] = open[c] /\ state'[c] = "securityType"
                               /\ toViewer'[c] = <<>> \o <<Msg("list", list)>>
          /\ state'[c] \in {"securityType", "version"}
      BY <1>6, <2>1, <2>2 DEF States
    <2>7. ASSUME at[c] # "gone" PROVE InSecurityType(c)'
      <3>1. toViewer'[c] = <<Msg("list", list)>> /\ toViewer'[c] # <<>>
        BY <2>6, <2>7, Writings, Readings
      <3>2. ListSent(c)' = list
        BY <3>1 DEF ListSent, Msg
      <3>3. at'[c] = "list" /\ state'[c] = "securityType" /\ minor'[c] > 6
        BY <1>3, <1>4, <1>5, <1>11, <2>6, <2>7
      <3> QED
        BY <1>3, <1>4, <1>5, <1>8, <2>1, <2>5, <2>7, <3>1, <3>2, <3>3 DEF InSecurityType, Way
    <2>8. OnlyViewer(c)' /\ AuthenticatedAt(c)'
      BY <1>8, <2>6 DEF OnlyViewer, AuthenticatedAt
    <2> QED
      BY <1>2, <1>5, <2>2, <2>6, <2>7, <2>8, Handled DEF Together
  <1> QED
    BY <1>9, <1>10, <1>11

(* rfbProcessClientInitMessage: c is in RFB_NORMAL, unless the policy      *)
(* closes it.                                                              *)
LEMMA Initialised ==
  ASSUME Shape, NEW c \in Clients, ClientOK(c), NEW shared, Initialise(c, shared, <<>>),
         open[c], state[c] # "none", at[c] # "off",
         UNCHANGED <<screen, peer, minor, viewOnly, tight, busy, handlers, offered, viewerVars>>,
         toServer' = [toServer EXCEPT ![c] = toServer'[c]], toServer'[c] = <<>>,
         at[c] # "gone" => /\ at[c] = "serverInit" /\ toViewer[c] = <<>> /\ scheme[c] \in Handlers
                           /\ (tight[c] <=> scheme[c] = "Tight"),
         NeedsPassword(c) => Entitled(c)
  PROVE  ClientOK(c)' /\ OfServer(c)
  <1> DEFINE last == IF tight[c] THEN <<Msg("serverInit", Nil), Msg("caps", Nil)>>
                     ELSE <<Msg("serverInit", Nil)>>
             out == ClosedBy(c, shared)
  <1>1. UNCHANGED <<screen, peer, at, viewerMinor, scheme>> /\ UNCHANGED <<tight[c], viewOnly[c]>>
    BY DEF viewerVars
  <1>2. OnlyViewer(c)' \/ state'[c] = state[c]
    BY DEF Initialise, Becomes, Shape, TypeOK, OnlyViewer
  <1>3. AuthenticatedAt(c)'
    BY <1>1 DEF AuthenticatedAt, NeedsPassword, Good, Entitled, Unlisted
  <1>4. CASE MayFail(c) /\ Close(c, "write") /\ UNCHANGED <<toViewer, state>>
    <2>1. ~open'[c] /\ at[c] = "gone" /\ state'[c] = state[c]
      BY <1>4 DEF MayFail, Close, Shape, TypeOK
    <2>2. OfServer(c)
      BY <1>1, <1>4, <2>1 DEF OfServer, HandlersType, Close, Shape, TypeOK, viewerVars
    <2> QED
      BY <1>1, <1>3, <2>1, <2>2, Handled DEF OnlyViewer
  <1>5. CASE /\ Writes(c, <<>> \o <<Msg("serverInit", Nil)>> \o InteractionCaps(c))
             /\ Becomes(c, "normal")
             /\ open' = [d \in Clients |-> open[d] /\ d \notin out]
    <2>1. <<>> \o <<Msg("serverInit", Nil)>> \o InteractionCaps(c) = last
      <3>1. <<>> \o <<Msg("serverInit", Nil)>> = <<Msg("serverInit", Nil)>>
        BY Writings
      <3>4. <<Msg("serverInit", Nil)>> \o <<Msg("caps", Nil)>>
              = <<Msg("serverInit", Nil), Msg("caps", Nil)>>
        BY Writings
      <3>2. CASE tight[c]
        BY <3>1, <3>2, <3>4 DEF InteractionCaps
      <3>3. CASE ~tight[c]
        BY <3>1, <3>3, Writings DEF InteractionCaps
      <3> QED
        BY <3>2, <3>3
    <2>11. <<>> \o last = last
      BY Writings
    <2> HIDE DEF last, out
    <2>2. /\ toViewer' = [toViewer EXCEPT ![c] = toViewer'[c]]
          /\ toViewer'[c] = toViewer[c] \o last
          /\ state' = [state EXCEPT ![c] = "normal"] /\ state'[c] = "normal"
      BY <1>5, <2>1 DEF Writes, Becomes, Shape, TypeOK
    <2>3. ASSUME NEW d \in Clients \ {c} PROVE open'[d] = open[d] \/ (state[d] = "normal" /\ ~open'[d])
      <3>1. CASE d \in out
        BY <1>5, <3>1 DEF out, ClosedBy, Others
      <3>2. CASE d \notin out
        BY <1>5, <3>2 DEF Shape, TypeOK
      <3> QED
        BY <3>1, <3>2
    <2>4. OfServer(c)
      BY <1>1, <1>5, <2>2, <2>3 DEF OfServer, HandlersType, Shape, TypeOK, States, viewerVars
    <2>5. at[c] # "gone" => toViewer'[c] = last
      BY <2>2, <2>11
    <2>6. open'[c] /\ at[c] # "gone" => InNormal(c)'
      BY <1>1, <2>2, <2>5 DEF InNormal, Way, last
    <2>7. at[c] = "gone" => Leftover(c)'
      BY <2>2 DEF Leftover, States
    <2>8. ~open'[c] /\ at[c] # "gone" => LastWords(c)'
      BY <1>1, <2>5 DEF LastWords, last
    <2>9. OnlyViewer(c)'
      BY <2>2 DEF OnlyViewer
    <2>10. state'[c] # "none"
      BY <2>2
    <2> QED
      BY <1>1, <1>3, <2>4, <2>6, <2>7, <2>8, <2>9, <2>10, Handled DEF Together
  <1> QED
    BY <1>4, <1>5 DEF Initialise

(* rfbProcessClientInitMessage, after ClientInit.                          *)
LEMMA ClientInitOK ==
  ASSUME Shape, NEW c \in Clients, ClientOK(c), ClientInit(c)
  PROVE  ClientOK(c)' /\ OfServer(c)
  <1>1. /\ Runs(c) /\ state[c] = "initialisation" /\ Received(c, "clientInit") /\ Consumes(c)
        /\ \E shared : Initialise(c, shared, <<>>)
        /\ UNCHANGED <<screen, peer, minor, viewOnly, tight, busy, handlers, offered, viewerVars>>
    BY DEF ClientInit
  <1>2. /\ open[c] /\ at[c] # "off" /\ toServer[c] # <<>> /\ toServer'[c] = Tail(toServer[c])
        /\ toServer' = [toServer EXCEPT ![c] = toServer'[c]]
        /\ at[c] # "gone" => Together(c)
        /\ at[c] = "gone" => Leftover(c)
    BY <1>1, Receiving
  <1>3. /\ toServer[c] = <<InitMsg(c)>>
        /\ at[c] # "gone" => /\ at[c] = "serverInit" /\ toViewer[c] = <<>> /\ scheme[c] \in Handlers
                             /\ (tight[c] <=> scheme[c] = "Tight")
    BY <1>1, <1>2 DEF Together, InVersion, InSecurityType, InAuthType, InAuthentication,
                InInitialisation, InNormal, Leftover, Way
  <1>4. toServer'[c] = <<>>
    BY <1>2, <1>3, Readings
  <1>5. NeedsPassword(c) => Entitled(c)
    BY <1>1 DEF ClientOK, AuthenticatedAt
  <1>6. PICK shared : Initialise(c, shared, <<>>)
    BY <1>1
  <1>7. state[c] # "none"
    BY <1>1
  <1> QED
    BY <1>1, <1>2, <1>3, <1>4, <1>5, <1>6, <1>7, Initialised

(* A read that fails closes a connection whose viewer has gone, or one     *)
(* whose handler was reading again.                                        *)
LEMMA ReadFailsOK ==
  ASSUME Shape, NEW c \in Clients, ClientOK(c), ReadFails(c),
         busy = c => state[c] \in {"authType", "tightResponse"}
  PROVE  ClientOK(c)' /\ OfServer(c)
  <1>1. /\ open[c] /\ toServer[c] = <<>> /\ (at[c] = "gone" \/ busy = c)
        /\ UNCHANGED <<screen, peer, state, minor, viewOnly, tight, handlers, offered,
                       viewerVars, toServer, toViewer>>
        /\ busy' = Nil /\ open' = [open EXCEPT ![c] = FALSE]
    BY DEF ReadFails, Runs, Close
  <1>2. ~open'[c] /\ UNCHANGED <<screen, peer, at, viewerMinor, scheme>>
    BY <1>1 DEF Shape, TypeOK, viewerVars
  <1>3. state[c] # "none" /\ at[c] # "off"
    BY <1>1 DEF ClientOK, Session
  <1>4. ASSUME at[c] # "gone" PROVE LastWords(c)'
    <2>1. Together(c) /\ state[c] \in {"authType", "tightResponse"}
      BY <1>1, <1>4, HandshakeAssumption DEF ClientOK, Session
    <2>2. \/ at[c] = "tunnel" /\ toViewer[c] = <<Tunnels, PasswordCap>>
          \/ at[c] = "authCaps" /\ toViewer[c] = <<PasswordCap>>
          \/ at[c] = "challenge" /\ toViewer[c] = <<Challenge(c)>>
      BY <1>1, <2>1, Readings DEF Together, InVersion, InSecurityType, InAuthType, InAuthentication,
                InInitialisation, InNormal, Way
    <2> QED
      BY <1>1, <1>2, <2>2 DEF LastWords, Challenge, Tunnels, PasswordCap
  <1>5. OfServer(c)
    BY <1>1, <1>2 DEF OfServer, HandlersType, Shape, TypeOK
  <1>6. OnlyViewer(c)' /\ AuthenticatedAt(c)'
    BY <1>1, <1>2 DEF OnlyViewer, AuthenticatedAt, ClientOK, NeedsPassword, Good, Entitled, Unlisted
  <1>7. state'[c] # "none"
    BY <1>1, <1>3
  <1> QED
    BY <1>2, <1>3, <1>4, <1>5, <1>6, <1>7, Handled

(* A handler of c that writes, and that has read all that was there.       *)
LEMMA WroteOn ==
  ASSUME Shape, NEW c \in Clients, ClientOK(c), NEW msgs, NEW s \in States \ {"none", "normal"},
         WritesThen(c, msgs, s), open[c], state[c] \notin {"none", "normal"}, at[c] # "off",
         UNCHANGED <<screen, peer, minor, handlers, offered, viewerVars>>,
         tight' = [tight EXCEPT ![c] = tight'[c]], tight'[c] \in BOOLEAN,
         viewOnly' = [viewOnly EXCEPT ![c] = viewOnly'[c]], viewOnly'[c] \in BOOLEAN,
         busy' \in Clients \cup {Nil},
         toServer' = [toServer EXCEPT ![c] = toServer'[c]],
         at[c] = "gone" /\ state'[c] = s => Leftover(c)',
         at[c] # "gone" /\ state'[c] = s /\ toViewer'[c] = toViewer[c] \o msgs => Together(c)',
         s # "initialisation" => ~viewOnly'[c],
         s = "initialisation" /\ NeedsPassword(c) => Entitled(c)',
         state[c] # "initialisation"
  PROVE  ClientOK(c)' /\ OfServer(c)
  <1>1. /\ toViewer' = [toViewer EXCEPT ![c] = toViewer'[c]]
        /\ state' = [state EXCEPT ![c] = state'[c]] /\ state'[c] \in States
        /\ open' \in [Clients -> BOOLEAN] /\ \A d \in Clients \ {c} : open'[d] = open[d]
        /\ \/ /\ open'[c] = open[c] /\ state'[c] = s
              /\ toViewer'[c] = toViewer[c] \o msgs
           \/ at[c] = "gone" /\ ~open'[c] /\ state'[c] = state[c]
    BY Written
  <1>2. UNCHANGED <<screen, peer, at, viewerMinor, scheme>>
    BY DEF viewerVars
  <1>3. OfServer(c)
    BY <1>1, <1>2 DEF OfServer, HandlersType, Shape, TypeOK
  <1>4. /\ state'[c] # "none" /\ (open'[c] => state'[c] = s)
        /\ state'[c] \in {"initialisation", "normal"} => s = "initialisation" /\ state'[c] = s
    BY <1>1
  <1>5. OnlyViewer(c)' /\ AuthenticatedAt(c)'
    BY <1>2, <1>4 DEF OnlyViewer, AuthenticatedAt, NeedsPassword, Good, Entitled, Unlisted
  <1> QED
    BY <1>1, <1>2, <1>3, <1>4, <1>5, Handled

(* rfbProcessClientAuthType                                                *)
LEMMA AuthTypeOK ==
  ASSUME Shape, NEW c \in Clients, ClientOK(c), AuthType(c)
  PROVE  ClientOK(c)' /\ OfServer(c)
  <1>1. /\ Runs(c) /\ state[c] = "authType" /\ Received(c, "type") /\ Consumes(c)
        /\ UNCHANGED <<screen, peer, minor, viewOnly, tight, handlers, offered, viewerVars>>
    BY DEF AuthType
  <1>2. /\ open[c] /\ at[c] # "off" /\ toServer[c] # <<>> /\ toServer'[c] = Tail(toServer[c])
        /\ toServer' = [toServer EXCEPT ![c] = toServer'[c]]
        /\ at[c] # "gone" => Together(c)
        /\ at[c] = "gone" => Leftover(c)
        /\ ~viewOnly[c]
    BY <1>1, Receiving
  <1>3. /\ toServer[c] = <<Msg("type", "VncAuth")>>
        /\ at[c] # "gone" => /\ at[c] = "challenge" /\ toViewer[c] = <<>> /\ scheme[c] = "Tight"
                             /\ tight[c] /\ minor[c] = viewerMinor[c]
    BY <1>1, <1>2 DEF Together, InVersion, InSecurityType, InAuthType, InAuthentication,
                InInitialisation, InNormal, Leftover, Way
  <1>4. toServer'[c] = <<>>
    BY <1>2, <1>3, Readings
  <1>5. /\ tight' = [tight EXCEPT ![c] = tight'[c]] /\ tight'[c] \in BOOLEAN
        /\ viewOnly' = [viewOnly EXCEPT ![c] = viewOnly'[c]] /\ viewOnly'[c] \in BOOLEAN
        /\ tight'[c] = tight[c] /\ ~viewOnly'[c]
        /\ UNCHANGED <<minor[c], at[c], viewerMinor[c], scheme[c]>>
        /\ UNCHANGED <<screen, peer, at, viewerMinor, scheme>>
    BY <1>1, <1>2 DEF Shape, TypeOK, viewerVars
  <1>6. CASE /\ WritesThen(c, <<Msg("challenge", c)>>, "tightResponse")
             /\ busy' = IF open'[c] THEN c ELSE Nil
    <2>1. at[c] = "gone" /\ state'[c] = "tightResponse" => Leftover(c)'
      BY <1>4 DEF Leftover, States
    <2>2. <<>> \o <<Msg("challenge", c)>> = <<Msg("challenge", c)>>
      BY Writings
    <2>3. at[c] # "gone" /\ state'[c] = "tightResponse"
            /\ toViewer'[c] = toViewer[c] \o <<Msg("challenge", c)>> => InAuthentication(c)'
      BY <1>3, <1>4, <1>5, <2>2 DEF InAuthentication, Way, Challenge
    <2>4. busy' \in Clients \cup {Nil}
      BY <1>6
    <2>5. "tightResponse" \in States \ {"none", "normal"}
      BY DEF States
    <2> QED
      BY <1>1, <1>2, <1>5, <1>6, <2>1, <2>3, <2>4, <2>5, WroteOn DEF Together
  <1>7. CASE Close(c, "type") /\ busy' = Nil /\ UNCHANGED <<state, toViewer>>
    <2>1. /\ open' = [open EXCEPT ![c] = FALSE] /\ ~open'[c]
      BY <1>7 DEF Close, Shape, TypeOK
    <2>2. OfServer(c)
      BY <1>1, <1>2, <1>5, <1>7, <2>1 DEF OfServer, HandlersType, Shape, TypeOK
    <2>3. at[c] # "gone" => LastWords(c)'
      BY <1>3, <1>5, <1>7 DEF LastWords
    <2>4. OnlyViewer(c)' /\ AuthenticatedAt(c)' /\ state'[c] # "none"
      BY <1>1, <1>7, <2>1 DEF OnlyViewer, AuthenticatedAt
    <2> QED
      BY <1>2, <1>5, <2>1, <2>2, <2>3, <2>4, Handled
  <1> QED
    BY <1>6, <1>7 DEF AuthType

(* rfbAuthProcessClientMessage                                             *)
LEMMA AuthenticationOK ==
  ASSUME Shape, NEW c \in Clients, ClientOK(c), Authentication(c)
  PROVE  ClientOK(c)' /\ OfServer(c)
  <1> DEFINE password == Head(toServer[c]).value
             refusal == <<Msg("result", "failed")>> \o
                        (IF minor[c] > 7 THEN <<Msg("reason", Nil)>> ELSE <<>>)
  <1>1. /\ Runs(c) /\ state[c] \in {"authentication", "tightResponse"}
        /\ Received(c, "response") /\ Consumes(c) /\ busy' = Nil
        /\ UNCHANGED <<screen, peer, minor, tight, handlers, offered, viewerVars>>
    BY DEF Authentication
  <1>2. /\ open[c] /\ at[c] # "off" /\ toServer[c] # <<>> /\ toServer'[c] = Tail(toServer[c])
        /\ toServer' = [toServer EXCEPT ![c] = toServer'[c]]
        /\ at[c] # "gone" => Together(c)
        /\ at[c] = "gone" => Leftover(c)
        /\ ~viewOnly[c]
    BY <1>1, Receiving
  <1>3. /\ toServer[c] = <<Response(c)>>
        /\ at[c] # "gone" => /\ at[c] = "result" /\ toViewer[c] = <<>>
                             /\ scheme[c] \in {"VncAuth", "Tight"}
                             /\ (tight[c] <=> scheme[c] = "Tight") /\ minor[c] = viewerMinor[c]
    BY <1>1, <1>2 DEF Together, InVersion, InSecurityType, InAuthType, InAuthentication,
                InInitialisation, InNormal, Leftover, Way
  <1>4. toServer'[c] = <<>> /\ Head(toServer[c]) = Response(c)
    BY <1>2, <1>3, Readings
  <1>5. password = peer[c].password
    BY <1>4 DEF Response, Msg
  <1>6. /\ tight' = [tight EXCEPT ![c] = tight'[c]] /\ tight'[c] \in BOOLEAN
        /\ UNCHANGED <<minor[c], at[c], viewerMinor[c], scheme[c], tight[c]>>
        /\ UNCHANGED <<screen, peer, at, viewerMinor, scheme>>
    BY <1>1 DEF Shape, TypeOK, viewerVars
  <1>7. CASE screen.password /\ password \in {"full", "view"}
    <2>1. /\ viewOnly' = [viewOnly EXCEPT ![c] = viewOnly[c] \/ password = "view"]
          /\ WritesThen(c, <<Ok>>, "initialisation")
      BY <1>7 DEF Authentication, Ok
    <2>2. /\ viewOnly' = [viewOnly EXCEPT ![c] = viewOnly'[c]] /\ viewOnly'[c] \in BOOLEAN
          /\ Entitled(c)'
      BY <1>1, <1>2, <1>5, <1>7, <2>1 DEF Shape, TypeOK, Good, Entitled
    <2>3. at[c] = "gone" /\ state'[c] = "initialisation" => Leftover(c)'
      BY <1>4 DEF Leftover, States
    <2>4. <<>> \o <<Ok>> = <<Ok>>
      BY Writings
    <2>5. at[c] # "gone" /\ state'[c] = "initialisation" /\ toViewer'[c] = toViewer[c] \o <<Ok>>
            => InInitialisation(c)'
      BY <1>3, <1>4, <1>6, <2>4 DEF InInitialisation, Way, Ok, Handlers
    <2>6. "initialisation" \in States \ {"none", "normal"} /\ busy' \in Clients \cup {Nil}
      BY <1>1 DEF States
    <2> QED
      BY <1>1, <1>2, <1>6, <2>1, <2>2, <2>3, <2>5, <2>6, WroteOn DEF Together
  <1>8. CASE ~(screen.password /\ password \in {"full", "view"})
    <2>1. /\ UNCHANGED <<viewOnly, state>>
          /\ toViewer' = [toViewer EXCEPT ![c] = toViewer[c] \o refusal]
          /\ open' = [open EXCEPT ![c] = FALSE]
      BY <1>8 DEF Authentication, WritesAndCloses, Writes, Close
    <2>2. refusal = IF minor[c] > 7 THEN <<Failed, Reason>> ELSE <<Failed>>
      BY Writings DEF Failed, Reason
    <2>3. <<>> \o refusal = refusal
      BY <2>2, Writings
    <2> HIDE DEF refusal
    <2>4. /\ ~open'[c] /\ toViewer'[c] = toViewer[c] \o refusal /\ state'[c] = state[c]
          /\ toViewer' = [toViewer EXCEPT ![c] = toViewer'[c]] /\ ~viewOnly'[c]
      BY <1>2, <2>1 DEF Shape, TypeOK
    <2>5. OfServer(c)
      BY <1>1, <1>2, <1>6, <2>1, <2>4 DEF OfServer, HandlersType, Shape, TypeOK
    <2>6. at[c] # "gone" => LastWords(c)'
      BY <1>3, <1>6, <2>2, <2>3, <2>4 DEF LastWords, Failed, Reason
    <2>7. OnlyViewer(c)' /\ AuthenticatedAt(c)' /\ state'[c] # "none"
      BY <1>1, <2>4 DEF OnlyViewer, AuthenticatedAt
    <2> QED
      BY <1>2, <1>6, <2>4, <2>5, <2>6, <2>7, Handled
  <1> QED
    BY <1>7, <1>8

(* rfbProcessClientSecurityType, and the handlers of the three types.      *)
LEMMA SecurityTypeOK ==
  ASSUME Shape, NEW c \in Clients, ClientOK(c), SecurityType(c), busy \in Clients \cup {Nil}
  PROVE  ClientOK(c)' /\ OfServer(c)
  <1> DEFINE t == Head(toServer[c]).value
             rest == Tail(toServer[c])
  <1>1. /\ Runs(c) /\ state[c] = "securityType" /\ Received(c, "type") /\ Consumes(c)
        /\ \/ Close(c, "type") /\ UNCHANGED <<state, toViewer, tight, busy>>
           \/ t = "None" /\ VncAuthNone(c)
           \/ t = "VncAuth" /\ VncAuthSendChallenge(c)
           \/ t = "Tight" /\ HandleSecTypeTight(c)
        /\ UNCHANGED <<screen, peer, minor, viewOnly, handlers, offered, viewerVars>>
    BY DEF SecurityType
  <1>2. /\ open[c] /\ at[c] # "off" /\ toServer[c] # <<>> /\ toServer'[c] = Tail(toServer[c])
        /\ toServer' = [toServer EXCEPT ![c] = toServer'[c]]
        /\ at[c] # "gone" => Together(c)
        /\ at[c] = "gone" => Leftover(c)
        /\ ~viewOnly[c]
    BY <1>1, Receiving
  (* What the viewer chose, and what it sent after it. *)
  <1>3. /\ MayAsk(c) /\ t = scheme[c]
        /\ rest = <<>> \/ (rest = <<InitMsg(c)>> /\ t = "None" /\ minor[c] < 8)
    <2>1. /\ MayAsk(c)
          /\ \/ toServer[c] = <<Type(c)>>
             \/ scheme[c] = "None" /\ minor[c] < 8 /\ toServer[c] = <<Type(c), InitMsg(c)>>
      <3>1. CASE at[c] = "gone"
        BY <1>1, <1>2, <3>1 DEF Leftover
      <3>2. CASE at[c] # "gone"
        <4>1. InSecurityType(c) /\ MayAsk(c)
          BY <1>1, <1>2, <3>2 DEF Together, InVersion, InSecurityType, InAuthType,
             InAuthentication, InInitialisation, InNormal, Way
        <4>2. minor[c] \in Nat
          BY DEF Shape, TypeOK
        <4> QED
          BY <1>2, <4>1, <4>2 DEF InSecurityType, Way
      <3> QED
        BY <3>1, <3>2
    <2>2. Type(c).value = scheme[c]
      BY DEF Type, Msg
    <2>3. CASE toServer[c] = <<Type(c)>>
      BY <2>1, <2>2, <2>3, Readings
    <2>4. CASE scheme[c] = "None" /\ minor[c] < 8 /\ toServer[c] = <<Type(c), InitMsg(c)>>
      BY <2>1, <2>2, <2>4, Readings
    <2> QED
      BY <2>1, <2>3, <2>4
  <1>4. t = "None" /\ NeedsPassword(c) => Entitled(c) /\ Entitled(c)'
    <2>1. t = "None" /\ NeedsPassword(c) => scheme[c] = "None" /\ Unlisted(c)
      BY <1>3 DEF Types, MayAsk
    <2> QED
      BY <1>1, <2>1 DEF Entitled, Unlisted, viewerVars
  (* Where the viewer is. *)
  <1>5. ASSUME at[c] # "gone"
        PROVE  /\ toViewer[c] = <<>> /\ ~tight[c] /\ scheme[c] = t /\ scheme[c] \in Handlers
               /\ minor[c] = viewerMinor[c] /\ minor[c] > 6
               /\ t = "VncAuth" => at[c] = "challenge"
               /\ t = "Tight" => at[c] = "tunnel"
               /\ t = "None" => IF peer[c].kind = "mac" THEN at[c] = "serverInit" /\ rest = <<>>
                                ELSE IF minor[c] > 7 THEN at[c] = "result" /\ rest = <<>>
                                ELSE at[c] = "serverInit" /\ rest = <<InitMsg(c)>>
    <2>1. /\ InSecurityType(c) /\ MayAsk(c) /\ toServer[c] # <<>>
          /\ toViewer[c] = <<>>
      BY <1>1, <1>2, <1>5 DEF Together, InVersion, InSecurityType, InAuthType,
         InAuthentication, InInitialisation, InNormal, Way
    <2>2. toServer[c] = <<Type(c)>> \/ toServer[c] = <<Type(c), InitMsg(c)>>
      BY <2>1 DEF InSecurityType, Way
    <2>3. Head(toServer[c]) = Type(c)
      BY <2>2, Readings
    <2>4. scheme[c] = t
      BY <2>3 DEF Type, Msg
    <2>5. (toServer[c] = <<Type(c)>> => rest = <<>>)
          /\ (toServer[c] = <<Type(c), InitMsg(c)>> => rest = <<InitMsg(c)>>)
      <3>1. Tail(<<Type(c)>>) = <<>> /\ Tail(<<Type(c), InitMsg(c)>>) = <<InitMsg(c)>>
        BY Readings
      <3> QED
        BY <3>1
    <2> HIDE DEF t, rest
    <2>6. scheme[c] \in Handlers
      BY <2>1 DEF MayAsk, Unlisted, Types, Handlers
    <2>7. \/ scheme[c] = "VncAuth" /\ Way(c, "challenge", <<>>, <<Type(c)>>)
          \/ scheme[c] = "Tight" /\ Way(c, "tunnel", <<>>, <<Type(c)>>)
          \/ /\ scheme[c] = "None"
             /\ IF peer[c].kind = "mac" THEN Way(c, "serverInit", <<>>, <<Type(c)>>)
                ELSE IF minor[c] > 7 THEN Way(c, "result", <<>>, <<Type(c)>>)
                ELSE Way(c, "serverInit", <<>>, <<Type(c), InitMsg(c)>>)
      <3>1. scheme[c] # Nil
        BY <2>6 DEF Handlers, Nil
      <3> QED
        BY <2>1, <3>1 DEF InSecurityType
    <2>8. /\ t = "VncAuth" => at[c] = "challenge"
          /\ t = "Tight" => at[c] = "tunnel"
          /\ t = "None" => IF peer[c].kind = "mac" THEN at[c] = "serverInit" /\ rest = <<>>
                           ELSE IF minor[c] > 7 THEN at[c] = "result" /\ rest = <<>>
                           ELSE at[c] = "serverInit" /\ rest = <<InitMsg(c)>>
      BY <2>4, <2>5, <2>7 DEF Way
    <2> QED
      BY <2>1, <2>4, <2>6, <2>8 DEF InSecurityType
  <1>6. toServer'[c] = rest
    BY <1>2
  <1> HIDE DEF t, rest
  <1>7. /\ viewOnly' = [viewOnly EXCEPT ![c] = viewOnly'[c]] /\ viewOnly'[c] \in BOOLEAN
        /\ viewOnly'[c] = viewOnly[c] /\ ~viewOnly'[c]
        /\ UNCHANGED <<minor[c], at[c], viewerMinor[c], scheme[c]>>
        /\ UNCHANGED <<screen, peer, at, viewerMinor, scheme>>
        /\ minor[c] \in Nat
    BY <1>1, <1>2 DEF Shape, TypeOK, viewerVars
  <1>8. UNCHANGED tight => /\ tight' = [tight EXCEPT ![c] = tight'[c]] /\ tight'[c] \in BOOLEAN
                           /\ tight'[c] = tight[c]
    BY DEF Shape, TypeOK
  <1>9. state[c] \notin {"none", "normal", "initialisation"}
    BY <1>1
  <1>10. CASE Close(c, "type") /\ UNCHANGED <<state, toViewer, tight, busy>>
    <2>1. /\ open' = [open EXCEPT ![c] = FALSE] /\ ~open'[c]
      BY <1>10 DEF Close, Shape, TypeOK
    <2>2. OfServer(c)
      BY <1>1, <1>2, <1>7, <1>8, <1>10, <2>1 DEF OfServer, HandlersType, Shape, TypeOK
    <2>3. at[c] # "gone" => LastWords(c)'
      BY <1>3, <1>5, <1>7, <1>10 DEF LastWords, MayAsk, Unlisted, Types, Handlers
    <2>4. OnlyViewer(c)' /\ AuthenticatedAt(c)' /\ state'[c] # "none"
      BY <1>1, <1>10, <2>1 DEF OnlyViewer, AuthenticatedAt
    <2> QED
      BY <1>2, <1>7, <2>1, <2>2, <2>3, <2>4, Handled
  <1>11. CASE t = "None" /\ VncAuthNone(c) /\ minor[c] = 889
    <2>1. Initialise(c, TRUE, <<>>) /\ UNCHANGED <<tight, busy>>
      BY <1>11 DEF VncAuthNone
    <2>2. toServer'[c] = <<>>
      BY <1>3, <1>6, <1>11
    <2>3. at[c] # "gone" => /\ at[c] = "serverInit" /\ toViewer[c] = <<>> /\ scheme[c] \in Handlers
                            /\ (tight[c] <=> scheme[c] = "Tight")
      <3>1. at[c] # "gone" => peer[c].kind = "mac"
        BY <1>5, <1>11 DEF ClientOK, Versioned
      <3> QED
        BY <1>5, <1>11, <3>1
    <2> QED
      BY ZenonT(30), <1>1, <1>2, <1>4, <1>9, <1>11, <2>1, <2>2, <2>3, Initialised
  <1>12. CASE t = "None" /\ VncAuthNone(c) /\ minor[c] # 889
    <2> DEFINE msgs == IF minor[c] > 7 THEN <<Ok>> ELSE <<>>
    <2>1. WritesThen(c, msgs, "initialisation") /\ UNCHANGED <<tight, busy>>
      BY <1>12 DEF VncAuthNone, Ok
    <2>2. at[c] = "gone" /\ state'[c] = "initialisation" => Leftover(c)'
      BY <1>3, <1>6, <1>7 DEF Leftover, States, InitMsg
    <2>3. <<>> \o msgs = msgs
      BY Writings
    <2>4. ASSUME at[c] # "gone", state'[c] = "initialisation", toViewer'[c] = toViewer[c] \o msgs
          PROVE  InInitialisation(c)'
      <3>1. peer[c].kind # "mac"
        BY <1>5, <1>12, <2>4 DEF ClientOK, Versioned
      <3>2. toViewer'[c] = msgs
        BY <1>5, <2>3, <2>4
      <3>3. scheme'[c] = "None" /\ ~tight'[c] /\ "None" \in Handlers
        BY <1>5, <1>7, <1>8, <1>12, <2>1, <2>4 DEF Handlers
      <3>4. IF minor[c] > 7 THEN at'[c] = "result" /\ toViewer'[c] = <<Ok>> /\ toServer'[c] = <<>>
            ELSE at'[c] = "serverInit" /\ toViewer'[c] = <<>> /\ toServer'[c] = <<InitMsg(c)>>
        BY ZenonT(30), <1>5, <1>6, <1>7, <1>12, <2>4, <3>1, <3>2
      <3>5. InitMsg(c)' = InitMsg(c) /\ Ok' = Ok /\ peer' = peer
        BY <1>1 DEF InitMsg, Ok
      <3> QED
        BY <1>5, <1>7, <2>4, <3>1, <3>3, <3>4, <3>5 DEF InInitialisation, Way
    <2>5. "initialisation" \in States \ {"none", "normal"}
      BY DEF States
    <2> HIDE DEF msgs
    <2> QED
      BY <1>1, <1>2, <1>4, <1>7, <1>8, <1>9, <1>12, <2>1, <2>2, <2>4, <2>5, WroteOn DEF Together
  <1>13. CASE t = "VncAuth" /\ VncAuthSendChallenge(c)
    <2>1. WritesThen(c, <<Challenge(c)>>, "authentication") /\ UNCHANGED <<tight, busy>>
      BY <1>13 DEF VncAuthSendChallenge, Challenge
    <2>2. toServer'[c] = <<>>
      BY <1>3, <1>6, <1>13
    <2>3. at[c] = "gone" /\ state'[c] = "authentication" => Leftover(c)'
      BY <2>2 DEF Leftover, States
    <2>4. <<>> \o <<Challenge(c)>> = <<Challenge(c)>>
      BY Writings
    <2>5. at[c] # "gone" /\ state'[c] = "authentication"
            /\ toViewer'[c] = toViewer[c] \o <<Challenge(c)>> => InAuthentication(c)'
      BY <1>5, <1>7, <1>8, <1>13, <2>1, <2>2, <2>4 DEF InAuthentication, Way, Challenge
    <2>6. "authentication" \in States \ {"none", "normal"}
      BY DEF States
    <2> QED
      BY <1>1, <1>2, <1>7, <1>8, <1>9, <1>13, <2>1, <2>3, <2>5, <2>6, WroteOn DEF Together
  <1>14. CASE t = "Tight" /\ HandleSecTypeTight(c)
    <2>1. /\ tight' = [tight EXCEPT ![c] = tight'[c]] /\ tight'[c] /\ tight'[c] \in BOOLEAN
      BY <1>14 DEF HandleSecTypeTight, Shape, TypeOK
    <2>2. toServer'[c] = <<>>
      BY <1>3, <1>6, <1>14
    <2>3. CASE ~NeedsPassword(c)
      <3> DEFINE msgs == IF minor[c] > 7 THEN <<Tunnels, NoCaps, Ok>> ELSE <<Tunnels, NoCaps>>
      <3>1. msgs = <<Tunnels, NoCaps>> \o (IF minor[c] > 7 THEN <<Ok>> ELSE <<>>)
        BY Writings
      <3>2. WritesThen(c, msgs, "initialisation") /\ UNCHANGED busy
        <4>1. TightCaps(c) = <<>>
          BY <2>3 DEF TightCaps
        <4> QED
          BY <1>14, <3>1, <4>1 DEF HandleSecTypeTight, Tunnels, NoCaps, Ok
      <3>3. <<>> \o msgs = msgs
        BY Writings
      <3>4. at[c] = "gone" /\ state'[c] = "initialisation" => Leftover(c)'
        BY <2>2 DEF Leftover, States
      <3>5. at[c] # "gone" /\ state'[c] = "initialisation" /\ toViewer'[c] = toViewer[c] \o msgs
              => InInitialisation(c)'
        BY ZenonT(30), <1>5, <1>7, <1>14, <2>1, <2>2, <3>3 DEF InInitialisation, Way, Tunnels, NoCaps, Ok
      <3>6. "initialisation" \in States \ {"none", "normal"}
        BY DEF States
      <3> HIDE DEF msgs
      <3> QED
        BY <1>1, <1>2, <1>7, <1>9, <2>1, <2>3, <3>2, <3>4, <3>5, <3>6, WroteOn DEF Together
    <2>4. CASE NeedsPassword(c)
      <3> DEFINE msgs == <<Tunnels, PasswordCap>>
      <3>1. TightCaps(c) = <<"VncAuth">> /\ TightCaps(c) # <<>>
        BY <2>4, Readings DEF TightCaps
      <3>2. WritesThen(c, msgs, "authType") /\ busy' = IF open'[c] THEN c ELSE Nil
        BY <1>14, <3>1 DEF HandleSecTypeTight, Tunnels, PasswordCap
      <3>3. <<>> \o msgs = msgs
        BY Writings
      <3>4. at[c] = "gone" /\ state'[c] = "authType" => Leftover(c)'
        BY <2>2 DEF Leftover, States
      <3>5. at[c] # "gone" /\ state'[c] = "authType" /\ toViewer'[c] = toViewer[c] \o msgs
              => InAuthType(c)'
        BY <1>5, <1>7, <1>14, <2>1, <2>2, <3>3 DEF InAuthType, Way, Tunnels, PasswordCap
      <3>6. "authType" \in States \ {"none", "normal"} /\ busy' \in Clients \cup {Nil}
        BY <3>2 DEF States
      <3> HIDE DEF msgs
      <3> QED
        BY <1>1, <1>2, <1>7, <1>9, <2>1, <3>2, <3>4, <3>5, <3>6, WroteOn DEF Together
    <2> QED
      BY <2>3, <2>4
  <1> QED
    BY <1>1, <1>10, <1>11, <1>12, <1>13, <1>14

SessionInv == PolicyInv /\ Shape /\ Sessions /\ ListOK

(* At the beginning nothing is connected.                                  *)
LEMMA SessionInit == Init => SessionInv
  <1> SUFFICES ASSUME Init PROVE SessionInv
    OBVIOUS
  <1>1. Shape
    <2>1. TypeOK
      <3>1. handlers \in [head : Handlers \cup {Nil}, next : [Handlers -> Handlers \cup {Nil}]]
        BY DEF Init, Handlers
      <3> QED
        BY <3>1 DEF Init, TypeOK, States, Stages
    <2> QED
      BY <2>1 DEF Init, Shape
  <1>2. Sessions
    BY DEF Init, Sessions, ClientOK, Session, Way, Versioned, OnlyViewer, AuthenticatedAt
  <1> QED
    BY <1>1, <1>2, PolicyInit, FirstList DEF SessionInv

(* The handlers of the server, and what they do to the list.               *)
LEMMA ServerStepsOK ==
  ASSUME SessionInv, NEW c \in Clients, Connect(c) \/ ServerStep(c)
  PROVE  Shape' /\ Sessions' /\ ListOK'
  <1>1. Shape /\ Sessions /\ ListOK /\ ClientOK(c)
    BY DEF SessionInv, Sessions
  <1>2. /\ busy \in Clients \cup {Nil}
        /\ busy = c => state[c] \in {"authType", "tightResponse"}
    BY DEF SessionInv, PolicyInv, Shape, TypeOK
  <1>3. CASE ProtocolVersion(c)
    BY <1>1, <1>3, ProtocolVersionOK, ServerFrame
  <1>4. CASE ~ProtocolVersion(c)
    <2>1. UNCHANGED handlers
      BY <1>4 DEF Connect, ServerStep, SecurityType, AuthType, Authentication, ClientInit, ReadFails
    <2>2. ClientOK(c)' /\ OfServer(c)
      BY <1>1, <1>2, <1>4, ConnectOK, SecurityTypeOK, AuthTypeOK, AuthenticationOK,
         ClientInitOK, ReadFailsOK DEF ServerStep
    <2> QED
      BY <1>1, <2>1, <2>2, ServerFrame DEF ListOK
  <1> QED
    BY <1>3, <1>4

(* Other connections change the list and nothing else.                     *)
LEMMA OthersOK ==
  ASSUME Shape, Sessions, ListOK, NEW primary \in {"None", "VncAuth"}, OtherConnection(primary)
  PROVE  Shape' /\ Sessions' /\ ListOK'
  <1>1. /\ handlers' = Advertised(handlers, primary)
        /\ UNCHANGED <<screen, peer, state, open, minor, viewOnly, tight, cause, busy, offered,
                       viewerVars, toServer, toViewer>>
    BY DEF OtherConnection
  <1>2. ListOK'
    BY <1>1, NextList DEF ListOK, Shape, TypeOK, HandlersType
  <1>3. Shape'
    BY <1>1, AdvertisedType DEF Shape, TypeOK, HandlersType, viewerVars
  <1>4. ASSUME NEW d \in Clients
        PROVE  ClientOK(d)'
    BY <1>1, SameOK DEF Same, Sessions, viewerVars
  <1> QED
    BY <1>2, <1>3, <1>4 DEF Sessions

(* The invariant is inductive.                                             *)
LEMMA SessionStep == SessionInv /\ [Next]_vars => SessionInv'
  <1> SUFFICES ASSUME SessionInv, [Next]_vars PROVE SessionInv'
    OBVIOUS
  <1>1. Shape /\ Sessions /\ ListOK /\ PolicyInv
    BY DEF SessionInv
  <1>2. PolicyInv'
    BY <1>1, PolicyStep
  <1>3. CASE UNCHANGED vars
    <2>1. Shape' /\ ListOK'
      BY <1>1, <1>3 DEF vars, serverVars, viewerVars, Shape, TypeOK, ListOK
    <2>2. Sessions'
      BY <1>1, <1>3, SameOK DEF Same, Sessions, vars, serverVars, viewerVars
    <2> QED
      BY <1>2, <2>1, <2>2 DEF SessionInv
  <1>4. ASSUME NEW c \in Clients, Connect(c) \/ ServerStep(c)
        PROVE  SessionInv'
    BY <1>2, <1>4, ServerStepsOK DEF SessionInv
  <1>5. ASSUME NEW c \in Clients, ViewerStep(c) \/ HangUp(c)
        PROVE  SessionInv'
    <2>1. UNCHANGED handlers
      BY <1>5, ViewerSteps DEF serverVars
    <2>2. ListOK'
      BY <1>1, <2>1 DEF ListOK
    <2> QED
      BY <1>1, <1>2, <1>5, <2>2, ViewerStepsOK DEF SessionInv
  <1>6. ASSUME NEW primary \in {"None", "VncAuth"}, OtherConnection(primary)
        PROVE  SessionInv'
    BY <1>1, <1>2, <1>6, OthersOK DEF SessionInv
  <1> QED
    BY <1>3, <1>4, <1>5, <1>6 DEF Next

(* The states and the messages are those the programs have, and the list   *)
(* of handlers is one.                                                     *)
THEOREM TypesKept == Spec => []TypeOK
  <1>1. SessionInv => TypeOK
    BY DEF SessionInv, Shape
  <1> QED
    BY <1>1, SessionInit, SessionStep, PTL DEF Spec

(* What comes next is what is waited for: between two sides that are       *)
(* together, from a viewer that has gone, and from a server that has       *)
(* closed.                                                                 *)
LEMMA HeadsOfTogether ==
  ASSUME NEW c \in Clients, Together(c)
  PROVE  /\ toServer[c] # <<>> => Head(toServer[c]).kind = ServerExpects(state[c])
         /\ toViewer[c] # <<>> => Head(toViewer[c]).kind = ViewerExpects(at[c])
         /\ toServer[c] # <<>> \/ toViewer[c] # <<>> \/ (state[c] = "normal" /\ at[c] = "up")
  <1>1. CASE InVersion(c)
    BY SMTT(30), <1>1, Readings DEF InVersion, Way, Msg, ServerExpects, ViewerExpects
  <1>2. CASE InSecurityType(c)
    BY <1>2, Readings DEF InSecurityType, Way, Msg, Type, InitMsg, ServerExpects, ViewerExpects
  <1>3. CASE InAuthType(c)
    BY <1>3, Readings DEF InAuthType, Way, Msg, Tunnels, PasswordCap, ServerExpects, ViewerExpects
  <1>4. CASE InAuthentication(c)
    BY SMTT(30), <1>4, Readings DEF InAuthentication, Way, Msg, Challenge, Response, ServerExpects,
       ViewerExpects
  <1>5. CASE InInitialisation(c)
    BY <1>5, Readings DEF InInitialisation, Way, Msg, Tunnels, NoCaps, Ok, InitMsg,
       ServerExpects, ViewerExpects
  <1>6. CASE InNormal(c)
    BY <1>6, Readings DEF InNormal, Way, Msg, ServerExpects, ViewerExpects
  <1> QED
    BY <1>1, <1>2, <1>3, <1>4, <1>5, <1>6 DEF Together

LEMMA HeadsOfLeftover ==
  ASSUME NEW c \in Clients, Leftover(c), toServer[c] # <<>>
  PROVE  Head(toServer[c]).kind = ServerExpects(state[c])
  <1>1. CASE state[c] = "securityType"
    <2>1. toServer[c] = <<Type(c)>> \/ toServer[c] = <<Type(c), InitMsg(c)>>
      BY <1>1 DEF Leftover
    <2>2. Head(toServer[c]) = Type(c)
      BY <2>1, Readings
    <2> QED
      BY <1>1, <2>2 DEF Type, Msg, ServerExpects
  <1>2. CASE state[c] # "securityType"
    <2>1. \/ state[c] = "version" /\ toServer[c] = <<Msg("version", viewerMinor[c])>>
          \/ state[c] = "authType" /\ toServer[c] = <<Msg("type", "VncAuth")>>
          \/ /\ state[c] \in {"authentication", "tightResponse"}
             /\ toServer[c] = <<Response(c)>>
          \/ state[c] = "initialisation" /\ toServer[c] = <<InitMsg(c)>>
      BY <1>2 DEF Leftover
    <2>2. \/ state[c] = "version" /\ Head(toServer[c]).kind = "version"
          \/ state[c] = "authType" /\ Head(toServer[c]).kind = "type"
          \/ /\ state[c] \in {"authentication", "tightResponse"}
             /\ Head(toServer[c]).kind = "response"
          \/ state[c] = "initialisation" /\ Head(toServer[c]).kind = "clientInit"
      BY <2>1, Readings DEF Msg, InitMsg, Response
    <2> QED
      BY <2>2 DEF ServerExpects
  <1> QED
    BY <1>1, <1>2

LEMMA HeadsOfLastWords ==
  ASSUME NEW c \in Clients, LastWords(c), toViewer[c] # <<>>
  PROVE  Head(toViewer[c]).kind = ViewerExpects(at[c])
  BY Readings DEF LastWords, Msg, Challenge, Tunnels, PasswordCap, Failed, Reason, ViewerExpects

(* Hence, of every connection:                                             *)
LEMMA SessionInStep == SessionInv => InStep
  <1> SUFFICES ASSUME SessionInv, NEW c \in Clients
               PROVE  /\ open[c] /\ toServer[c] # <<>>
                           => Head(toServer[c]).kind = ServerExpects(state[c])
                      /\ at[c] # "gone" /\ toViewer[c] # <<>>
                           => Head(toViewer[c]).kind = ViewerExpects(at[c])
    BY DEF InStep
  <1>1. Session(c)
    BY DEF SessionInv, Sessions, ClientOK
  <1>2. CASE state[c] = "none"
    BY <1>1, <1>2 DEF Session, Way
  <1>3. CASE state[c] # "none"
    BY <1>1, <1>3, HeadsOfTogether, HeadsOfLeftover, HeadsOfLastWords DEF Session
  <1> QED
    BY <1>2, <1>3

(* Whatever versions, security types and passwords the two sides have,     *)
(* and whatever other connections do to the list of handlers meanwhile:    *)
(* what a side reads next is the message it takes it for.                  *)
THEOREM AlwaysInStep == Spec => []InStep
  BY SessionInit, SessionStep, SessionInStep, PTL DEF Spec

LEMMA SessionNoDeadlock == SessionInv => NoDeadlock
  <1> SUFFICES ASSUME SessionInv, NEW c \in Clients, open[c], at[c] # "gone",
                      toServer[c] = <<>>, toViewer[c] = <<>>
               PROVE  state[c] = "normal" /\ at[c] = "up"
    BY DEF NoDeadlock
  <1>1. Together(c)
    BY DEF SessionInv, Sessions, ClientOK, Session
  <1> QED
    BY <1>1, HeadsOfTogether

(* The server and a viewer never wait for each other: with nothing on its  *)
(* way between them the handshake is over on both sides.                   *)
THEOREM NeverBothWaiting == Spec => []NoDeadlock
  BY SessionInit, SessionStep, SessionNoDeadlock, PTL DEF Spec

(* Past the handshake of a screen with a password are only clients that    *)
(* gave one, and view-only are those that gave a view-only one; or clients *)
(* that asked for None although their list did not have it, and found it   *)
(* in the list of the process.                                             *)
THEOREM OnlyWithPassword == Spec => []Authenticated
  <1>1. SessionInv => Authenticated
    BY DEF SessionInv, Sessions, ClientOK, AuthenticatedAt, Authenticated
  <1> QED
    BY <1>1, SessionInit, SessionStep, PTL DEF Spec
=============================================================================
