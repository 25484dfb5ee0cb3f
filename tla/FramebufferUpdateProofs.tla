---------------------- MODULE FramebufferUpdateProofs ----------------------
(***************************************************************************)
(* Proofs about FramebufferUpdate: its types, for every screen, mode and   *)
(* set of inputs; and that modifiedRegion and copyRegion represent the     *)
(* update a client needs, wherever the threads of the background loop and  *)
(* CopyRect do not meet.                                                   *)
(***************************************************************************)
EXTENDS FramebufferUpdate, TLAPS

\* A position on the screen is a pair of integers.
LEMMA PixelIsPair ==
    ASSUME NEW p \in Pixels
    PROVE  p \in Int \X Int /\ p[1] \in Int /\ p[2] \in 0 .. Height - 1
BY GeometryAssumption DEF Pixels

\* Moving back undoes moving.
LEMMA MinusOpposite ==
    ASSUME NEW p \in Pixels, NEW d \in Int \X Int
    PROVE  Minus(Minus(p, d), Opposite(d)) = p
BY PixelIsPair DEF Minus, Opposite

\* A region lies inside its bounding box.
LEMMA BBoxContains ==
    ASSUME NEW R, R \subseteq Pixels
    PROVE  R \subseteq BBox(R) /\ BBox(R) \subseteq Pixels
<1>1. ASSUME NEW p \in R PROVE p \in BBox(R)
  <2>1. p \in Pixels /\ p[1] <= p[1] /\ p[2] <= p[2]
    BY <1>1, PixelIsPair
  <2> QED BY <1>1, <2>1 DEF BBox
<1> QED BY <1>1 DEF BBox

\* What an update sends holds what it was prepared for, and stays on screen.
LEMMA RegionsToSendContain ==
    ASSUME NEW U, U \subseteq Pixels, NEW S \in RegionsToSend(U)
    PROVE  U \subseteq S /\ S \subseteq Pixels
BY BBoxContains DEF RegionsToSend

\* Only pixels of the screen are candidates for an update.
LEMMA CandidatesInside ==
    ASSUME TypeOK, NEW y
    PROVE  Candidates(y) \subseteq Pixels
BY DEF TypeOK, Candidates

-----------------------------------------------------------------------------
\* Types are only kept because the sources of the copies stay on the screen,
\* which in turn holds because an operation of the application is one it may do.
TypeInv == TypeOK /\ CopySourcesOnScreen /\ Operations

\* A new client starts well typed.
LEMMA InitTypeInv == Init => TypeInv
<1> SUFFICES ASSUME Init PROVE TypeInv
  OBVIOUS
<1>1. TypeOK
  <2>1. appOp \in [op : {"idle", "draw", "copy", "newfb"}, rgn : SUBSET Pixels,
                   d : Int \X Int]
    BY DEF Init, Idle, NoOffset
  <2>2. 0 \in 0 .. Height - 1 /\ 0 \in 0 .. MaxOps
    BY GeometryAssumption
  <2>3. NoOffset \in Int \X Int
    BY DEF NoOffset
  <2>4. outPc \in {"check", "sleep", "defer", "send", "prepare", "copies", "pixels"}
    BY DEF Init
  <2>5. /\ newFBSizePending \in BOOLEAN /\ cursorWasChanged \in BOOLEAN
        /\ sendCursorShape \in BOOLEAN
    BY DEF Init
  <2> QED BY <2>1, <2>2, <2>3, <2>4, <2>5 DEF Init, TypeOK
<1>2. CopySourcesOnScreen
  BY DEF Init, CopySourcesOnScreen
<1>3. Operations
  BY DEF Init, Operations, Idle
<1> QED BY <1>1, <1>2, <1>3 DEF TypeInv

\* Every step of the application, the client and the output side keeps the types.
LEMMA NextTypeOK == TypeInv /\ [Next]_vars => TypeOK'
<1> SUFFICES ASSUME TypeOK, CopySourcesOnScreen, Operations, [Next]_vars PROVE TypeOK'
  BY DEF TypeInv
<1>s. Signal => outPc' \in {"check", "sleep", "defer", "send", "prepare", "copies",
                            "pixels"}
  BY DEF Signal, TypeOK
<1>1. CASE Draw
  <2>1. PICK R \in DrawRegions, c \in Colours :
            /\ StartOp([op |-> "draw", rgn |-> R, d |-> NoOffset])
            /\ frameBuffer' = [p \in Pixels |-> IF p \in R THEN c ELSE frameBuffer[p]]
    BY <1>1 DEF Draw
  <2> QED
    BY <2>1, InputsAssumption, GeometryAssumption
    DEF StartOp, TypeOK, NoOffset, damageVars, clientVars, updateVars
<1>2. CASE MarkRegionAsModified
  BY <1>2, <1>s
  DEF MarkRegionAsModified, EndOp, TypeOK, Idle, NoOffset, clientVars, updateVars
<1>3. CASE CopyPixels
  <2>1. PICK c \in Copies :
            /\ StartOp([op |-> "copy", rgn |-> c.rgn, d |-> c.d])
            /\ frameBuffer' = [p \in Pixels |-> IF p \in c.rgn
                                                 THEN frameBuffer[Minus(p, c.d)]
                                                 ELSE frameBuffer[p]]
    BY <1>3 DEF CopyPixels
  <2>2. c.d \in Int \X Int /\ c.rgn \subseteq Pixels
        /\ \A p \in c.rgn : Minus(p, c.d) \in Pixels
    BY InputsAssumption
  <2>3. frameBuffer' \in [Pixels -> Colours]
    BY <2>1, <2>2 DEF TypeOK
  <2> QED
    BY <2>1, <2>2, <2>3, GeometryAssumption
    DEF StartOp, TypeOK, damageVars, clientVars, updateVars
<1>4. CASE ScheduleCopyRegion
  <2>1. appOp.rgn \subseteq Pixels /\ appOp.d \in Int \X Int
    BY DEF TypeOK
  <2>2. MergedCopy(appOp.rgn, appOp.d) \subseteq Pixels
    BY <2>1 DEF MergedCopy, TypeOK
  <2>3. SupersededCopy(appOp.rgn, appOp.d) \subseteq Pixels
    BY <2>1 DEF SupersededCopy, TypeOK
  <2>4. /\ modifiedRegion' \subseteq Pixels
        /\ copyRegion' \subseteq Pixels /\ copyDelta' \in Int \X Int
    BY <1>4, <2>1, <2>2, <2>3 DEF ScheduleCopyRegion, TypeOK
  <2> QED
    BY <1>4, <1>s, <2>4
    DEF ScheduleCopyRegion, EndOp, TypeOK, Idle, NoOffset, clientVars, updateVars
<1>5. CASE SwitchFramebuffer
  <2>1. PICK f \in Frames :
            /\ StartOp([op |-> "newfb", rgn |-> Pixels, d |-> NoOffset])
            /\ frameBuffer' = f
    BY <1>5 DEF SwitchFramebuffer
  <2> QED
    BY <2>1, InputsAssumption, GeometryAssumption
    DEF StartOp, TypeOK, NoOffset, damageVars, clientVars, updateVars
<1>6. CASE NewFramebuffer
  BY <1>6, <1>s
  DEF NewFramebuffer, EndOp, TypeOK, Idle, NoOffset, clientVars, updateVars,
      useNewFBSize, useExtDesktopSize
<1>7. CASE SetCursor
  BY <1>7, GeometryAssumption
  DEF SetCursor, TypeOK, screenVars, damageVars, clientVars, updateVars
<1>8. CASE RequestIncremental
  BY <1>8, <1>s, InputsAssumption
  DEF RequestIncremental, TypeOK, screenVars, damageVars, updateVars
<1>9. CASE RequestFull
  BY <1>9, <1>s, InputsAssumption, GeometryAssumption
  DEF RequestFull, TypeOK, screenVars, updateVars, useExtDesktopSize
<1>10. CASE SetEncodings
  BY <1>10, InputsAssumption, GeometryAssumption
  DEF SetEncodings, TypeOK, screenVars, updateVars
<1>11. CASE StartDeferring
  BY <1>11
  DEF StartDeferring, OutputStep, TypeOK, screenVars, damageVars, clientVars, updateVars
<1>12. CASE WaitForUpdate
  BY <1>12
  DEF WaitForUpdate, OutputStep, TypeOK, screenVars, damageVars, clientVars, updateVars
<1>13. CASE TakeModifiedRegion
  BY <1>13 DEF TakeModifiedRegion, OutputStep, TypeOK, screenVars, damageVars, clientVars
<1>14. CASE SendNewFBSize
  BY <1>14
  DEF SendNewFBSize, OutputStep, TypeOK, screenVars, damageVars, clientVars, updateVars
<1>15. CASE ReadFlags
  BY <1>15
  DEF ReadFlags, OutputStep, TypeOK, screenVars, damageVars, clientVars,
      enableCursorShapeUpdates
<1>y. ASSUME NEW y \in 0 .. Height - 1 PROVE NextSliceY(y) \in 0 .. Height - 1
  BY <1>y, GeometryAssumption DEF NextSliceY, TypeOK
<1>16. CASE NothingToSend
  <2>1. PICK y \in 0 .. Height - 1 :
            /\ progressiveSliceY' = NextSliceY(y)
            /\ copyRegion' = LiveCopy
            /\ outPc' = "check"
            /\ OutputStep
            /\ UNCHANGED <<remoteFrameBuffer, modifiedRegion, copyDelta,
                           newFBSizePending, cursorWasChanged, updateVars>>
    BY <1>16 DEF NothingToSend
  <2> QED
    BY <2>1, <1>y DEF OutputStep, TypeOK, LiveCopy, screenVars, clientVars, updateVars
<1>17. CASE PrepareUpdate
  <2>1. PICK y \in 0 .. Height - 1 :
          LET U == Candidates(y) \ CopyToSend IN
            /\ progressiveSliceY' = NextSliceY(y)
            /\ updateCopyRegion' = CopyToSend
            /\ updateDelta' = copyDelta
            /\ updateRegion' \in RegionsToSend(U)
            /\ modifiedRegion' = (modifiedRegion \cup LiveCopy) \ (U \cup CopyToSend)
            /\ requestedRegion' = {}
            /\ copyRegion' = {}
            /\ copyDelta' = NoOffset
            /\ outPc' = "copies"
            /\ UNCHANGED <<screenVars, encodings, ops, remoteFrameBuffer,
                           newFBSizePending, cursorWasChanged, givenUpdateRegion,
                           sendCursorShape>>
    BY <1>17 DEF PrepareUpdate
  <2>2. Candidates(y) \subseteq Pixels
    BY CandidatesInside
  <2>3. updateRegion' \subseteq Pixels
    <3>1. Candidates(y) \ CopyToSend \subseteq Pixels
      BY <2>2
    <3> QED BY <2>1, <3>1, RegionsToSendContain
  <2>4. CopyToSend \subseteq Pixels /\ LiveCopy \subseteq Pixels
    BY DEF CopyToSend, LiveCopy, TypeOK
  <2> QED
    BY <2>1, <2>3, <2>4, <1>y DEF TypeOK, screenVars, NoOffset
<1>18. CASE SendCopyRegion
  <2>1. remoteFrameBuffer' \in [Pixels -> Colours]
    BY <1>18 DEF SendCopyRegion, TypeOK, CopySourcesOnScreen
  <2> QED
    BY <1>18, <2>1
    DEF SendCopyRegion, OutputStep, TypeOK, screenVars, damageVars, clientVars
<1>19. CASE SendPixel
  BY <1>19
  DEF SendPixel, OutputStep, TypeOK, screenVars, damageVars, clientVars
<1>20. CASE FinishUpdate
  BY <1>20
  DEF FinishUpdate, OutputStep, TypeOK, screenVars, damageVars, clientVars, updateVars
<1>21. CASE UNCHANGED vars
  BY <1>21 DEF vars, TypeOK, screenVars, damageVars, clientVars, updateVars
<1> QED
  BY <1>1, <1>2, <1>3, <1>4, <1>5, <1>6, <1>7, <1>8, <1>9, <1>10, <1>11, <1>12,
     <1>13, <1>14, <1>15, <1>16, <1>17, <1>18, <1>19, <1>20, <1>21
  DEF Next, App, Input, Output

\* Copies, pending or in flight, take their pixels from the screen, and the
\* application's operation stays one of those it may do.
LEMMA NextSources ==
    TypeInv /\ [Next]_vars => CopySourcesOnScreen' /\ Operations'
<1> SUFFICES ASSUME TypeOK, CopySourcesOnScreen, Operations, [Next]_vars
             PROVE  CopySourcesOnScreen' /\ Operations'
  BY DEF TypeInv
<1> DEFINE SameSources == UNCHANGED <<copyDelta, updateCopyRegion, updateDelta>>
<1>q. ASSUME copyRegion' \subseteq copyRegion, SameSources PROVE CopySourcesOnScreen'
  BY <1>q DEF CopySourcesOnScreen
<1>e. ASSUME copyRegion' = {}, updateCopyRegion' = updateCopyRegion,
             updateDelta' = updateDelta
      PROVE  CopySourcesOnScreen'
  BY <1>e DEF CopySourcesOnScreen
<1>o. ASSUME appOp' = appOp PROVE Operations'
  BY <1>o DEF Operations, Idle
<1>i. ASSUME appOp' = Idle PROVE Operations'
  BY <1>i DEF Operations, Idle
<1>1. CASE Draw
  <2>1. PICK R \in DrawRegions : StartOp([op |-> "draw", rgn |-> R, d |-> NoOffset])
    BY <1>1 DEF Draw
  <2>2. Operations'
    BY <2>1 DEF StartOp, Operations
  <2> QED BY <2>1, <2>2, <1>q DEF StartOp, damageVars, updateVars
<1>2. CASE CopyPixels
  <2>1. PICK c \in Copies : StartOp([op |-> "copy", rgn |-> c.rgn, d |-> c.d])
    BY <1>2 DEF CopyPixels
  <2>2. Operations'
    BY <2>1 DEF StartOp, Operations
  <2> QED BY <2>1, <2>2, <1>q DEF StartOp, damageVars, updateVars
<1>3. CASE SwitchFramebuffer
  <2>1. StartOp([op |-> "newfb", rgn |-> Pixels, d |-> NoOffset])
    BY <1>3 DEF SwitchFramebuffer
  <2>2. Operations'
    BY <2>1 DEF StartOp, Operations
  <2> QED BY <2>1, <2>2, <1>q DEF StartOp, damageVars, updateVars
<1>4. CASE MarkRegionAsModified
  BY <1>4, <1>q, <1>i DEF MarkRegionAsModified, EndOp, updateVars
<1>5. CASE ScheduleCopyRegion
  <2>1. \A p \in appOp.rgn : Minus(p, appOp.d) \in Pixels
    BY <1>5, InputsAssumption DEF ScheduleCopyRegion, EndOp, Operations
  <2>2. CASE useCopyRect
    <3>1. copyRegion' = MergedCopy(appOp.rgn, appOp.d) /\ copyDelta' = appOp.d
      BY <1>5, <2>2 DEF ScheduleCopyRegion
    <3> QED
      BY <1>5, <1>i, <2>1, <3>1
      DEF ScheduleCopyRegion, EndOp, updateVars, MergedCopy, CopySourcesOnScreen
  <2>3. CASE ~useCopyRect
    BY <1>5, <1>q, <1>i, <2>3 DEF ScheduleCopyRegion, EndOp, updateVars
  <2> QED BY <2>2, <2>3
<1>6. CASE NewFramebuffer
  BY <1>6, <1>e, <1>i DEF NewFramebuffer, EndOp, updateVars
<1>7. CASE SetCursor
  BY <1>7, <1>q, <1>o DEF SetCursor, screenVars, damageVars, updateVars
<1>8. CASE Input
  BY <1>8, <1>q, <1>o
  DEF Input, RequestIncremental, RequestFull, SetEncodings, screenVars, damageVars,
      updateVars
<1>9. CASE PrepareUpdate
  <2>1. /\ updateCopyRegion' \subseteq copyRegion /\ updateDelta' = copyDelta
        /\ copyRegion' = {} /\ appOp' = appOp
    BY <1>9 DEF PrepareUpdate, CopyToSend, LiveCopy, screenVars
  <2> QED BY <2>1, <1>o DEF CopySourcesOnScreen
<1>10. CASE SendCopyRegion
  BY <1>10, <1>o
  DEF SendCopyRegion, OutputStep, screenVars, damageVars, CopySourcesOnScreen
<1>11. CASE SendPixel
  BY <1>11, <1>q, <1>o DEF SendPixel, OutputStep, screenVars, damageVars
<1>12. CASE NothingToSend
  BY <1>12, <1>q, <1>o DEF NothingToSend, OutputStep, screenVars, updateVars, LiveCopy
<1>13. CASE StartDeferring \/ WaitForUpdate \/ TakeModifiedRegion \/ SendNewFBSize
              \/ ReadFlags \/ FinishUpdate
  BY <1>13, <1>q, <1>o
  DEF StartDeferring, WaitForUpdate, TakeModifiedRegion, SendNewFBSize, ReadFlags,
      FinishUpdate, OutputStep, screenVars, damageVars, updateVars
<1>14. CASE UNCHANGED vars
  BY <1>14, <1>q, <1>o DEF vars, screenVars, damageVars, updateVars
<1> QED
  BY <1>1, <1>2, <1>3, <1>4, <1>5, <1>6, <1>7, <1>8, <1>9, <1>10, <1>11, <1>12,
     <1>13, <1>14
  DEF Next, App, Output

\* Types are kept in every run: in particular no update ever names a pixel off
\* the screen, as something to send or as the source of a copy.
THEOREM TypeCorrect == Spec => [](TypeOK /\ CopySourcesOnScreen)
<1>1. TypeInv /\ [Next]_vars => TypeInv'
  BY NextTypeOK, NextSources DEF TypeInv
<1>2. TypeInv => TypeOK /\ CopySourcesOnScreen
  BY DEF TypeInv
<1> QED BY InitTypeInv, <1>1, <1>2, PTL DEF Spec
-----------------------------------------------------------------------------
(***************************************************************************)
(* Representation.  A step of the library sends what the two regions hold  *)
(* or rewrites them; a step of the application changes pixels and then the *)
(* regions.  Covered is kept because each keeps its account of the pixels  *)
(* it is responsible for.  It needs that copies and the threads of the     *)
(* background loop do not meet.                                            *)
(***************************************************************************)
SeparateCopies ==
    BackgroundLoop => \A E \in EncodingLists : "CopyRect" \notin E

\* The parts of the invariant that TypeInv does not hold already.
CoverInv == Covered /\ UnreportedCopy /\ NoCopyBehindUpdate /\ Phases

\* A new client starts with everything modified, so the claims hold of no pixel.
LEMMA InitCoverInv == Init => CoverInv
BY DEF Init, CoverInv, Covered, UnreportedCopy, NoCopyBehindUpdate, Phases, Idle

\* A step that touches neither pixels nor regions keeps the account.
LEMMA QuietStep ==
    ASSUME CoverInv,
           UNCHANGED <<frameBuffer, remoteFrameBuffer, modifiedRegion, copyRegion,
                       copyDelta, updateRegion, updateCopyRegion, updateDelta, appOp>>
    PROVE  Covered' /\ UnreportedCopy' /\ NoCopyBehindUpdate'
BY DEF CoverInv, Covered, UnreportedCopy, NoCopyBehindUpdate, InFlight

\* So does one that declares more pixels modified, pending copies among them.
LEMMA DamageStep ==
    ASSUME CoverInv,
           modifiedRegion \subseteq modifiedRegion',
           copyRegion' \subseteq copyRegion,
           copyRegion \ copyRegion' \subseteq modifiedRegion',
           UNCHANGED <<frameBuffer, remoteFrameBuffer, copyDelta, updateRegion,
                       updateCopyRegion, updateDelta, appOp>>
    PROVE  Covered' /\ UnreportedCopy' /\ NoCopyBehindUpdate'
<1>1. Covered'
  BY DEF CoverInv, Covered, InFlight
<1>2. UnreportedCopy'
  BY DEF CoverInv, UnreportedCopy
<1>3. NoCopyBehindUpdate'
  BY DEF CoverInv, NoCopyBehindUpdate
<1> QED BY <1>1, <1>2, <1>3

\* Painting, or copying, leaves every pixel outside the operation's region as
\* it was, and starts with nothing else unreported.
LEMMA StartStep ==
    ASSUME TypeOK, CoverInv, NEW op, StartOp(op), op.op # "copy",
           \A p \in Pixels \ op.rgn : frameBuffer'[p] = frameBuffer[p]
    PROVE  CoverInv'
<1> USE DEF StartOp, damageVars, clientVars, updateVars
<1>1. Covered'
  BY DEF CoverInv, Covered, InFlight, Idle
<1>2. UnreportedCopy'
  BY DEF CoverInv, UnreportedCopy
<1>3. NoCopyBehindUpdate'
  BY DEF CoverInv, NoCopyBehindUpdate
<1>4. Phases'
  BY DEF CoverInv, Phases, AppMayRun
<1> QED BY <1>1, <1>2, <1>3, <1>4 DEF CoverInv

\* Pixels moved in frameBuffer and not reported yet (rfbDoCopyRegion).
LEMMA CopyPixelsStep ==
    ASSUME TypeOK, CoverInv, CopyPixels
    PROVE  CoverInv'
<1>1. PICK c \in Copies :
          /\ StartOp([op |-> "copy", rgn |-> c.rgn, d |-> c.d])
          /\ frameBuffer' = [p \in Pixels |-> IF p \in c.rgn
                                               THEN frameBuffer[Minus(p, c.d)]
                                               ELSE frameBuffer[p]]
  BY DEF CopyPixels
<1>2. c.rgn \subseteq Pixels /\ \A p \in c.rgn : Minus(p, c.d) \in Pixels
  BY InputsAssumption
<1> USE DEF StartOp, damageVars, clientVars, updateVars
<1>3. Covered'
  BY <1>1 DEF CoverInv, Covered, InFlight, Idle
<1>4. UnreportedCopy'
  <2> SUFFICES ASSUME ~BackgroundLoop, NEW p \in c.rgn,
                      Minus(p, c.d) \notin modifiedRegion \cup copyRegion
               PROVE  frameBuffer'[p] = remoteFrameBuffer[Minus(p, c.d)]
    BY <1>1 DEF UnreportedCopy
  <2>1. updateRegion = {} /\ updateCopyRegion = {} /\ appOp.rgn = {}
    BY <1>1 DEF CoverInv, Phases, AppMayRun, Idle
  <2>2. frameBuffer'[p] = frameBuffer[Minus(p, c.d)]
    BY <1>1, <1>2
  <2>3. frameBuffer[Minus(p, c.d)] = remoteFrameBuffer[Minus(p, c.d)]
    BY <1>2, <2>1 DEF CoverInv, Covered, InFlight
  <2> QED BY <2>2, <2>3
<1>5. NoCopyBehindUpdate'
  BY <1>1 DEF CoverInv, NoCopyBehindUpdate
<1>6. Phases'
  BY <1>1 DEF CoverInv, Phases, AppMayRun
<1> QED BY <1>3, <1>4, <1>5, <1>6 DEF CoverInv

\* Reporting an operation leaves the phases of the output side in order.
LEMMA ReportPhases ==
    ASSUME CoverInv, NEW op, EndOp(op)
    PROVE  Phases'
BY DEF CoverInv, Phases, EndOp, Signal, Idle, updateVars

\* rfbMarkRegionAsModified after drawing.
LEMMA MarkStep ==
    ASSUME TypeOK, CoverInv, MarkRegionAsModified
    PROVE  CoverInv'
<1> USE DEF MarkRegionAsModified, EndOp, updateVars
<1>1. Covered'
  BY DEF CoverInv, Covered, InFlight
<1>2. UnreportedCopy'
  BY DEF UnreportedCopy, Idle
<1>3. NoCopyBehindUpdate'
  BY DEF CoverInv, NoCopyBehindUpdate
<1> QED BY <1>1, <1>2, <1>3, ReportPhases DEF CoverInv

\* rfbNewFramebuffer marks the whole screen.
LEMMA NewFramebufferStep ==
    ASSUME TypeOK, CoverInv, NewFramebuffer
    PROVE  CoverInv'
<1> USE DEF NewFramebuffer, EndOp, updateVars
<1>1. Covered'
  BY DEF Covered
<1>2. UnreportedCopy'
  BY DEF UnreportedCopy, Idle
<1>3. NoCopyBehindUpdate'
  BY DEF CoverInv, NoCopyBehindUpdate
<1> QED BY <1>1, <1>2, <1>3, ReportPhases DEF CoverInv

\* The heart of the matter: after a copy of R by d is scheduled, a pixel that is
\* to be copied and is not modified has a source that the client holds.
LEMMA ScheduleStep ==
    ASSUME SeparateCopies, TypeOK, CopySourcesOnScreen, Operations, CoverInv,
           ScheduleCopyRegion
    PROVE  CoverInv'
<1> DEFINE R == appOp.rgn
           d == appOp.d
           C == MergedCopy(R, d)
           M == modifiedRegion \cup SupersededCopy(R, d)
<1>0. /\ EndOp("copy")
      /\ appOp.op = "copy" /\ appOp' = Idle
      /\ UNCHANGED <<frameBuffer, remoteFrameBuffer, updateRegion, updateCopyRegion,
                     updateDelta>>
  BY DEF ScheduleCopyRegion, EndOp, updateVars
<1>1. d \in Int \X Int /\ R \subseteq Pixels /\ \A p \in R : Minus(p, d) \in Pixels
  BY <1>0, InputsAssumption DEF Operations
<1>2. UnreportedCopy' /\ Phases'
  BY <1>0, ReportPhases DEF UnreportedCopy, Idle
<1>3. CASE ~useCopyRect
  <2>1. /\ modifiedRegion' = modifiedRegion \cup R
        /\ UNCHANGED <<copyRegion, copyDelta>>
    BY <1>3 DEF ScheduleCopyRegion
  <2>2. Covered'
    BY <1>0, <2>1 DEF CoverInv, Covered, InFlight
  <2>3. NoCopyBehindUpdate'
    BY <1>0, <2>1 DEF CoverInv, NoCopyBehindUpdate
  <2> QED BY <1>2, <2>2, <2>3 DEF CoverInv
<1>4. CASE useCopyRect
  <2>1. /\ copyRegion' = C /\ copyDelta' = d
        /\ modifiedRegion' = M \cup (Offset(M, d) \cap C)
    BY <1>4 DEF ScheduleCopyRegion
  <2>2. ~BackgroundLoop
    BY <1>4 DEF SeparateCopies, useCopyRect, TypeOK
  <2>3. updateRegion = {} /\ updateCopyRegion = {}
    BY <1>0, <2>2 DEF CoverInv, Phases, Idle
  <2>4. NoCopyBehindUpdate'
    BY <1>0, <2>2, <2>3 DEF NoCopyBehindUpdate
  <2>5. ASSUME NEW p \in R, p \notin modifiedRegion'
        PROVE  frameBuffer[p] = remoteFrameBuffer[Minus(p, d)]
    <3>1. Minus(p, d) \in Pixels /\ p \in Pixels
      BY <1>1
    <3>2. Minus(p, d) \notin M
      BY <2>1, <2>5, <3>1 DEF Offset, MergedCopy
    <3>3. Minus(p, d) \notin copyRegion
      <4>1. Minus(p, d) \in Offset(R, Opposite(d))
        BY <1>1, <3>1, MinusOpposite DEF Offset
      <4> QED BY <3>2, <4>1 DEF SupersededCopy
    <3> QED
      BY <1>0, <2>2, <3>2, <3>3 DEF CoverInv, UnreportedCopy
  <2>6. ASSUME NEW p \in Pixels, p \notin modifiedRegion', p \notin R
        PROVE  frameBuffer[p] = IF p \in C THEN remoteFrameBuffer[Minus(p, d)]
                                           ELSE remoteFrameBuffer[p]
    <3>1. p \notin modifiedRegion /\ p \notin SupersededCopy(R, d)
      BY <2>1, <2>6
    <3>2. frameBuffer[p] = IF p \in copyRegion
                           THEN remoteFrameBuffer[Minus(p, copyDelta)]
                           ELSE remoteFrameBuffer[p]
      BY <2>3, <2>6, <3>1 DEF CoverInv, Covered, InFlight
    <3>3. CASE copyDelta # d
      BY <2>6, <3>1, <3>2, <3>3 DEF SupersededCopy, MergedCopy
    <3>4. CASE copyDelta = d
      BY <2>6, <3>2, <3>4 DEF MergedCopy
    <3> QED BY <3>3, <3>4
  <2>7. Covered'
    <3> SUFFICES ASSUME NEW p \in Pixels, p \notin modifiedRegion'
                 PROVE  frameBuffer[p] = IF p \in C THEN remoteFrameBuffer[Minus(p, d)]
                                                    ELSE remoteFrameBuffer[p]
      BY <1>0, <2>1, <2>3 DEF Covered
    <3>1. CASE p \in R
      BY <2>5, <3>1 DEF MergedCopy
    <3>2. CASE p \notin R
      BY <2>6, <3>2
    <3> QED BY <3>1, <3>2
  <2> QED BY <1>2, <2>4, <2>7 DEF CoverInv
<1> QED BY <1>3, <1>4

\* What leaves the regions is what the update will send.
LEMMA PrepareStep ==
    ASSUME TypeOK, CoverInv, PrepareUpdate
    PROVE  CoverInv'
<1>1. PICK y \in 0 .. Height - 1 :
          LET U == Candidates(y) \ CopyToSend IN
          /\ outPc = "prepare"
          /\ updateCopyRegion' = CopyToSend
          /\ updateDelta' = copyDelta
          /\ updateRegion' \in RegionsToSend(U)
          /\ modifiedRegion' = (modifiedRegion \cup LiveCopy) \ (U \cup CopyToSend)
          /\ copyRegion' = {}
          /\ outPc' = "copies"
          /\ UNCHANGED <<frameBuffer, remoteFrameBuffer, appOp>>
  BY DEF PrepareUpdate, screenVars
<1> DEFINE U == Candidates(y) \ CopyToSend
<1>2. U \subseteq updateRegion'
  BY <1>1, CandidatesInside, RegionsToSendContain
<1>3. updateRegion = {} /\ updateCopyRegion = {}
  BY <1>1 DEF CoverInv, Phases
<1>4. CopyToSend \subseteq LiveCopy /\ LiveCopy = copyRegion \ modifiedRegion
  BY DEF CopyToSend, LiveCopy
<1>5. Covered'
  <2> SUFFICES ASSUME NEW p \in Pixels, p \notin modifiedRegion',
                      p \notin updateRegion', p \notin appOp.rgn
               PROVE  frameBuffer[p] = IF p \in CopyToSend
                                       THEN remoteFrameBuffer[Minus(p, copyDelta)]
                                       ELSE remoteFrameBuffer[p]
    BY <1>1 DEF Covered, InFlight
  <2>1. p \notin U
    BY <1>2
  <2>2. p \notin (modifiedRegion \cup LiveCopy) \/ p \in CopyToSend
    BY <1>1, <2>1
  <2>3. p \notin modifiedRegion /\ (p \in copyRegion <=> p \in CopyToSend)
    BY <1>4, <2>2
  <2> QED BY <1>3, <2>3 DEF CoverInv, Covered, InFlight
<1>6. UnreportedCopy'
  BY <1>1 DEF CoverInv, Phases, UnreportedCopy, Idle
<1>7. NoCopyBehindUpdate'
  BY <1>1 DEF NoCopyBehindUpdate
<1>8. Phases'
  BY <1>1 DEF CoverInv, Phases
<1> QED BY <1>5, <1>6, <1>7, <1>8 DEF CoverInv

\* Nothing is pending that the copies just made could disturb.
LEMMA SendCopyStep ==
    ASSUME TypeOK, CoverInv, SendCopyRegion
    PROVE  CoverInv'
<1>1. /\ outPc = "copies" /\ outPc' = "pixels"
      /\ remoteFrameBuffer' =
           [p \in Pixels |-> IF p \in updateCopyRegion
                             THEN remoteFrameBuffer[Minus(p, updateDelta)]
                             ELSE remoteFrameBuffer[p]]
      /\ updateCopyRegion' = {}
      /\ UNCHANGED <<frameBuffer, appOp, modifiedRegion, copyRegion, copyDelta,
                     updateRegion, updateDelta>>
  BY DEF SendCopyRegion, OutputStep, screenVars, damageVars
<1>2. copyRegion # {} => updateCopyRegion = {}
  BY DEF CoverInv, NoCopyBehindUpdate
<1>3. Covered'
  <2>1. CASE copyRegion = {}
    BY <1>1, <2>1 DEF CoverInv, Covered, InFlight
  <2>2. CASE updateCopyRegion = {}
    <3>1. remoteFrameBuffer' = remoteFrameBuffer
      BY <1>1, <2>2 DEF TypeOK
    <3> QED BY <1>1, <2>2, <3>1 DEF CoverInv, Covered, InFlight
  <2> QED BY <1>2, <2>1, <2>2
<1>4. UnreportedCopy'
  BY <1>1 DEF CoverInv, Phases, UnreportedCopy, Idle
<1>5. NoCopyBehindUpdate' /\ Phases'
  BY <1>1 DEF CoverInv, NoCopyBehindUpdate, Phases
<1> QED BY <1>3, <1>4, <1>5 DEF CoverInv

\* One pixel of an update in flight (SendPixel).
LEMMA SendPixelStep ==
    ASSUME TypeOK, CoverInv, SendPixel
    PROVE  CoverInv'
<1>1. PICK q \in updateRegion :
          /\ outPc = "pixels" /\ outPc' = outPc
          /\ remoteFrameBuffer' = [remoteFrameBuffer EXCEPT ![q] = frameBuffer[q]]
          /\ updateRegion' = updateRegion \ {q}
          /\ UNCHANGED <<frameBuffer, appOp, modifiedRegion, copyRegion, copyDelta,
                         updateCopyRegion, updateDelta>>
  BY DEF SendPixel, OutputStep, screenVars, damageVars
<1>2. copyRegion = {} /\ updateCopyRegion = {}
  BY <1>1 DEF CoverInv, NoCopyBehindUpdate, Phases
<1>3. Covered'
  <2> SUFFICES ASSUME NEW p \in Pixels, p \notin modifiedRegion,
                      p \notin updateRegion', p \notin appOp.rgn
               PROVE  frameBuffer[p] = remoteFrameBuffer'[p]
    BY <1>1, <1>2 DEF Covered, InFlight
  <2>1. CASE p = q
    BY <1>1, <2>1 DEF TypeOK
  <2>2. CASE p # q
    <3>1. remoteFrameBuffer'[p] = remoteFrameBuffer[p]
      BY <1>1, <2>2 DEF TypeOK
    <3> QED BY <1>1, <1>2, <2>2, <3>1 DEF CoverInv, Covered, InFlight
  <2> QED BY <2>1, <2>2
<1>4. UnreportedCopy'
  BY <1>1 DEF CoverInv, Phases, UnreportedCopy, Idle
<1>5. NoCopyBehindUpdate' /\ Phases'
  BY <1>1, <1>2 DEF CoverInv, NoCopyBehindUpdate, Phases
<1> QED BY <1>3, <1>4, <1>5 DEF CoverInv

\* Every step keeps the inductive invariant.
LEMMA NextCoverInv ==
    SeparateCopies /\ TypeInv /\ CoverInv /\ [Next]_vars => CoverInv'
<1> SUFFICES ASSUME SeparateCopies, TypeOK, CopySourcesOnScreen, Operations, CoverInv,
                    [Next]_vars
             PROVE  CoverInv'
  BY DEF TypeInv
<1>1. CASE Draw
  <2>1. PICK R \in DrawRegions, c \in Colours :
            /\ StartOp([op |-> "draw", rgn |-> R, d |-> NoOffset])
            /\ frameBuffer' = [p \in Pixels |-> IF p \in R THEN c ELSE frameBuffer[p]]
    BY <1>1 DEF Draw
  <2> QED BY <2>1, StartStep
<1>2. CASE SwitchFramebuffer
  <2>1. StartOp([op |-> "newfb", rgn |-> Pixels, d |-> NoOffset])
    BY <1>2 DEF SwitchFramebuffer
  <2> QED BY <2>1, StartStep
<1>3. CASE CopyPixels
  BY <1>3, CopyPixelsStep
<1>4. CASE MarkRegionAsModified
  BY <1>4, MarkStep
<1>5. CASE ScheduleCopyRegion
  BY <1>5, ScheduleStep
<1>6. CASE NewFramebuffer
  BY <1>6, NewFramebufferStep
<1>7. CASE SetCursor
  <2>1. Phases'
    BY <1>7 DEF SetCursor, CoverInv, Phases, screenVars, updateVars
  <2> QED
    BY <1>7, <2>1, QuietStep DEF SetCursor, CoverInv, screenVars, damageVars, updateVars
<1>8. CASE RequestIncremental
  <2>1. Phases'
    BY <1>8 DEF RequestIncremental, InputMayRun, AppMayRun, Signal, CoverInv, Phases,
                screenVars, updateVars
  <2> QED
    BY <1>8, <2>1, QuietStep
    DEF RequestIncremental, CoverInv, screenVars, damageVars, updateVars
<1>9. CASE RequestFull
  <2>1. Phases'
    BY <1>9 DEF RequestFull, InputMayRun, AppMayRun, Signal, CoverInv, Phases,
                screenVars, updateVars
  <2>2. Covered' /\ UnreportedCopy' /\ NoCopyBehindUpdate'
    BY <1>9, DamageStep DEF RequestFull, screenVars, updateVars
  <2> QED BY <2>1, <2>2 DEF CoverInv
<1>10. CASE SetEncodings
  <2>1. Phases'
    BY <1>10 DEF SetEncodings, CoverInv, Phases, screenVars, updateVars
  <2>2. Covered' /\ UnreportedCopy' /\ NoCopyBehindUpdate'
    BY <1>10, DamageStep DEF SetEncodings, screenVars, updateVars
  <2> QED BY <2>1, <2>2 DEF CoverInv
<1>11. CASE NothingToSend
  <2>1. Phases'
    BY <1>11 DEF NothingToSend, OutputStep, CoverInv, Phases, screenVars, updateVars
  <2>2. Covered' /\ UnreportedCopy' /\ NoCopyBehindUpdate'
    BY <1>11, DamageStep DEF NothingToSend, LiveCopy, OutputStep, screenVars, updateVars
  <2> QED BY <2>1, <2>2 DEF CoverInv
<1>12. CASE PrepareUpdate
  BY <1>12, PrepareStep
<1>13. CASE SendCopyRegion
  BY <1>13, SendCopyStep
<1>14. CASE SendPixel
  BY <1>14, SendPixelStep
<1>15. CASE StartDeferring \/ WaitForUpdate \/ TakeModifiedRegion \/ SendNewFBSize
              \/ ReadFlags \/ FinishUpdate
  <2> USE DEF StartDeferring, WaitForUpdate, TakeModifiedRegion, SendNewFBSize,
              ReadFlags, FinishUpdate, OutputStep, screenVars, damageVars, updateVars
  <2>1. Phases'
    BY <1>15 DEF CoverInv, Phases, LibraryMayRun
  <2>2. Covered' /\ UnreportedCopy' /\ NoCopyBehindUpdate'
    BY <1>15, QuietStep
  <2> QED BY <2>1, <2>2 DEF CoverInv
<1>16. CASE UNCHANGED vars
  BY <1>16, QuietStep
  DEF vars, screenVars, damageVars, updateVars, CoverInv, Phases
<1> QED
  BY <1>1, <1>2, <1>3, <1>4, <1>5, <1>6, <1>7, <1>8, <1>9, <1>10, <1>11, <1>12,
     <1>13, <1>14, <1>15, <1>16
  DEF Next, App, Input, Output

\* The invariant that explains the representation holds wherever copies and the
\* threads of the background loop do not meet.
THEOREM RepresentationInvariant == SeparateCopies => (Spec => []IInv)
<1> SUFFICES ASSUME SeparateCopies PROVE Spec => []IInv
  OBVIOUS
<1>1. Init => TypeInv /\ CoverInv
  BY InitTypeInv, InitCoverInv
<1>2. TypeInv /\ CoverInv /\ [Next]_vars => TypeInv' /\ CoverInv'
  BY NextTypeOK, NextSources, NextCoverInv DEF TypeInv
<1>3. TypeInv /\ CoverInv => IInv
  BY DEF TypeInv, CoverInv, IInv
<1> QED BY <1>1, <1>2, <1>3, PTL DEF Spec

\* rfb.h's claim: between updates, modifiedRegion and copyRegion are the update
\* needed to get the client's framebuffer to the current state of ours.
THEOREM RegionsRepresentUpdate == SeparateCopies => (Spec => []Represents)
<1>1. IInv => Represents
  BY DEF IInv, Covered, Phases, Represents, InFlight, Idle
<1> QED BY <1>1, RepresentationInvariant, PTL
-----------------------------------------------------------------------------
(***************************************************************************)
(* Refinement: FramebufferUpdate implements RemoteDisplay.                 *)
(***************************************************************************)
DisplayVars == <<frameBuffer, remoteFrameBuffer, Damaged>>

\* A step that only adds to the damage, and changes pixels only there.
LEMMA GrowthIsChange ==
    ASSUME TypeOK', Damaged \subseteq Damaged', remoteFrameBuffer' = remoteFrameBuffer,
           \A p \in Pixels \ Damaged' : frameBuffer'[p] = frameBuffer[p]
    PROVE  Display!Change
BY DEF Display!Change, Damaged, InFlight, TypeOK

\* A step of the application, the client or the output side before it sends.
LEMMA SilentStep ==
    ASSUME TypeOK', UNCHANGED <<frameBuffer, remoteFrameBuffer>>, Damaged \subseteq Damaged'
    PROVE  Display!Change
BY GrowthIsChange

\* Beginning an operation damages its region.
LEMMA StartIsChange ==
    ASSUME TypeOK', NEW op, StartOp(op), Operations, op.op # "idle",
           \A p \in Pixels \ op.rgn : frameBuffer'[p] = frameBuffer[p]
    PROVE  Display!Change
<1>1. Damaged \subseteq Damaged' /\ op.rgn \subseteq Damaged'
  BY DEF StartOp, Damaged, InFlight, Idle, damageVars, updateVars
<1> QED BY <1>1, GrowthIsChange DEF StartOp

\* rfbScheduleCopyRegion is a change of the display: no pixel leaves the damage.
LEMMA ScheduleIsChange ==
    ASSUME TypeOK', ScheduleCopyRegion
    PROVE  Display!Change
<1>1. appOp.rgn \cup modifiedRegion \cup copyRegion
        \subseteq modifiedRegion' \cup copyRegion'
  BY DEF ScheduleCopyRegion, MergedCopy, SupersededCopy
<1>2. /\ UNCHANGED <<frameBuffer, remoteFrameBuffer, updateRegion, updateCopyRegion>>
  BY DEF ScheduleCopyRegion, EndOp, updateVars
<1> QED BY <1>1, <1>2, SilentStep DEF Damaged, InFlight

\* A copied pixel leaves the damage only if its source was what the server has.
LEMMA SendCopyIsDelivery ==
    ASSUME TypeOK, TypeOK', CoverInv, SendCopyRegion
    PROVE  Display!Deliver
<1>1. /\ remoteFrameBuffer' =
           [p \in Pixels |-> IF p \in updateCopyRegion
                             THEN remoteFrameBuffer[Minus(p, updateDelta)]
                             ELSE remoteFrameBuffer[p]]
      /\ updateCopyRegion' = {}
      /\ UNCHANGED <<frameBuffer, appOp, modifiedRegion, copyRegion, updateRegion>>
  BY DEF SendCopyRegion, OutputStep, screenVars, damageVars
<1>2. Damaged' \subseteq Damaged /\ updateCopyRegion \subseteq Damaged
      /\ Damaged \subseteq Pixels
  BY <1>1 DEF Damaged, InFlight, TypeOK
<1>3. \A p \in Pixels : p \notin Damaged => remoteFrameBuffer'[p] = remoteFrameBuffer[p]
  BY <1>1, <1>2
<1>4. ASSUME NEW p \in Damaged \ Damaged'
      PROVE  remoteFrameBuffer'[p] = frameBuffer[p]
  <2>1. p \in Pixels /\ p \in updateCopyRegion /\ p \notin copyRegion
        /\ p \notin modifiedRegion \cup InFlight
    BY <1>1, <1>2 DEF Damaged, InFlight
  <2>2. remoteFrameBuffer'[p] = remoteFrameBuffer[Minus(p, updateDelta)]
    BY <1>1, <2>1
  <2> QED BY <2>1, <2>2 DEF CoverInv, Covered
<1> QED BY <1>1, <1>2, <1>3, <1>4 DEF Display!Deliver, TypeOK

\* A pixel sent is a delivery, or leaves the damage as it is.
LEMMA SendPixelIsDelivery ==
    ASSUME TypeOK, TypeOK', SendPixel
    PROVE  Display!Deliver
<1>1. PICK q \in updateRegion :
          /\ remoteFrameBuffer' = [remoteFrameBuffer EXCEPT ![q] = frameBuffer[q]]
          /\ updateRegion' = updateRegion \ {q}
          /\ UNCHANGED <<frameBuffer, appOp, modifiedRegion, copyRegion,
                         updateCopyRegion>>
  BY DEF SendPixel, OutputStep, screenVars, damageVars
<1>2. /\ Damaged' \subseteq Damaged /\ Damaged \ Damaged' \subseteq {q}
      /\ q \in Damaged /\ Damaged \subseteq Pixels
  BY <1>1 DEF Damaged, InFlight, TypeOK
<1>3. \A p \in Pixels : p \notin Damaged => remoteFrameBuffer'[p] = remoteFrameBuffer[p]
  BY <1>1, <1>2 DEF TypeOK
<1>4. \A p \in Damaged \ Damaged' : remoteFrameBuffer'[p] = frameBuffer[p]
  BY <1>1, <1>2 DEF TypeOK
<1> QED BY <1>1, <1>2, <1>3, <1>4 DEF Display!Deliver, TypeOK

\* What leaves the two regions enters the update.
LEMMA PrepareIsChange ==
    ASSUME TypeOK, TypeOK', CoverInv, PrepareUpdate
    PROVE  Display!Change
<1>1. PICK y \in 0 .. Height - 1 :
          LET U == Candidates(y) \ CopyToSend IN
          /\ outPc = "prepare"
          /\ updateCopyRegion' = CopyToSend
          /\ updateRegion' \in RegionsToSend(U)
          /\ modifiedRegion' = (modifiedRegion \cup LiveCopy) \ (U \cup CopyToSend)
          /\ UNCHANGED <<frameBuffer, remoteFrameBuffer, appOp>>
  BY DEF PrepareUpdate, screenVars
<1> DEFINE U == Candidates(y) \ CopyToSend
<1>2. U \subseteq updateRegion'
  BY <1>1, CandidatesInside, RegionsToSendContain
<1>3. updateRegion = {} /\ updateCopyRegion = {}
  BY <1>1 DEF CoverInv, Phases
<1>4. modifiedRegion \cup copyRegion
        \subseteq modifiedRegion' \cup updateRegion' \cup updateCopyRegion'
  BY <1>1, <1>2 DEF LiveCopy
<1> QED BY <1>1, <1>3, <1>4, SilentStep DEF Damaged, InFlight

\* Every step is a change, a delivery or a stutter of the display.
LEMMA StepRefines ==
    TypeInv /\ CoverInv /\ TypeInv' /\ [Next]_vars =>
        [Display!Change \/ Display!Deliver]_DisplayVars
<1> SUFFICES ASSUME TypeOK, TypeOK', Operations, CoverInv, [Next]_vars
             PROVE  Display!Change \/ Display!Deliver \/ UNCHANGED DisplayVars
  BY DEF TypeInv
<1>1. CASE Draw
  <2>1. PICK R \in DrawRegions, c \in Colours :
            /\ StartOp([op |-> "draw", rgn |-> R, d |-> NoOffset])
            /\ frameBuffer' = [p \in Pixels |-> IF p \in R THEN c ELSE frameBuffer[p]]
    BY <1>1 DEF Draw
  <2> QED BY <2>1, StartIsChange
<1>2. CASE CopyPixels
  <2>1. PICK c \in Copies :
            /\ StartOp([op |-> "copy", rgn |-> c.rgn, d |-> c.d])
            /\ frameBuffer' = [p \in Pixels |-> IF p \in c.rgn
                                                 THEN frameBuffer[Minus(p, c.d)]
                                                 ELSE frameBuffer[p]]
    BY <1>2 DEF CopyPixels
  <2> QED BY <2>1, StartIsChange
<1>3. CASE SwitchFramebuffer
  <2>1. StartOp([op |-> "newfb", rgn |-> Pixels, d |-> NoOffset])
    BY <1>3 DEF SwitchFramebuffer
  <2> QED BY <2>1, StartIsChange
<1>4. CASE MarkRegionAsModified
  BY <1>4, SilentStep DEF MarkRegionAsModified, EndOp, updateVars, Damaged, InFlight
<1>5. CASE ScheduleCopyRegion
  BY <1>5, ScheduleIsChange
<1>6. CASE NewFramebuffer
  <2>1. Damaged' = Pixels
    BY <1>6 DEF NewFramebuffer, Damaged, InFlight, TypeOK
  <2>2. Damaged \subseteq Pixels
    BY DEF Damaged, InFlight, TypeOK
  <2> QED BY <1>6, <2>1, <2>2, SilentStep DEF NewFramebuffer, EndOp
<1>7. CASE SetCursor
  BY <1>7 DEF SetCursor, screenVars, damageVars, updateVars, DisplayVars, Damaged, InFlight
<1>8. CASE Input
  BY <1>8, SilentStep
  DEF Input, RequestIncremental, RequestFull, SetEncodings, screenVars, damageVars,
      updateVars, Damaged, InFlight
<1>9. CASE NothingToSend
  BY <1>9, SilentStep
  DEF NothingToSend, LiveCopy, OutputStep, screenVars, updateVars, Damaged, InFlight
<1>10. CASE PrepareUpdate
  BY <1>10, PrepareIsChange
<1>11. CASE SendCopyRegion
  BY <1>11, SendCopyIsDelivery
<1>12. CASE SendPixel
  BY <1>12, SendPixelIsDelivery
<1>13. CASE StartDeferring \/ WaitForUpdate \/ TakeModifiedRegion \/ SendNewFBSize
              \/ ReadFlags \/ FinishUpdate
  BY <1>13
  DEF StartDeferring, WaitForUpdate, TakeModifiedRegion, SendNewFBSize, ReadFlags,
      FinishUpdate, OutputStep, screenVars, damageVars, updateVars, DisplayVars,
      Damaged, InFlight
<1>14. CASE UNCHANGED vars
  BY <1>14
  DEF vars, screenVars, damageVars, updateVars, DisplayVars, Damaged, InFlight
<1> QED
  BY <1>1, <1>2, <1>3, <1>4, <1>5, <1>6, <1>7, <1>8, <1>9, <1>10, <1>11, <1>12,
     <1>13, <1>14
  DEF Next, App, Input, Output

\* The update engine implements the abstract display: the viewer's pixels are the
\* server's outside the damage, and a pixel only leaves the damage by being
\* delivered with its current value.
THEOREM UpdateImplementsDisplay == SeparateCopies => (Spec => ImplementsRemoteDisplay)
<1> SUFFICES ASSUME SeparateCopies PROVE Spec => ImplementsRemoteDisplay
  OBVIOUS
<1>1. Init => TypeInv /\ CoverInv
  BY InitTypeInv, InitCoverInv
<1>2. TypeInv /\ CoverInv /\ [Next]_vars => TypeInv' /\ CoverInv'
  BY NextTypeOK, NextSources, NextCoverInv DEF TypeInv
<1>3. Init => Display!Init
  BY DEF Init, Display!Init, Damaged, InFlight, Idle
<1>4. TypeInv /\ CoverInv /\ TypeInv' /\ [Next]_vars =>
        [Display!Change \/ Display!Deliver]_DisplayVars
  BY StepRefines
<1>5. TypeInv /\ CoverInv /\ TypeInv' /\ [Next]_vars =>
        [Display!Change \/ Display!Deliver]_<<frameBuffer, remoteFrameBuffer, Damaged>>
  BY <1>4 DEF DisplayVars
<1> QED
  BY <1>1, <1>2, <1>3, <1>5, PTL DEF Spec, ImplementsRemoteDisplay, Display!Spec
=============================================================================
