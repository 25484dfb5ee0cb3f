------------------------- MODULE FramebufferUpdate -------------------------
(***************************************************************************)
(* The update engine of libvncserver: how one client's copy of the         *)
(* framebuffer follows the server's.                                       *)
(*                                                                         *)
(* The application draws into screen->frameBuffer and reports what it did  *)
(* (rfbMarkRegionAsModified, rfbScheduleCopyRegion, rfbNewFramebuffer,     *)
(* rfbSetCursor); the client's messages (FramebufferUpdateRequest,         *)
(* SetEncodings) change the same bookkeeping; and the output side, the     *)
(* clientOutput thread or rfbUpdateClient called by rfbProcessEvents,      *)
(* turns the bookkeeping into FramebufferUpdate messages.                  *)
(*                                                                         *)
(* Nothing here is shared between two clients except frameBuffer, which no *)
(* client writes, so the module follows one client.  The connection is     *)
(* FIFO and lossless, so the client's framebuffer is modelled as the       *)
(* effect (remoteFrameBuffer) of all that has been written to its socket.  *)
(*                                                                         *)
(* Each critical section of cl->updateMutex is one action.  A client that  *)
(* lists no cursor pseudo-encoding has the cursor painted into the         *)
(* framebuffer around the send: that case is left to a module of its own,  *)
(* and the lists of encodings here all hold RichCursor.                    *)
(***************************************************************************)
EXTENDS Integers

CONSTANTS
    Width, Height,    \* screen->width, screen->height
    Colours,          \* what one pixel can hold
    DrawRegions,      \* regions the application paints and marks
    Copies,           \* copies it does: [rgn |-> destination, d |-> <<dx, dy>>]
    Frames,           \* framebuffers it switches to (same geometry)
    Requests,         \* rectangles the client asks for
    EncodingLists,    \* lists of (pseudo-)encodings it announces
    CursorRegion,     \* where the cursor last was, clipped to the screen
    BackgroundLoop,   \* screen->backgroundLoop: one thread per client and direction
    SliceHeight,      \* screen->progressiveSliceHeight
    LimitRects,       \* screen->maxRectsPerUpdate > 0
    MaxOps            \* bound: operations of the application, and SetEncodings
                      \* and non-incremental requests of the client

Pixels == (0 .. Width - 1) \X (0 .. Height - 1)

\* The pixel a copy by d takes its value from, and a region moved by d
\* (sraRgnOffset; what leaves the screen never matters, as every use
\* intersects the result with a region of the screen).
Minus(p, d) == <<p[1] - d[1], p[2] - d[2]>>
Offset(R, d) == {p \in Pixels : Minus(p, d) \in R}
Opposite(d) == <<-d[1], -d[2]>>
NoOffset == <<0, 0>>

\* Mutant of BBox: the last row, taken as exclusive.
MutantBBox(R) ==
    {p \in Pixels : /\ \E q \in R : q[1] <= p[1]
                    /\ \E q \in R : p[1] <= q[1]
                    /\ \E q \in R : q[2] <= p[2]
                    /\ \E q \in R : p[2] < q[2]}

\* sraRgnBBox
BBox(R) ==
    {p \in Pixels : /\ \E q \in R : q[1] <= p[1]
                    /\ \E q \in R : p[1] <= q[1]
                    /\ \E q \in R : q[2] <= p[2]
                    /\ \E q \in R : p[2] <= q[2]}

ASSUME GeometryAssumption ==
    /\ Width \in Nat \ {0} /\ Height \in Nat \ {0}
    /\ SliceHeight \in Nat /\ MaxOps \in Nat
    /\ BackgroundLoop \in BOOLEAN /\ LimitRects \in BOOLEAN

\* An application copies inside the framebuffer only.
ASSUME InputsAssumption ==
    /\ DrawRegions \subseteq SUBSET Pixels
    /\ Requests \subseteq SUBSET Pixels
    /\ CursorRegion \subseteq Pixels
    /\ Frames \subseteq [Pixels -> Colours]
    /\ \A c \in Copies : /\ c.d \in Int \X Int
                         /\ c.rgn \subseteq Pixels
                         /\ \A p \in c.rgn : Minus(p, c.d) \in Pixels

ASSUME EncodingsAssumption ==
    /\ EncodingLists # {}
    /\ \A E \in EncodingLists :
         /\ E \subseteq {"CopyRect", "RichCursor", "NewFBSize", "ExtDesktopSize"}
         /\ "RichCursor" \in E
-----------------------------------------------------------------------------
VARIABLES
    frameBuffer,        \* the server's pixels
    remoteFrameBuffer,  \* the client's, once it has read all that was written
    modifiedRegion, copyRegion, copyDelta, requestedRegion,
    encodings,          \* the list in force: the use... and enable... flags
    newFBSizePending, cursorWasChanged, progressiveSliceY,
    appOp,              \* what the application has drawn and not yet reported
    ops,
    \* the output side: where it is, and the locals of rfbSendFramebufferUpdate
    outPc, givenUpdateRegion, updateRegion, updateCopyRegion, updateDelta,
    sendCursorShape

screenVars == <<frameBuffer, appOp>>
damageVars == <<modifiedRegion, copyRegion, copyDelta>>
clientVars == <<requestedRegion, encodings>>
updateVars == <<givenUpdateRegion, updateRegion, updateCopyRegion, updateDelta,
                sendCursorShape>>
vars == <<screenVars, remoteFrameBuffer, damageVars, clientVars, newFBSizePending,
          cursorWasChanged, progressiveSliceY, ops, outPc, updateVars>>

Idle == [op |-> "idle", rgn |-> {}, d |-> NoOffset]

useCopyRect == "CopyRect" \in encodings
useExtDesktopSize == "ExtDesktopSize" \in encodings
useNewFBSize == "NewFBSize" \in encodings \/ useExtDesktopSize
enableCursorShapeUpdates == "RichCursor" \in encodings

\* Mutants of UpdatePending: one term each is forgotten.
MutantPendingNoModified ==
    \/ enableCursorShapeUpdates /\ cursorWasChanged
    \/ useNewFBSize /\ newFBSizePending
    \/ copyRegion # {}
MutantPendingNoCursor ==
    \/ useNewFBSize /\ newFBSizePending
    \/ copyRegion # {}
    \/ modifiedRegion # {}

\* FB_UPDATE_PENDING for a client that draws the cursor itself
UpdatePending ==
    \/ enableCursorShapeUpdates /\ cursorWasChanged
    \/ useNewFBSize /\ newFBSizePending
    \/ copyRegion # {}
    \/ modifiedRegion # {}

\* Without the background loop one thread runs everything: the application
\* and the client's messages never run while an update is being sent, and the
\* library never runs inside an application's operation.
AppMayRun == BackgroundLoop \/ outPc \in {"check", "defer"}
LibraryMayRun == BackgroundLoop \/ appOp = Idle
InputMayRun == AppMayRun /\ LibraryMayRun

\* TSIGNAL(cl->updateCond): a clientOutput asleep in WAIT looks again
Signal == outPc' = IF outPc = "sleep" THEN "check" ELSE outPc

\* State after the connection is set up and the client's first SetEncodings.
Init ==
    /\ frameBuffer \in [Pixels -> Colours]
    /\ remoteFrameBuffer \in [Pixels -> Colours]
    /\ modifiedRegion = Pixels
    /\ copyRegion = {} /\ copyDelta = NoOffset
    /\ requestedRegion = {}
    /\ encodings \in EncodingLists
    /\ newFBSizePending = FALSE
    /\ cursorWasChanged = TRUE
    /\ progressiveSliceY = 0
    /\ appOp = Idle /\ ops = 0
    /\ outPc = "check"
    /\ givenUpdateRegion = {} /\ updateRegion = {} /\ updateCopyRegion = {}
    /\ updateDelta = NoOffset /\ sendCursorShape = FALSE
-----------------------------------------------------------------------------
(***************************************************************************)
(* The application.  Every operation is in two steps, the pixels and the   *)
(* report: with the background loop the library runs in between.           *)
(***************************************************************************)
StartOp(op) ==
    /\ AppMayRun /\ appOp = Idle
    /\ ops < MaxOps /\ ops' = ops + 1
    /\ appOp' = op
    /\ UNCHANGED <<remoteFrameBuffer, damageVars, clientVars, newFBSizePending,
                   cursorWasChanged, progressiveSliceY, outPc, updateVars>>

Draw ==
    \E R \in DrawRegions, c \in Colours :
        /\ StartOp([op |-> "draw", rgn |-> R, d |-> NoOffset])
        /\ frameBuffer' = [p \in Pixels |-> IF p \in R THEN c ELSE frameBuffer[p]]

\* The pixel copy of rfbDoCopyRect, or the application's own before
\* rfbScheduleCopyRect: all of the destination gets the old source.
CopyPixels ==
    \E c \in Copies :
        /\ StartOp([op |-> "copy", rgn |-> c.rgn, d |-> c.d])
        /\ frameBuffer' = [p \in Pixels |-> IF p \in c.rgn
                                             THEN frameBuffer[Minus(p, c.d)]
                                             ELSE frameBuffer[p]]

\* rfbNewFramebuffer up to its loop: another buffer of the same geometry
SwitchFramebuffer ==
    \E f \in Frames :
        /\ StartOp([op |-> "newfb", rgn |-> Pixels, d |-> NoOffset])
        /\ frameBuffer' = f

\* Mutant of EndOp: no TSIGNAL.
MutantEndOp(op) ==
    /\ appOp.op = op
    /\ appOp' = Idle
    /\ UNCHANGED <<frameBuffer, remoteFrameBuffer, clientVars, cursorWasChanged,
                   progressiveSliceY, ops, updateVars, outPc>>

EndOp(op) ==
    /\ appOp.op = op
    /\ appOp' = Idle
    /\ Signal
    /\ UNCHANGED <<frameBuffer, remoteFrameBuffer, clientVars, cursorWasChanged,
                   progressiveSliceY, ops, updateVars>>

MarkRegionAsModified ==
    /\ EndOp("draw")
    /\ modifiedRegion' = modifiedRegion \cup appOp.rgn
    /\ UNCHANGED <<copyRegion, copyDelta, newFBSizePending>>

\* Mutant of SupersededCopy: a pending copy is simply replaced.
MutantSupersededCopy(R, d) == {}

\* What a new copy of R by d adds to the modified region: a pending copy by
\* another offset becomes modified; of one by the same offset, the part that
\* is a source of the new copy does; and then whatever is copied from a
\* modified pixel.
SupersededCopy(R, d) ==
    IF copyDelta # d THEN copyRegion ELSE Offset(R, Opposite(d)) \cap copyRegion
MergedCopy(R, d) == R \cup (IF copyDelta # d THEN {} ELSE copyRegion)

\* Mutant of ScheduleCopyRegion: what is copied from a modified pixel is not
\* marked.
MutantScheduleCopyRegion ==
    LET R == appOp.rgn
        d == appOp.d
    IN  /\ EndOp("copy")
        /\ UNCHANGED newFBSizePending
        /\ IF useCopyRect
           THEN /\ copyRegion' = MergedCopy(R, d)
                /\ copyDelta' = d
                /\ modifiedRegion' = modifiedRegion \cup SupersededCopy(R, d)
           ELSE /\ modifiedRegion' = modifiedRegion \cup R
                /\ UNCHANGED <<copyRegion, copyDelta>>

ScheduleCopyRegion ==
    LET R == appOp.rgn
        d == appOp.d
        C == MergedCopy(R, d)
        M == modifiedRegion \cup SupersededCopy(R, d)
    IN  /\ EndOp("copy")
        /\ UNCHANGED newFBSizePending
        /\ IF useCopyRect
           THEN /\ copyRegion' = C
                /\ copyDelta' = d
                /\ modifiedRegion' = M \cup (Offset(M, d) \cap C)
           ELSE /\ modifiedRegion' = modifiedRegion \cup R
                /\ UNCHANGED <<copyRegion, copyDelta>>

NewFramebuffer ==
    /\ EndOp("newfb")
    /\ modifiedRegion' = Pixels
    /\ copyRegion' = {}
    /\ copyDelta' = NoOffset
    /\ newFBSizePending' = (newFBSizePending \/ useNewFBSize)

\* No TSIGNAL here.
SetCursor ==
    /\ AppMayRun /\ appOp = Idle
    /\ ops < MaxOps /\ ops' = ops + 1
    /\ cursorWasChanged' = TRUE
    /\ UNCHANGED <<screenVars, remoteFrameBuffer, damageVars, clientVars,
                   newFBSizePending, progressiveSliceY, outPc, updateVars>>

App == Draw \/ MarkRegionAsModified \/ CopyPixels \/ ScheduleCopyRegion
         \/ SwitchFramebuffer \/ NewFramebuffer \/ SetCursor
-----------------------------------------------------------------------------
(***************************************************************************)
(* The client's messages (rfbProcessClientNormalMessage).                  *)
(***************************************************************************)
RequestIncremental ==
    \E T \in Requests :
        /\ InputMayRun
        /\ requestedRegion' = requestedRegion \cup T
        /\ Signal
        /\ UNCHANGED <<screenVars, remoteFrameBuffer, damageVars, encodings, ops,
                       newFBSizePending, cursorWasChanged, progressiveSliceY,
                       updateVars>>

RequestFull ==
    \E T \in Requests :
        /\ InputMayRun
        /\ ops < MaxOps /\ ops' = ops + 1
        /\ requestedRegion' = requestedRegion \cup T
        /\ modifiedRegion' = modifiedRegion \cup T
        /\ copyRegion' = copyRegion \ T
        /\ newFBSizePending' = (newFBSizePending \/ useExtDesktopSize)
        /\ Signal
        /\ UNCHANGED <<screenVars, remoteFrameBuffer, copyDelta, encodings,
                       cursorWasChanged, progressiveSliceY, updateVars>>

\* Every flag is reset, then set again from the list; finding RichCursor there
\* marks the region of the painted cursor, without TSIGNAL.
SetEncodings ==
    \E E \in EncodingLists :
        /\ InputMayRun
        /\ ops < MaxOps /\ ops' = ops + 1
        /\ encodings' = E
        /\ cursorWasChanged' = TRUE
        /\ modifiedRegion' = modifiedRegion \cup CursorRegion
        /\ UNCHANGED <<screenVars, remoteFrameBuffer, copyRegion, copyDelta,
                       requestedRegion, newFBSizePending, progressiveSliceY, outPc,
                       updateVars>>

Input == RequestIncremental \/ RequestFull \/ SetEncodings
-----------------------------------------------------------------------------
(***************************************************************************)
(* Deciding to send: the loop of clientOutput, or rfbUpdateClient.         *)
(***************************************************************************)
OutputStep == UNCHANGED <<screenVars, clientVars, ops>>

\* There is something to send: let more changes come along for a while.
StartDeferring ==
    /\ LibraryMayRun /\ outPc = "check"
    /\ requestedRegion # {} /\ UpdatePending
    /\ outPc' = "defer"
    /\ OutputStep
    /\ UNCHANGED <<remoteFrameBuffer, damageVars, newFBSizePending, cursorWasChanged,
                   progressiveSliceY, updateVars>>

\* clientOutput has nothing to send and waits on updateCond.
WaitForUpdate ==
    /\ BackgroundLoop /\ outPc = "check"
    /\ requestedRegion = {} \/ ~UpdatePending
    /\ outPc' = "sleep"
    /\ OutputStep
    /\ UNCHANGED <<remoteFrameBuffer, damageVars, newFBSizePending, cursorWasChanged,
                   progressiveSliceY, updateVars>>

\* clientOutput takes a snapshot of modifiedRegion under updateMutex;
\* rfbUpdateClient passes the region itself, after testing again.
TakeModifiedRegion ==
    /\ LibraryMayRun /\ outPc = "defer"
    /\ BackgroundLoop \/ (requestedRegion # {} /\ UpdatePending)
    /\ givenUpdateRegion' = modifiedRegion
    /\ outPc' = "send"
    /\ OutputStep
    /\ UNCHANGED <<remoteFrameBuffer, damageVars, newFBSizePending, cursorWasChanged,
                   progressiveSliceY, updateRegion, updateCopyRegion, updateDelta,
                   sendCursorShape>>

(***************************************************************************)
(* rfbSendFramebufferUpdate.                                               *)
(***************************************************************************)
\* A size marker is sent alone, and leaves the request standing.
SendNewFBSize ==
    /\ outPc = "send"
    /\ useNewFBSize /\ newFBSizePending
    /\ newFBSizePending' = FALSE
    /\ outPc' = "check"
    /\ OutputStep
    /\ UNCHANGED <<remoteFrameBuffer, damageVars, cursorWasChanged,
                   progressiveSliceY, updateVars>>

ReadFlags ==
    /\ outPc = "send"
    /\ ~(useNewFBSize /\ newFBSizePending)
    /\ sendCursorShape' = (enableCursorShapeUpdates /\ cursorWasChanged)
    /\ outPc' = "prepare"
    /\ OutputStep
    /\ UNCHANGED <<remoteFrameBuffer, damageVars, newFBSizePending, cursorWasChanged,
                   progressiveSliceY, givenUpdateRegion, updateRegion,
                   updateCopyRegion, updateDelta>>

\* Progressive updates send a slice of the modified region at a time: the row
\* the slice starts at, the slice, and the row the next one starts at.
IsSliceStart(y, R) ==
    IF \/ R = {}
       \/ (\E p \in R : p[2] <= progressiveSliceY) /\ (\E p \in R : progressiveSliceY <= p[2])
    THEN y = progressiveSliceY
    ELSE (\E p \in R : p[2] = y) /\ (\A p \in R : y <= p[2])
Slice(R, y) ==
    IF SliceHeight = 0 THEN R ELSE {p \in R : y <= p[2] /\ p[2] < y + SliceHeight}
\* Mutant of NextSliceY: off by one at the bottom of the screen.
MutantNextSliceY(y) ==
    IF SliceHeight = 0 THEN progressiveSliceY
    ELSE IF y + SliceHeight > Height THEN 0 ELSE y + SliceHeight
NextSliceY(y) ==
    IF SliceHeight = 0 THEN progressiveSliceY
    ELSE IF y + SliceHeight >= Height THEN 0 ELSE y + SliceHeight

\* The copies still worth sending, and everything this update could carry.
LiveCopy == copyRegion \ modifiedRegion
Candidates(y) == (Slice(givenUpdateRegion, y) \cup LiveCopy) \cap requestedRegion

NothingToSend ==
    \E y \in 0 .. Height - 1 :
        /\ outPc = "prepare"
        /\ IsSliceStart(y, givenUpdateRegion)
        /\ Candidates(y) = {} /\ ~sendCursorShape
        /\ progressiveSliceY' = NextSliceY(y)
        /\ copyRegion' = LiveCopy
        /\ outPc' = "check"
        /\ OutputStep
        /\ UNCHANGED <<remoteFrameBuffer, modifiedRegion, copyDelta, newFBSizePending,
                       cursorWasChanged, updateVars>>

\* A copy is sent as one only where the client asked for its source too.
CopyToSend == LiveCopy \cap requestedRegion \cap Offset(requestedRegion, copyDelta)

\* Too many rectangles are replaced by their bounding box.
RegionsToSend(U) == IF LimitRects THEN {U, BBox(U)} ELSE {U}

\* Mutants of PrepareUpdate: the copies that are not sent now are forgotten,
\* or all that is modified is taken as sent.
MutantPrepare(y, rest) ==
    LET U == Candidates(y) \ CopyToSend IN
    /\ outPc = "prepare"
    /\ IsSliceStart(y, givenUpdateRegion)
    /\ Candidates(y) # {} \/ sendCursorShape
    /\ progressiveSliceY' = NextSliceY(y)
    /\ updateCopyRegion' = CopyToSend
    /\ updateDelta' = copyDelta
    /\ updateRegion' \in RegionsToSend(U)
    /\ modifiedRegion' = rest \ (U \cup CopyToSend)
    /\ requestedRegion' = {}
    /\ copyRegion' = {}
    /\ copyDelta' = NoOffset
    /\ outPc' = "copies"
    /\ UNCHANGED <<screenVars, encodings, ops, remoteFrameBuffer, newFBSizePending,
                   cursorWasChanged, givenUpdateRegion, sendCursorShape>>
MutantPrepareForgetsCopies == \E y \in 0 .. Height - 1 : MutantPrepare(y, modifiedRegion)
MutantPrepareEmptiesModified == \E y \in 0 .. Height - 1 : MutantPrepare(y, {})

PrepareUpdate ==
    \E y \in 0 .. Height - 1 :
        LET U == Candidates(y) \ CopyToSend IN
        /\ outPc = "prepare"
        /\ IsSliceStart(y, givenUpdateRegion)
        /\ Candidates(y) # {} \/ sendCursorShape
        /\ progressiveSliceY' = NextSliceY(y)
        /\ updateCopyRegion' = CopyToSend
        /\ updateDelta' = copyDelta
        /\ updateRegion' \in RegionsToSend(U)
        /\ modifiedRegion' = (modifiedRegion \cup LiveCopy) \ (U \cup CopyToSend)
        /\ requestedRegion' = {}
        /\ copyRegion' = {}
        /\ copyDelta' = NoOffset
        /\ outPc' = "copies"
        /\ UNCHANGED <<screenVars, encodings, ops, remoteFrameBuffer, newFBSizePending,
                       cursorWasChanged, givenUpdateRegion, sendCursorShape>>

\* The cursor shape and the CopyRect rectangles, which hold no pixels of ours.
SendCopyRegion ==
    /\ outPc = "copies"
    /\ cursorWasChanged' = (cursorWasChanged /\ ~sendCursorShape)
    /\ remoteFrameBuffer' =
         [p \in Pixels |-> IF p \in updateCopyRegion
                           THEN remoteFrameBuffer[Minus(p, updateDelta)]
                           ELSE remoteFrameBuffer[p]]
    /\ updateCopyRegion' = {}
    /\ outPc' = "pixels"
    /\ OutputStep
    /\ UNCHANGED <<damageVars, newFBSizePending, progressiveSliceY, givenUpdateRegion,
                   updateRegion, updateDelta, sendCursorShape>>

\* An encoder reads the pixels of its rectangle one after another from
\* frameBuffer, in an order of its own and under no lock.
SendPixel ==
    \E p \in updateRegion :
        /\ outPc = "pixels"
        /\ remoteFrameBuffer' = [remoteFrameBuffer EXCEPT ![p] = frameBuffer[p]]
        /\ updateRegion' = updateRegion \ {p}
        /\ OutputStep
        /\ UNCHANGED <<damageVars, newFBSizePending, cursorWasChanged, outPc,
                       progressiveSliceY, givenUpdateRegion, updateCopyRegion,
                       updateDelta, sendCursorShape>>

\* Mutant of FinishUpdate: what was sent is removed from the modified region
\* after the send, not before.
MutantFinishUpdate ==
    /\ outPc = "pixels" /\ updateRegion = {}
    /\ outPc' = "check"
    /\ modifiedRegion' = modifiedRegion \ givenUpdateRegion
    /\ OutputStep
    /\ UNCHANGED <<remoteFrameBuffer, copyRegion, copyDelta, newFBSizePending,
                   cursorWasChanged, progressiveSliceY, updateVars>>

FinishUpdate ==
    /\ outPc = "pixels" /\ updateRegion = {}
    /\ outPc' = "check"
    /\ OutputStep
    /\ UNCHANGED <<remoteFrameBuffer, damageVars, newFBSizePending, cursorWasChanged,
                   progressiveSliceY, updateVars>>

Output == StartDeferring \/ WaitForUpdate \/ TakeModifiedRegion \/ SendNewFBSize
            \/ ReadFlags \/ NothingToSend \/ PrepareUpdate \/ SendCopyRegion
            \/ SendPixel \/ FinishUpdate

Next == App \/ Input \/ Output

Spec == Init /\ [][Next]_vars

\* The threads keep running, an application reports what it drew, and a viewer
\* that has got an update asks for the whole screen again, whatever else it asks
\* for (SendIncrementalFramebufferUpdateRequest at the end of an update).  That
\* request is seen however busy the output is: rfbProcessEvents reads the
\* client's messages before every update, and clientInput has its own thread.
Refresh == requestedRegion # Pixels /\ requestedRegion' = Pixels /\ RequestIncremental
ReportOp == MarkRegionAsModified \/ ScheduleCopyRegion \/ NewFramebuffer
FairSpec == Spec /\ WF_vars(Output) /\ WF_vars(ReportOp) /\ SF_vars(Refresh)
-----------------------------------------------------------------------------
TypeOK ==
    /\ frameBuffer \in [Pixels -> Colours]
    /\ remoteFrameBuffer \in [Pixels -> Colours]
    /\ modifiedRegion \subseteq Pixels
    /\ copyRegion \subseteq Pixels /\ copyDelta \in Int \X Int
    /\ requestedRegion \subseteq Pixels
    /\ encodings \in EncodingLists
    /\ newFBSizePending \in BOOLEAN /\ cursorWasChanged \in BOOLEAN
    /\ progressiveSliceY \in 0 .. Height - 1
    /\ appOp \in [op : {"idle", "draw", "copy", "newfb"}, rgn : SUBSET Pixels,
                  d : Int \X Int]
    /\ ops \in 0 .. MaxOps
    /\ outPc \in {"check", "sleep", "defer", "send", "prepare", "copies", "pixels"}
    /\ givenUpdateRegion \subseteq Pixels
    /\ updateRegion \subseteq Pixels
    /\ updateCopyRegion \subseteq Pixels /\ updateDelta \in Int \X Int
    /\ sendCursorShape \in BOOLEAN

\* The claim of rfb.h on copyRegion and modifiedRegion: between two updates
\* and two operations of the application, they are the update needed to get
\* the client's framebuffer to the current state of ours.
Represents ==
    appOp = Idle /\ outPc \notin {"copies", "pixels"} =>
        \A p \in Pixels \ modifiedRegion :
            frameBuffer[p] = IF p \in copyRegion
                             THEN remoteFrameBuffer[Minus(p, copyDelta)]
                             ELSE remoteFrameBuffer[p]

(***************************************************************************)
(* Why Represents holds: the same claim with an update half sent and an    *)
(* operation half reported, and what it rests on.                          *)
(***************************************************************************)
\* The rest of the update, and then the bookkeeping, bring the client up to
\* date with all that has been reported.
InFlight == updateRegion \cup appOp.rgn
Covered ==
    \A p \in Pixels \ (modifiedRegion \cup InFlight) :
        frameBuffer[p] = IF p \in copyRegion
                         THEN remoteFrameBuffer[Minus(p, copyDelta)]
                         ELSE IF p \in updateCopyRegion
                         THEN remoteFrameBuffer[Minus(p, updateDelta)]
                         ELSE remoteFrameBuffer[p]

\* A copy done but not reported yet got its pixels from where the client's
\* framebuffer has them, unless the source was itself damaged.
UnreportedCopy ==
    ~BackgroundLoop /\ appOp.op = "copy" =>
        \A p \in appOp.rgn :
            Minus(p, appOp.d) \notin modifiedRegion \cup copyRegion =>
                frameBuffer[p] = remoteFrameBuffer[Minus(p, appOp.d)]

\* No copy is pending while an update is in flight: what the update has still
\* to send could change the source of the copy under it.
NoCopyBehindUpdate ==
    copyRegion # {} => updateRegion = {} /\ updateCopyRegion = {} /\ ~BackgroundLoop

CopySourcesOnScreen ==
    /\ \A p \in copyRegion : Minus(p, copyDelta) \in Pixels
    /\ \A p \in updateCopyRegion : Minus(p, updateDelta) \in Pixels

Phases ==
    /\ outPc \notin {"copies", "pixels"} => updateRegion = {}
    /\ outPc # "copies" => updateCopyRegion = {}
    /\ BackgroundLoop \/ appOp = Idle \/ outPc \in {"check", "defer"}

Operations ==
    /\ appOp.op = "idle" => appOp = Idle
    /\ appOp.op = "newfb" => appOp.rgn = Pixels
    /\ appOp.op = "copy" => \E c \in Copies : appOp.rgn = c.rgn /\ appOp.d = c.d

IInv == Covered /\ UnreportedCopy /\ NoCopyBehindUpdate /\ CopySourcesOnScreen
          /\ Phases /\ Operations

\* A viewer that keeps asking ends up with the server's pixels, once the
\* application and the client have done the last of their MaxOps operations.
Converges == <>[](remoteFrameBuffer = frameBuffer)

\* "cursor shape update should be sent" (rfb.h on cursorWasChanged) is answered.
CursorShapeSent == cursorWasChanged ~> ~cursorWasChanged

\* What a viewer may rely on, whatever the bookkeeping: RemoteDisplay.
Damaged == modifiedRegion \cup copyRegion \cup updateCopyRegion \cup InFlight
Display == INSTANCE RemoteDisplay WITH
    server <- frameBuffer, client <- remoteFrameBuffer, damaged <- Damaged
ImplementsRemoteDisplay == Display!Spec
=============================================================================
