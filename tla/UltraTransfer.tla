---------------------------- MODULE UltraTransfer ----------------------------
(***************************************************************************)
(* UltraVNC's file transfer in rfbserver.c: a client has one transfer,     *)
(* cl->fileTransfer, that rfbProcessFileTransfer begins and ends and       *)
(* rfbSendFileTransferChunk, called by the loop that serves the client     *)
(* when the socket takes data, moves along.  Messages take their time in   *)
(* both directions, so that either side goes on with a transfer that the   *)
(* other one has ended.                                                    *)
(*                                                                         *)
(* The viewer is external: it has one transfer at a time and passes over   *)
(* a message that its transfer does not call for.                          *)
(***************************************************************************)
EXTENDS Integers, Sequences, SequencesExt

CONSTANTS
    SharedFiles,    \* the files of the server's host
    Blocks,         \* the blocks of each: what one read or packet takes
    OfferBlocks,    \* the blocks of the file that the viewer uploads
    MaxTransfers,   \* bound: transfers that the viewer begins
    Closed          \* no descriptor: -1

ASSUME UltraAssumption ==
    /\ \A f \in SharedFiles : Blocks[f] \in Nat
    /\ OfferBlocks \in Nat /\ MaxTransfers \in Nat
    /\ Closed \notin SharedFiles \cup {"upload"} /\ "upload" \notin SharedFiles

VARIABLES
    connected,
    permitted,      \* getFileTransferPermission and permitFileTransfer
    fileTransfer,   \* cl->fileTransfer, and where its descriptor stands
    writing,        \* what rfbProcessFileTransfer has to send yet
    toServer, toViewer,     \* the messages in flight
    viewer,         \* the viewer's transfer
    overwritten,    \* a descriptor was forgotten while it was open
    transfers       \* transfers begun

ultraVars == <<connected, permitted, fileTransfer, writing, toServer, toViewer, viewer,
               overwritten, transfers>>

NoTransfer == [fd |-> Closed, pos |-> 0, sending |-> FALSE, receiving |-> FALSE]

UltraInit ==
    /\ connected = TRUE
    /\ permitted \in BOOLEAN
    /\ fileTransfer = NoTransfer
    /\ writing = <<>>
    /\ toServer = <<>> /\ toViewer = <<>>
    /\ viewer \in [step : {"idle"}, file : SharedFiles, got : {<<>>}, sent : {0}, result : {"idle"}]
    /\ overwritten = FALSE
    /\ transfers = 0

Msg(type, arg) == [type |-> type, arg |-> arg]

(*------------------------------ The server --------------------------------*)

(* rfbSendFileTransferMessage: a write that fails closes the client.       *)
Reply(msgs) ==
    \/ toViewer' = toViewer \o msgs /\ UNCHANGED connected
    \/ connected' = FALSE /\ UNCHANGED toViewer

Quiet == UNCHANGED <<connected, toViewer>>

(* open() for a new transfer, over whatever the last one left.             *)
Open(fd) ==
    /\ fileTransfer' = IF fd = Closed THEN [fileTransfer EXCEPT !.fd = Closed]
                       ELSE [NoTransfer EXCEPT !.fd = fd, !.receiving = (fd = "upload")]
    /\ overwritten' = (overwritten \/ fileTransfer.fd # Closed)

(* rfbFileTransferRequest: the header of the file, or its size as -1 when  *)
(* it cannot be opened; sizeHtmp follows in a write of its own.            *)
OnRequest(file) ==
    \/ /\ Open(file)
       /\ Reply(<<Msg("FileHeader", "ok")>>)
       /\ writing' = <<Msg("sizeHtmp", "ok")>>
    \/ /\ Open(Closed)
       /\ Reply(<<Msg("FileHeader", "error")>>)
       /\ UNCHANGED writing

(* The end of a transfer: at the file's end, on an error, by the viewer.   *)
CloseFile == fileTransfer' = NoTransfer

\* Mutant of SendChunk: a last block that is shorter than the buffer is taken for the end.
MutantSendChunk(ft) ==
    \/ /\ ft.pos + 1 < Blocks[ft.fd]
       /\ fileTransfer' = [ft EXCEPT !.pos = @ + 1]
       /\ Reply(<<Msg("FilePacket", <<ft.fd, ft.pos + 1>>)>>)
    \/ ft.pos + 1 >= Blocks[ft.fd] /\ CloseFile /\ Reply(<<Msg("EndOfFile", "ok")>>)
    \/ CloseFile /\ Reply(<<Msg("AbortFileTransfer", "ok")>>)

(* rfbSendFileTransferChunk, when the socket takes data.                   *)
SendChunk(ft) ==
    \/ /\ ft.pos < Blocks[ft.fd]
       /\ fileTransfer' = [ft EXCEPT !.pos = @ + 1]
       /\ Reply(<<Msg("FilePacket", <<ft.fd, ft.pos + 1>>)>>)
    \/ ft.pos = Blocks[ft.fd] /\ CloseFile /\ Reply(<<Msg("EndOfFile", "ok")>>)
    \/ CloseFile /\ Reply(<<Msg("AbortFileTransfer", "ok")>>)

(* rfbFileHeader: the viewer is ready, and the transfer starts, or it is   *)
(* not.                                                                    *)
OnFileHeader(arg) ==
    LET ready == [fileTransfer EXCEPT !.sending = TRUE] IN
    /\ IF arg = "error" THEN fileTransfer' = [fileTransfer EXCEPT !.fd = Closed] /\ Quiet
       ELSE \/ ready.fd # Closed /\ SendChunk(ready)
            \/ fileTransfer' = ready /\ Quiet
    /\ UNCHANGED <<writing, overwritten>>

(* rfbFileTransferOffer: the file is created or truncated.                 *)
OnOffer ==
    \/ /\ Open("upload")
       /\ Reply(<<Msg("FileAcceptHeader", "ok")>>)
       /\ UNCHANGED writing
    \/ /\ Open(Closed)
       /\ Reply(<<Msg("FileAcceptHeader", "error")>>)
       /\ UNCHANGED writing

(* rfbFilePacket: an error closes the file, and the viewer is not told; a  *)
(* write that stores less than it was given is not noticed.                *)
OnFilePacket ==
    /\ UNCHANGED fileTransfer \/ (fileTransfer.fd # Closed /\ CloseFile)
    /\ Quiet
    /\ UNCHANGED <<writing, overwritten>>

OnEndOfFile == CloseFile /\ Quiet /\ UNCHANGED <<writing, overwritten>>

\* Mutant of OnAbort: only an upload is ended.
MutantOnAbort(arg) ==
    /\ IF fileTransfer.fd # Closed
       THEN fileTransfer' = (IF fileTransfer.receiving THEN NoTransfer
                             ELSE [fileTransfer EXCEPT !.sending = FALSE]) /\ Quiet
       ELSE /\ Reply(<<IF arg = "ok" THEN Msg("AbortFileTransfer", "error")
                       ELSE Msg("FileTransferAccess", "ok")>>)
            /\ UNCHANGED fileTransfer
    /\ UNCHANGED <<writing, overwritten>>

(* rfbAbortFileTransfer: with no file open it asks for the permission.     *)
OnAbort(arg) ==
    /\ IF fileTransfer.fd # Closed THEN CloseFile /\ Quiet
       ELSE /\ Reply(<<IF arg = "ok" THEN Msg("AbortFileTransfer", "error")
                       ELSE Msg("FileTransferAccess", "ok")>>)
            /\ UNCHANGED fileTransfer
    /\ UNCHANGED <<writing, overwritten>>

(* rfbProcessFileTransfer.  A client that has no permission is closed.     *)
Receive ==
    /\ connected /\ toServer # <<>> /\ writing = <<>>
    /\ toServer' = Tail(toServer)
    /\ LET msg == Head(toServer) IN
         IF ~permitted
         THEN connected' = FALSE
              /\ UNCHANGED <<fileTransfer, writing, toViewer, overwritten>>
         ELSE \/ msg.type = "FileTransferRequest" /\ OnRequest(msg.arg)
              \/ msg.type = "FileHeader" /\ OnFileHeader(msg.arg)
              \/ msg.type = "FileTransferOffer" /\ OnOffer
              \/ msg.type = "FilePacket" /\ OnFilePacket
              \/ msg.type = "EndOfFile" /\ OnEndOfFile
              \/ msg.type = "AbortFileTransfer" /\ OnAbort(msg.arg)
    /\ UNCHANGED <<permitted, viewer, transfers>>

(* The loop that serves the client has found that its socket takes data.   *)
Chunk ==
    /\ connected /\ permitted /\ writing = <<>>
    /\ fileTransfer.fd # Closed /\ fileTransfer.sending
    /\ SendChunk(fileTransfer)
    /\ UNCHANGED <<permitted, writing, toServer, viewer, overwritten, transfers>>

(* The second write of a header: sendMutex has been free in between.       *)
WriteRest ==
    /\ connected /\ writing # <<>>
    /\ Reply(writing)
    /\ writing' = <<>>
    /\ UNCHANGED <<permitted, fileTransfer, toServer, viewer, overwritten, transfers>>

(* A framebuffer update, which a thread of its own (clientOutput) sends at *)
(* any time.  One at a time is enough to come between two writes.          *)
Update ==
    /\ connected
    /\ Msg("Update", "ok") \notin ToSet(toViewer)
    /\ Reply(<<Msg("Update", "ok")>>)
    /\ UNCHANGED <<permitted, fileTransfer, writing, toServer, viewer, overwritten, transfers>>

(* The application changes its mind, or the connection breaks.             *)
Permit ==
    /\ permitted' = ~permitted
    /\ UNCHANGED <<connected, fileTransfer, writing, toServer, toViewer, viewer,
                   overwritten, transfers>>

Disconnect ==
    /\ connected /\ connected' = FALSE
    /\ UNCHANGED <<permitted, fileTransfer, writing, toServer, toViewer, viewer,
                   overwritten, transfers>>

Server == Receive \/ Chunk \/ WriteRest \/ Update \/ Permit \/ Disconnect

(*------------------------------ The viewer --------------------------------*)

ServerUnchanged ==
    UNCHANGED <<connected, permitted, fileTransfer, writing, overwritten>>

Say(type, arg) == toServer' = Append(toServer, Msg(type, arg))

BeginTransfer ==
    /\ connected /\ viewer.step = "idle" /\ transfers < MaxTransfers
    /\ transfers' = transfers + 1
    /\ UNCHANGED toViewer /\ ServerUnchanged

Download(file) ==
    /\ BeginTransfer
    /\ viewer' = [step |-> "header", file |-> file, got |-> <<>>, sent |-> 0, result |-> "copying"]
    /\ Say("FileTransferRequest", file)

Offer ==
    /\ BeginTransfer
    /\ viewer' = [viewer EXCEPT !.step = "accept", !.sent = 0]
    /\ Say("FileTransferOffer", "upload")

AskPermission == BeginTransfer /\ Say("AbortFileTransfer", "ask") /\ UNCHANGED viewer

UploadBlock ==
    /\ viewer.step = "uploading"
    /\ IF viewer.sent < OfferBlocks
       THEN /\ viewer' = [viewer EXCEPT !.sent = @ + 1]
            /\ Say("FilePacket", viewer.sent + 1)
       ELSE /\ viewer' = [viewer EXCEPT !.step = "idle"]
            /\ Say("EndOfFile", "ok")
    /\ UNCHANGED <<toViewer, transfers>> /\ ServerUnchanged

(* The user gives up.                                                      *)
Abort ==
    /\ viewer.step \in {"receiving", "uploading"}
    /\ viewer' = [viewer EXCEPT !.step = "idle",
                                !.result = IF viewer.step = "receiving" THEN "failed" ELSE @]
    /\ Say("AbortFileTransfer", "ok")
    /\ UNCHANGED <<toViewer, transfers>> /\ ServerUnchanged

Expected(msg) ==
    \/ msg.type = "FileHeader" /\ viewer.step = "header"
    \/ msg.type \in {"FilePacket", "EndOfFile", "AbortFileTransfer"} /\ viewer.step = "receiving"
    \/ msg.type = "FileAcceptHeader" /\ viewer.step = "accept"

OnMessage(msg) ==
    \/ /\ msg.type = "FileHeader" /\ msg.arg = "ok"
       /\ Say("FileHeader", "ok") /\ viewer' = [viewer EXCEPT !.step = "receiving"]
    \/ /\ msg.type = "FileHeader"                  \* or it cannot write the file
       /\ IF msg.arg = "ok" THEN Say("FileHeader", "error") ELSE UNCHANGED toServer
       /\ viewer' = [viewer EXCEPT !.step = "idle", !.result = "failed"]
    \/ /\ msg.type = "FilePacket"
       /\ viewer' = [viewer EXCEPT !.got = Append(@, msg.arg)] /\ UNCHANGED toServer
    \/ /\ msg.type \in {"EndOfFile", "AbortFileTransfer"}
       /\ viewer' = [viewer EXCEPT !.step = "idle", !.result =
                        IF msg.type = "EndOfFile" THEN "complete" ELSE "failed"]
       /\ UNCHANGED toServer
    \/ /\ msg.type = "FileAcceptHeader"
       /\ viewer' = [viewer EXCEPT !.step = IF msg.arg = "ok" THEN "uploading" ELSE "idle"]
       /\ UNCHANGED toServer

ViewerReceive ==
    /\ toViewer # <<>>
    /\ toViewer' = Tail(toViewer)
    /\ IF Expected(Head(toViewer)) THEN OnMessage(Head(toViewer))
       ELSE UNCHANGED <<viewer, toServer>>
    /\ UNCHANGED transfers /\ ServerUnchanged

Viewer ==
    \/ \E file \in SharedFiles : Download(file)
    \/ Offer \/ AskPermission \/ UploadBlock \/ Abort \/ ViewerReceive

UltraNext == Server \/ Viewer

UltraSpec == UltraInit /\ [][UltraNext]_ultraVars

-------------------------------------------------------------------------------

(* The ranges of the state; only a download's descriptor is read from, and *)
(* only an upload's is written to.                                         *)
UltraTypeOK ==
    /\ connected \in BOOLEAN /\ permitted \in BOOLEAN /\ overwritten \in BOOLEAN
    /\ fileTransfer.fd \in SharedFiles \cup {"upload", Closed}
    /\ fileTransfer.fd = "upload" => fileTransfer.receiving /\ ~fileTransfer.sending
    /\ fileTransfer.fd \in SharedFiles => fileTransfer.pos \in 0 .. Blocks[fileTransfer.fd]
    /\ viewer.file \in SharedFiles /\ viewer.sent \in 0 .. OfferBlocks
    /\ transfers \in 0 .. MaxTransfers

(* A transfer never opens its file over the descriptor of the last one:    *)
(* however the ends of transfers, the viewer's aborts and the messages in  *)
(* flight cross, rfbProcessFileTransfer has closed that one before.        *)
DescriptorKept == ~overwritten

(* The two writes of a header that rfbFileTransferRequest is answered with *)
(* come one after the other.  They need not when clientOutput sends        *)
(* updates: MCFileTransfer_header.cfg.                                     *)
HeaderWhole ==
    \A i \in 1 .. Len(toViewer) - 1 :
        toViewer[i] = Msg("FileHeader", "ok") => toViewer[i + 1].type = "sizeHtmp"

Copy == INSTANCE FileCopy WITH Files <- SharedFiles, Size <- Blocks,
                               file <- viewer.file, copied <- viewer.got, phase <- viewer.result

(* What the viewer gets of a download is a copy of the file it asked for,  *)
(* although what the server sent for earlier transfers may still be on its *)
(* way, and a transfer that the server has ended may be aborted.           *)
DownloadCopies == Copy!CopySpec

===============================================================================
