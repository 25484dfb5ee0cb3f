# libvncserver in TLA+

This directory is a specification of the core of libvncserver, kept beside the
code: TLA+ modules translated from the C sources, TLC configurations that check
them on small instances, and proofs, checked by TLAPS, of the theorems that
matter most. Paths such as `main.c:280` are under `src/libvncserver/` unless they
name a directory.

`PROJECT.json` is the index: which definition models which lines, which run
checks which property, which mutated definition breaks it, the findings, the
hazards and the theorems.

    tlc -workers 2 -config MCFramebufferUpdate_loop.cfg MCFramebufferUpdate
    tlapm FramebufferUpdateProofs.tla

## 1. The system

libvncserver is a library with which a program (the *application*) shows a
framebuffer to remote viewers (*clients*) over the RFB protocol. libvncclient is
the library for the other end.

The server runs in one of two ways:

* **event loop**: one thread of the application calls `rfbProcessEvents`
  (`main.c:1238`) again and again; it accepts connections, reads messages and
  sends updates, and everything happens in turn;
* **background loop** (`rfbRunEventLoop(..., TRUE)`, `main.c:1324`): a listener
  thread accepts, and each client has a `clientInput` thread that reads its
  messages and a `clientOutput` thread that sends its updates; the application's
  own threads draw meanwhile.

Nearly all that is hard in this code is in the second way: a client is touched by
its two threads, by the application that iterates over all clients, by other
clients' threads (broadcasts, the sharing policy) and by shutdown.

### Components

| Component | State | Operations | Talks to | What makes it correct |
|---|---|---|---|---|
| Framebuffer update engine (`rfbserver.c`, `main.c`, `cursor.c`) | `frameBuffer`; per client `modifiedRegion`, `copyRegion`, `copyDX/DY`, `requestedRegion`, pending flags, encodings, `progressiveSliceY` | mark, copy, new framebuffer, set cursor; update request, SetEncodings; decide, defer, send | application, client messages, `updateCond` | the regions represent the update the client needs; nothing marked is lost; a viewer that asks converges |
| Copying a region in place (`main.c`, `rfbregion.c`, libvncclient) | two framebuffers | `rfbDoCopyRegion`, `rfbSendCopyRegion`, `CopyRectangleFromRectangle` | update engine | overlapping copies read before they overwrite, on both ends alike |
| Client list, threads, references (`rfbserver.c`, `main.c`, `sockets.c`) | `clientHead`, `next`, `prev`, `refCount`, `sock`, thread states | connect, hold, start, refuse, close, join, unlink, free, iterate, shut down | everything | no use after free, no leaked or doubled reference, threads end before their client, shutdown ends |
| Event loop and sockets (`sockets.c`, `main.c`) | `allFds`, `maxFd`, `listenSock`, the list | check descriptors, new connection, close, update every client | list, update engine | select covers every open client and no closed one |
| Locks of a client | `updateMutex`, `sendMutex`, `outputMutex`, `refCountMutex`, list mutex | every operation | all threads | no two operations take them in opposite orders |
| Handshake and security handlers (`rfbserver.c`, `auth.c`) | `cl->state`, process-wide handler list | versions, security types, authentication, ClientInit, sharing | list | no message is served before authentication; a client that does not share is alone |
| Pointer and keyboard (`rfbserver.c`, `main.c`) | `pointerClient`, last position and buttons, deferral start | pointer event, deferred flush, key event | application callbacks | one pointer owner; events in order; the last motion is delivered |
| Cursor drawing (`cursor.c`) | `cursor`, `underCursorBuffer`, `cursorX/Y` | show, hide, set | update engine | the pixels under the cursor come back |
| Desktop size (`rfbserver.c`, `main.c`) | pending flags, requested size | SetDesktopSize, NewFBSize, ExtDesktopSize | update engine | each change is told once |
| Scaling (`scale.c`) | list of scaled screens, reference counts | set scale, copy scaled rectangle | update engine | a scaled rectangle covers its source |
| Region algebra (`rfbregion.c`) | sorted span lists | or, and, subtract, offset, iterate | update engine | equals set algebra |
| Encodings (`tight.c`, `zrle.c`, ...) | compression streams, `updateBuf` | send one rectangle | update engine | as many rectangles as announced |
| Pixel formats (`translate.c`) | tables, colour map | set format, colour map | update engine | (data) |
| WebSockets (`websockets.c`, `ws_decode.c`) | frame decoder state | incremental decode | sockets | any splitting of the stream gives the same payload |
| File transfers (`rfbserver.c`, `tightvnc-filetransfer/`) | file descriptors, flags, a download thread | open, data, end, cancel | client messages | one file at a time, closed in the end |
| HTTP server, UDP input, extensions, cut text | small | | event loop | |
| Client library (`src/libvncclient/`) | read buffer, handshake state, framebuffer | connect, read message, request | server | requests again after each update |
| TLS, SASL, crypto, statistics, fonts, argument parsing, H264, third-party code | | | | not modelled: wrappers, straight-line code, or not the program's own |

### What is hard

The complete list, with lines, is `hazards` in `PROJECT.json`. The main ones:

* regions are read and emptied under `updateMutex`, pixels are sent after it is
  unlocked, and the application draws at any time without a lock;
* a copy is represented relative to what the client has *now*, so an update in
  flight, a second copy, or a partial request changes what it means;
* sleeping threads: `updateCond` and the condition it stands for, signals from
  six places, some places without;
* iterators walk the client list without a lock, counting a reference only after
  they have looked at the client;
* threads that end each other: input joins output, shutdown joins input and the
  listener, and clients arrive meanwhile;
* the order in which overlapping rectangles are copied.

## 2. The modules

| Module | What it is |
|---|---|
| `FramebufferUpdate` | the update engine, one client against one framebuffer |
| `RemoteDisplay` | what the update engine promises a viewer (abstract specification) |
| `FramebufferUpdateProofs` | type correctness, the inductive invariant, the refinement |
| `RegionCopy` | a copy of several overlapping rectangles, on the server and on the client |
| `RectSplit` | the rectangles announced and those sent, as the encoders split them |
| `TileCodec` | Hextile, RRE and CoRRE: encoder and decoder of one tile after another |
| `PictureProofs` | the order of copies is right; tiles are painted as they were; a region's pixels are sent once |
| `ClientList` | the doubly linked list: link, unlink, free; its shape invariant |
| `ClientListProofs` | linking and unlinking keep the list well formed; for both proofs below |
| `ClientThreads` | listener, input and output threads, iterators, shutdown; EXTENDS `ClientList` |
| `ClientThreadsProofs` | reference counts, phases, the shape of the list, what an iteration visits |
| `EventLoop` | the server without threads, with descriptors and `select`; EXTENDS `ClientList` |
| `EventLoopProofs` | what `select` watches, who is freed, what is read |
| `Handshake` | two connections from the first byte to `RFB_NORMAL`, server and viewers |
| `HandshakeProofs` | the sharing policy; the two sides stay in step; who gets in without a password |
| `WsDecode` | a WebSocket client: upgrade, frame decoder, the reads around it |
| `WsDecodeProofs` | the decoder delivers the data in order, holds nothing back, refuses no conforming viewer |
| `TightTransfer` | the TightVNC file transfer: several clients, download threads, uploads |
| `UltraTransfer` | the UltraVNC file transfer, with a viewer |
| `FileCopy` | what a download promises (abstract specification) |
| `FileTransferProofs` | uploads and downloads of `TightTransfer`; stages and descriptor of `UltraTransfer`, and that it implements `FileCopy` |
| `MC*` | instances for TLC |

How they compose: `ClientThreads` and `EventLoop` extend `ClientList`, the same list under
the two ways the server runs. `FramebufferUpdate` instantiates `RemoteDisplay` under the
refinement mapping of its `Damaged`, `UltraTransfer` instantiates `FileCopy` for what its
viewer has received. `RegionCopy` discharges an assumption of `FramebufferUpdate`, where a
copy moves its whole region in one step; `RectSplit` and `TileCodec` discharge another, that
what is sent for a region is each of its pixels (`SendPixel`). `MCCodec` runs `TileCodec`,
`RectSplit` and `RegionCopy`, and `MCFileTransfer` the two transfers, side by side: they share
no state, and a run picks one of them in its first state.

### FramebufferUpdate

One client is followed. That is no loss: operations of the application loop over
the clients, treat each alone, and clients share only `frameBuffer`, which no
client writes. TCP is FIFO and lossless, so `remoteFrameBuffer` is the effect of
everything written so far: what the viewer will show when it has read it.

| Code | Model |
|---|---|
| drawing, then `rfbMarkRectAsModified` | `Draw`, then `MarkRegionAsModified` |
| `rfbDoCopyRegion`, then `rfbScheduleCopyRegion` | `CopyPixels`, then `ScheduleCopyRegion` |
| `rfbNewFramebuffer` | `SwitchFramebuffer`, then `NewFramebuffer` (with `newFBSizePending`) |
| `rfbSetCursor` | `SetCursor` |
| FramebufferUpdateRequest | `RequestIncremental`, `RequestFull` |
| SetEncodings | `SetEncodings`: the resets and the loop over the list are one step |
| `clientOutput`, `rfbUpdateClient` | `StartDeferring`, `WaitForUpdate`, `TakeModifiedRegion` |
| `rfbSendFramebufferUpdate` | `SendNewFBSize` or `ReadFlags`; `NothingToSend` or `PrepareUpdate`; `SendCopyRegion`; `SendPixel` for each pixel; `FinishUpdate` |

An operation of the application is two steps, because with the background loop the
library runs between the pixels and the report. `BackgroundLoop` decides who may
interleave with whom (`AppMayRun`, `LibraryMayRun`): with it, anything; without it,
the output side and the client's messages run only between operations, and an
operation only between updates. A region is a set of pixels; only `RegionCopy`
looks at its rectangles. `modifiedRegion` is passed to
`rfbSendFramebufferUpdate` by `clientOutput` as a snapshot and by `rfbUpdateClient`
directly; in the second case nothing runs in between, so a snapshot
(`givenUpdateRegion`) stands for both. How long an update is deferred is left open.
An encoder reads the pixels of its rectangles in an order of its own: `SendPixel`
takes any pixel next, which covers every encoding. The bounding box that replaces
too many rectangles may or may not be taken.

Three steps are coarser than the code. `SetEncodings` is atomic, while its resets
(`rfbserver.c:2127-2138`) take no lock and clientOutput may see an encoding between its reset
and its return. `CopyPixels` moves a region at once; for a single rectangle `RegionCopy` shows
that the code's loops come to the same, for several they do not (`MCRegionCopy_server.cfg`).
`SwitchFramebuffer` goes to another buffer of the same size and format: a change of geometry,
of the pixel format or of the scaled screens (`main.c:1048-1100`) is not modelled.

Left out: clients without a cursor pseudo-encoding (the soft cursor is painted into
the framebuffer around the send), cursor positions,
LED state and the other markers, LastRect, H264, scaling, and a failed write, after
which the client is closed and its regions matter no more. The test of
`clientOutput` whether the request meets what is pending (`main.c:480-484`) is not a
guard here: `FB_UPDATE_PENDING` already holds when `modifiedRegion` is not empty, so
the test never changes the outcome; a request that does not meet the damage makes
`clientOutput` go round, which is `NothingToSend`.

### RegionCopy

Every pixel starts with its own position as its value. The server moves one row of
one rectangle per step (one `memmove`) in the order of its iterator; the client one
pixel of one rectangle per step in the order the server sends the rectangles and
`CopyRectangleFromRectangle` walks them. `Rects` gives the rectangles of a region
the way the span lists hold them: maximal bands of equal rows, split into maximal
runs.

### RectSplit

`rfbSendFramebufferUpdate` counts, before it sends, the rectangles every encoder will make
of the region (`rfbserver.c:3241-3367`); the encoders then split by code of their own.
`todo` holds the calls under way, the next first, so that the recursion of
`SendRectEncodingTight` is a sequence and one step is one call. An image is noise under one or
two areas of one colour, which is all the search of the Tight encoder looks at. The limits
of the code are constants; `SplitAssumption` is the relation between them that keeps a
solid-area search from meeting a rectangle too large to send at once, and holds for the values
of `tight.c` (16 lines of at most 2048 pixels, 65536 pixels at most). The count of an update
is taken to fit its 16 bits.

### TileCodec

One step encodes a tile, one decodes it, one goes on to the next tile of the rectangle or to
another rectangle, for every picture of the tile. `enc` holds `validBg`, `bg`, `validFg`,
`fg` of `sendHextiles`, `dec` the viewer's two colours, which is what must agree. A message is
a record of the parts that are there, with its length in bytes (`TileFits`). The background
`getBgColour` picks counts in static arrays that all threads share, so any colour of the tile
may be the background of RRE and CoRRE. What the pixels are worth in the client's format, and
the reads of the framebuffer by several threads, are left out.

### ClientThreads

A client structure goes from `none` to `linked`, `unlinked`, `freed`; addresses
are not reused, so an access after the free is always seen as one. `input` and
`output` are the program counters of the two threads:

    input   run -> signal -> join -> unlink -> refs -> free -> ended      (clientInput, rfbClientConnectionGone)
    output  check -> lock -> asleep | send -> check ... -> done           (clientOutput)
    it      off -> skip -> ref -> held -> skip ... -> end -> off          (rfbGetClientIterator, Next, Release)

Each section under a mutex is one step, and so is each read or write outside one
that others can interleave with: in the iterator these are reading `next`, looking
at `sock`, and counting the reference. A thread that touches a freed client, or joins
or starts a thread it must not, goes to `lost` and stays there: what the C program
would do is undefined. These states are part of the model and the invariants hold
with them. Besides the iterators' (`IteratorsSafe`, below) they cover
`rfbShutdownServer` using a client whose reference it has dropped or joining one that
has no thread (`main.c:1175-1190`), and the listener testing `onHold` of a client the
application has started, refused or lost meanwhile, or of the previous client when
`accept` failed (`main.c:661`).

`select` may fail in the listener, which then ends, and in `clientInput`, which leaves
its loop with the socket open and joins a `clientOutput` that has no reason to end.

`due` and `timely` are history variables: who was there when an iteration began, stays
and has not been visited yet, and whether the iterator's reference was taken on a client
still in the list.

The listener's own iteration in `rfbNewClient` (`rfbserver.c:353-356`, which counts the
clients) is left out: it is a worker's iteration like any other. A join of a client that never
had a thread, on hold or being refused, ends in `lost` (`CallJoin`).

Left out: what the messages and updates are (any update may be pending), outgoing
connections and the clients of the event loop, `rfbScreenCleanup`.

### EventLoop

`rfbProcessEvents` is a program counter: `select`, the listening sockets and the UDP socket of
`rfbCheckFds`, the walk over the clients, `rfbHttpCheckFds`, and the walk that
updates and removes clients. The kernel is two functions: which descriptors are open and which
have something to read; a connection is given the lowest free one (`LowestFree`), so that a descriptor closed in a
pass may be another connection before the pass has ended, with the bits of `select`'s result
(`fds`) still those of the old one. Applications differ in their sockets, their hooks'
answers and what their callbacks do (`Apps`); a callback may close other clients, connect out,
or shut the server down. Arrivals and calls from outside are bounded by `MaxEvents`; the
connections that wait at a listening socket are not: after one has been denied another may be
there at once, again and again (`ConnectionDenied`).

`NeverBlocks` is a history: `blocked` tells whether a client was read that had nothing to say, where
`rfbReadExact` would hold the loop for up to `rfbMaxClientWait`. It makes an exception (`Reuses`) for two connections in one pass with a hook that closes clients
in between. `NeverLost` says that whoever has a socket is in the list, where the loop will
remove it once it is closed. A use of freed memory ends in `lost`.

Left out: what the messages are, the details of HTTP, the on-hold list of an application,
`rfbScreenCleanup`, and a message that comes in pieces (see `WsDecode` for reads that wait).

### Handshake

The server's handlers up to `RFB_NORMAL`, the viewer of libvncclient, and four that are not in
the repository: RFB 3.3 viewers, Apple's 3.889 and a TightVNC viewer, which the server has code
for, and one that is set to a security type and asks for it whatever list it is sent (`MayAskFor`).
The server does not see the difference: it looks the type up in the list of the process
(`SecurityType`, `auth.c:349`). `offered` is a history of what each client was sent. What is on the wire has no type: a reader takes whatever comes next for what it waits
for. Here each message carries its kind, and `InStep` says no reader is ever wrong about it.
A handler runs to its end unless it reads again (`busy`), as those of the Tight security type
do. `handlers` is the process-wide list, as its head and the `next` of every handler: one that was
taken out keeps its `next`, and `rfbRegisterSecurityHandler` and `rfbUnregisterSecurityHandler`
recurse along it. `OtherConnection` is a connection before these ones, or to another screen of
the process, that changes the list as these do. `Exclusive` and `NotDisconnected` are the
sharing policy. Passwords are classes; a version is its minor number.
Left out: SASL, TLS and the security types of other libraries, timeouts.

### WsDecode

The decoder of `ws_decode.c` byte by byte would be a state per byte; here a byte is a frame and
an offset, and one step is one `read`, of any number of bytes that the script allows. A script
is the frames a peer sends, how long the reads inside its messages are, and where reads may
come short (`splits`) or find nothing (`gaps`). Unmasking in words of four with a remainder, the
Base64 text in groups of four, the carry between reads, fragments and control frames between
them are all there, as are `rfbReadExactTimeout`, which asks again until the message is
complete, and `webSocketsHasDataInBuffer`, which keeps the loop of `rfbCheckFds` going for data
`select` does not see. The lengths of the code are constants and smaller (`LongLen`, `BufLen`).
`WholeText` says that text frames hold whole groups of four characters: what is left over at the
end of one that does not is never decoded, and `DataInOrder` and `NoStall` do not speak of it.
An upgrade request that has all but its key passes the checks of `webSocketsHandshake`, and the
length of the missing string is then taken (`websockets.c:310`, `110`): undefined, and the model
ends in the phase `lost`.
Left out: eight byte lengths, interrupted reads, TLS underneath, and the encoder.

### TightTransfer, UltraTransfer, FileCopy

`TightTransfer` has, per client, the download record the thread and the handlers share (`dl`),
the threads, and the upload. A handler of a client is one step unless it waits (`Cancel` for
`fileDownloadMutex`, `Join`); the thread is split where it takes and gives back the mutex and
where it looks at `downloadInProgress`. `OwnThreads` is FALSE for the event loop, where one
waiting handler is everybody's. `Upload` overwrites the record of the upload before, whatever
has become of it, as `HandleFileUpload` does; `overtaken` is a history of the files this happened
to. `UltraTransfer` is one client and a viewer with messages
on their way in both directions; either may end a transfer the other still works at. `Chunk` is
the loop of `clientInput` and of the event loop that sends a block when the socket takes one;
`Update` is what a `clientOutput` sends at any time, also between the two writes of a header
(`writing`).
`FileCopy` is what a download promises: the blocks of the file asked for, in order, and
"complete" only with all of them, or failure.

Left out: directory lists and commands, `FileListRequest`, compression of blocks, translation of
file names, and what a thread does with a record that was freed under it.

## 3. The runs

The first eight pass, the last four find a property violated by what the code does. Every
property has a mutant, a plausible slip in one mapped definition that the run then finds.

| Run | Instance | What it shows |
|---|---|---|
| `update_loop` | event loop, CopyRect and ExtDesktopSize or neither, two copies, bounding boxes, slices of two rows, 3 operations, fair | `ImplementsRemoteDisplay`, `Converges`: no delivery leaves a pixel behind and a viewer that asks gets there; `CursorShapeSent` |
| `update_threads` | background loop, no CopyRect, slices of one row, 2 operations, fair | the comment of `rfb.h:503-513` on `copyRegion` and `modifiedRegion` is true (`Represents`) while the application draws under an update in flight; `Converges`: no wakeup for damage is lost, slices reach every row |
| `client_threads` | 2 clients, 1 iterating thread, shutdown, every hook answer, failing accepts | list, reference counts, thread ends, and `VisitsAll`: an iteration misses no client that stays |
| `event_loop` | 3 clients, 6 descriptors, 8 applications, 4 arrivals and any number of denied ones, fair | select covers every open client and no closed one, no descriptor is lost, no read blocks; closed clients are removed, readable ones served unless connections are denied for ever, and the loop ends after shutdown |
| `handshake` | 2 connections, 10 viewers, 6 configurations, and the connections of others | the two sides never get out of step or wait for each other; nobody gets in without a password where one is needed, but by the way of `type_unlisted`; who does not share is alone, or was refused |
| `websockets` | 10 shapes of frame sequences and 16 cuts of one, every place to split, every gap the decoder allows | the data that was sent is what is read, in order; conforming peers are not closed; nothing decoded waits while the server sleeps |
| `file_transfer` | 2 clients with threads, 2 downloads; 2 uploads; 3 UltraVNC transfers | a download delivers the file asked for or fails (`DownloadInOrder`, `DownloadCopies`), no half-written upload stays (`UploadWhole`) unless it was overtaken, no descriptor of a transfer is forgotten |
| `codec` | every region of a 5x3 screen, 10 displacements; every picture of tiles up to 3x2 in 3 colours; every rectangle and 3 regions of a 7x7 screen under one or two solid areas | the client's order of rectangles, rows and pixels makes a copy an atomic one, and for one rectangle so does the server's; what is decoded is what was read, from as many rectangles as were announced, each pixel once |
| `lost_wakeup` | 1 client, fair | violation of `ClosedIsFreed` |
| `call_again` | as `websockets` | violation of `JustCallAgain` |
| `cancel_hangs` | 1 client, 1 download, fair | violation of `CancelEnds` |
| `type_unlisted` | as `handshake` | violation of `TypeWasListed` |

### The violations

They are disagreements between a comment or a test of the sources and the code, met while
modelling; each is a finding in `PROJECT.json` with the quotation.

* `lost_wakeup`: `clientOutput` tests `cl->sock` before it takes the mutex it waits
  under, so a close in between is never noticed, and `clientInput` joins a thread that
  sleeps.
* `call_again`: a read that finds the socket empty after a frame's header, or between two
  fragments, makes the decoder forget the frame and its message while `errno` says to call
  again; the rest is then taken for a header.
* `cancel_hangs`: the handler of a download's cancel joins the thread with
  `fileDownloadMutex` locked, which the thread takes for its next block before it
  looks at the flag that ends it. The mutex is process-wide: other clients' downloads stop too.
* `type_unlisted`: "Make sure it was present in the list sent by the server" (`auth.c:348`).
  What is searched is the list of the process as it is at that moment. A client that was sent
  `VncAuth` and asks for `None` is let in without a password when another connection, which needs
  none, has put `None` into the list meanwhile. `Authenticated`, of the run `handshake`, says that
  this is the only way.

Ten more have a configuration beside the others, to be run by hand, each with one violated
property:

| Configuration | Property | What happens |
|---|---|---|
| `MCFramebufferUpdate_race.cfg` | `Represents` | with threads and CopyRect, `rfbDoCopyRegion` moves pixels before it schedules the copy while `clientOutput` sends them: the client repeats a move it has received the result of (`main.c:280`, against `rfb.h:503-505`) |
| `MCFramebufferUpdate_cursor.cfg` | `CursorShapeSent` | with threads, `cursorWasChanged` is set without a signal, and a sleeping `clientOutput` does not see it (`cursor.c:779`, against `rfb.h:611`) |
| `MCRegionCopy_server.cfg` | `SameResult` | `rfbDoCopyRegion` walks a region's rectangles the other way round than `rfbSendCopyRegion`; a region of several is copied wrong by the server and right by the client (`main.c:378`, against `rfb.h:511-513`). `FramebufferUpdate` assumes single rectangles |
| `MCClientThreads_iterator.cfg` | `IteratorsSafe` | a single iterator can stand on a client that is freed (`rfbserver.c:218`, against `rfb.h:770-771`) |
| `MCClientThreads_listener.cfg` | `ListenerEnds` | a client accepted after shutdown read the list keeps the listener alive, and shutdown waits for it forever (`main.c:1321`, against `main.c:1210-1211`) |
| `MCHandshake_list.cfg` | `ListedTypeAccepted` | a viewer's choice from the list it was sent is refused, another connection having changed the list of handlers (`auth.c:349`, against `auth.c:348`) |
| `MCEventLoop_denied.cfg` | `ReadableServed` | connections that are denied one after the other keep every client from being served (`sockets.c:392`); no doc says otherwise |
| `MCFileTransfer_overtaken.cfg` | `NoHalfUpload` | a second upload request forgets the first one: its part of a file stays, and its descriptor is open for good (`handlefiletransferrequest.c:778`); no doc says otherwise |
| `MCFileTransfer_header.cfg` | `HeaderWhole` | an update of `clientOutput` comes between the two writes of a header (`rfbserver.c:1754`, `1769`); no doc says otherwise |
| `MCEventLoop_callback.cfg` | `FreedNeverUsed` | `rfbShutdownServer` from a key callback frees the client the loop stands on (`main.c:1192`, against `src/examples/example.c:173-175`) |

### Bounds, and why they are enough

* A screen of one column and three rows: a copy has a source, a destination and a
  bystander; a slice has something above and below; a bounding box has a pixel in it
  that was not in the region. Regions are sets of pixels and no operation but
  `BBox`, `Slice` and `Offset` looks at coordinates, so a second column adds nothing
  but symmetry. Two colours tell a right pixel from a wrong one.
* `MaxOps` counts operations of the application, full requests and SetEncodings; 2 or 3
  give a change under an update in flight, two copies that meet and a switch of
  encodings between them. Incremental requests are not bounded.
* `RegionCopy` needs five columns for two runs of a band that are each other's source
  and destination with a gap between, and three rows for two bands and a row between.
* Two clients and one iterator: one client behind and one linked in front; every
  hazard found needs at most that. Client symmetry is used only in the safety run. With
  two iterating threads the space is out of reach; the theorems below cover any number.

* Four arrivals in the event loop: two clients, one of which is closed in a pass, a connection
  that gets its descriptor, and a message of it. Three clients: one closed by another's callback and one behind it in the
  list; six descriptors: the listening sockets, the clients and one that is reused. `Quota` is
  below their number, as the code's `fdQuota` of one half is: with none left, `accept` itself
  would fail for good and no client be served.
* Two connections in the handshake: the list of handlers changes only by connections, and
  `OtherConnection` stands for any number beside these two; the sharing policy looks at the
  others one by one.
* Tiles of up to 3x2 pixels in three colours: a tile of one colour, of two, of more, and one
  whose subrectangles do not fit; the encoder's memory has four values of validity, and every
  tile follows every other. A 7x7 screen with limits scaled to it: a rectangle too large in
  either direction, a solid area in any place, two that touch or overlap.
* WebSocket frames of up to 12 bytes with a `LongLen` of 9 and a buffer of 16: both header
  lengths, a payload that does not fit the buffer, every remainder of four.
* Downloads of no, one and two blocks: nothing to send, a block and then the end, and a cancel
  in the middle. Two downloads of one client, or of two, for the stray thread of the first.

### Deadlock

Deadlock is checked where the modelled system never stops: the update engine and the codec's
run, which has another tile or an end that stutters. The others end, when nobody connects any
more, the script has been read, or the clients of the file transfers have gone: the runs of
`ClientThreads`, `Handshake`, `WsDecode`, `EventLoop` and the file transfers switch the check off. Where a standstill would be an
error it is a property: `NoDeadlock` and `NoStall` say in which states the handshake and the
decoder may rest.

### Fairness

* `FramebufferUpdate`: weak fairness of the output side as a whole (a thread that is
  scheduled, sends that complete), of reporting an operation once it is drawn, and
  of a viewer asking again when its request was answered, which is what libvncclient
  does at the end of every update (`rfbproto.c:2131-2137`). Nothing makes the
  application draw or the client change its encodings.
* `ClientThreads`: every thread of the library goes on when it can, each client's
  threads on their own; a loop of the application over the clients finishes; the hook
  returns. A wait for a condition is a state with no step: fairness wakes nobody.
  Nobody is obliged to connect, to hang up, to start a client that is on hold or to
  shut down.

* `EventLoop`: weak fairness of the pass of `rfbProcessEvents` as a whole: the application goes
  on calling it, and its callbacks return. Peers owe nothing. `Served` says a readable client is
  read in the end or connections are denied for ever; that a denied connection may be followed by
  another one without bound makes this a condition and not the effect of `MaxEvents`.
* `TightTransfer`: the client's thread and the download's each go on when they can; a mutex that
  is taken is a disabled step.

## 4. The proofs

All for every value of the constants that the `ASSUME`s admit.

### FramebufferUpdateProofs

* `TypeCorrect`: `TypeOK`, and every pixel a copy reads is on the screen.
* `RepresentationInvariant`, `RegionsRepresentUpdate`: under `SeparateCopies` (threads
  and CopyRect do not meet; `MCFramebufferUpdate_race.cfg` shows why), `[]IInv` and `[]Represents`.

  `Represents` speaks of quiet states only, so it is not inductive. `Covered` extends
  it to all: a pixel that is not modified, not still to be sent and not in an
  unreported operation is brought up to date by the pending copy, or by the copy of the
  update in flight, or is right already. To keep `Covered` when a copy is scheduled, the
  pixels moved before have to be known to come from where the client has them
  (`UnreportedCopy`), and no update may be in flight meanwhile (`NoCopyBehindUpdate`,
  `Phases`). The two regions of a new copy that the code adds to `modifiedRegion`
  (`SupersededCopy`, and what is copied from a modified pixel) are just what the step
  needs; dropping either is a mutant that the runs kill.
* `UpdateImplementsDisplay`: the engine implements `RemoteDisplay`. With `damaged` as
  modified, pending, being copied, still to be sent and unreported pixels, each step
  grows the damage, or delivers, or stutters; pixels leave the damage only with the
  server's current value. `SendPixel` under a concurrent draw is the interesting
  step: the drawn region is damaged before the pixel leaves.

### ClientThreadsProofs

For any number of clients, iterating threads and hook answers.

* `Invariance`: `IInv`. `RefCountExact` says `refCount` is the number of iterators that
  hold the client plus one while `clientOutput` sends, so the `<= 0` in
  `rfbClientConnectionGone` is an `= 0`; its proof counts finite sets of threads
  (`Workers` is finite). `Phases` orders the two threads and the life of the
  structure: a client is unlinked only after its output thread has ended.
  `Protected`: a reference taken while the client was linked keeps `clientInput` from
  the phase that frees, because by `RefCountExact` the count is not zero.
* `TypeCorrect`, `ThreadsEndBeforeFree`, `ReferencesAreSafe` follow from `IInv`.
* `ListStaysWellFormed`: `ListWellFormed` for any interleaving of link and unlink.
  That the list has no cycle is carried by `Ranked`: there is a ranking of the clients
  that falls along `next`; linking gives the new head a higher rank and unlinking
  keeps the ranks. The two lemmas are in `ClientListProofs`.
* `EveryClientVisited`: `VisitsAll`: when an iteration ends it has met each client that was in the
  list, and open, from its beginning to its end. `VisitInv` ranks all the clients
  that ever were by when they were linked: whoever in the list ranks below a client ranks no higher than
  that client's `next`, also the stale `next` of one that has been unlinked (`Order`). A client that is still due is then the one the iterator stands on or is behind it by
  rank (`AheadOf`): unlinking takes nobody else out, and a client linked meanwhile goes to the head
  with a rank above all, and is not due.

### EventLoopProofs

For any number of clients, descriptors and arrivals, and any application.

* `WatchesRightSockets`: `WatchedSockets`, unless the server was started by inetd (its client
  shares a descriptor with the screen, and shutting down without disconnecting closes it under
  the client). `WatchInv` adds to the property that no two of all the owners of descriptors have
  the same; then closing one client, in whatever callback, leaves the others' alone, and a
  connection, which gets a descriptor nobody has open, meets nobody. That lowering `maxFd` leaves
  no one out needs that a bounded set of numbers has a greatest, from the well-founded order.
* `FreedIsNeverUsed`: `NeverLost`. `LifeInv` says that the client the walk stands on is in the
  list until it is removed by the walk itself. With a shutdown in a callback it may have been
  freed; then the state says so (`life` is "freed") and the model ends in "lost", which the
  theorem excludes for a `Careful` application.
* `ReadsNeverBlock`: `NeverBlocks`, by a set of clients that are ahead of the walk (`Ahead`): it
  is closed under `next` and whoever in it was found readable still is. A client accepted during
  the walk may have a descriptor that was found readable, but is linked at the head and so never
  ahead. That the client being read leaves the set without being met again uses `Ranked`. Before
  the walk a connection gets a descriptor that was not open when `select` was called, unless a
  client has been closed since: this is how the exception in `NeverBlocks` was found.

### HandshakeProofs

For any number of connections, viewers and configurations.

* `AtMostOne`: `Exclusive`. `PolicyInv` adds who can be `busy`: only a handler that reads again
  stays so, and none of those has its client in `RFB_NORMAL`. Each handler then moves its own client on and
  closes nobody (`MovesOn`) or runs `rfbProcessClientInitMessage` (`Initialises`), where the
  policy decides.
* `NobodyDisconnected`: `NotDisconnected`, an action property, from the same invariant.
* `AlwaysInStep`, `NeverBothWaiting`, `OnlyWithPassword` and `TypesKept`: `InStep`,
  `NoDeadlock`, `Authenticated` and `TypeOK`, from `SessionInv`. It adds to `PolicyInv`, for each
  connection (`Sessions`), at which point of the protocol both sides are together (`Together`, one
  way for each message that may be on its way, in either direction), or that one has left and what
  of its last words may still be read (`Leftover`, `LastWords`). A step either takes the message the other
  side has just sent, or leaves. What a viewer is offered depends on the list of handlers, which
  other connections change: `ListOK` says which lists registering and unregistering can make
  of the three handlers, however often and in whatever order: at most one of them has another
  behind it. From such a list, `rfbSendSecurityTypeList` offers a client that needs a password
  `VncAuth` and Tight only (`Types`), and by `InSecurityType` a viewer picks what it was offered or
  a type that was not (`Unlisted`). A client let in with `None` is thus one of the latter, the exception in
  `Authenticated`.
  Assumed: `MacAssumption`, that the viewers that send minor version 889 are those of Apple.

### PictureProofs

For any size of screen and tile, and any picture, region and displacement.

* `ClientCopies`, `ServerCopies`: the rectangles of a region are disjoint and cover it
  (`RectsDisjoint`, `RectsCover`: bands and runs that meet are the same, and an element of a
  bounded set has a longest interval around it), and the order, which follows the signs of dx and
  dy, puts no pixel before the one it is the source of (`ClientOrder`). The invariants say that
  what has been copied shows its source and the rest itself.
* `HextileInSync`: whenever the encoder counts on a background or foreground, the viewer has
  that one. `SyncInv` adds what is on its way: the message of a tile, decoded by the viewer's rules,
  leaves the colours the encoder will count on. The steps are the three kinds of a message:
  raw pixels forget both colours, a message with coloured subrectangles forgets the foreground,
  and one that leaves a colour out does so only while the viewer knows it.
* `TilesRestored`, `MessagesFit`: `PixelsRestored` and `TileFits`. The loop of `subrectEncode`
  has an invariant of its own, for each number k of pixels it has gone through: a subrectangle is of one colour in the tile; the pixels of all of them are background
  in the copy the loop works on and the others are as they were; behind k there is background
  only. So each pixel that is not the background is in a subrectangle of its colour, and painting
  them in order over the background gives the tile. A subrectangle is started at a pixel that differs from
  the background, and one pixel at least does not, so their number is less than that of the
  pixels. When they do not fit, the tile is sent raw.
* `CountsKept`, `PixelsCoveredOnce`: `CountKept` and `EachPixelOnce`. `SplitInv` says of the calls
  under way and the rectangles sent together that each pixel is in as many of them as of
  the rectangles of the region (`Balanced`), and that their counts come to what was announced
  (`Numbers`). Then it is a lemma for each encoder that the calls and rectangles a call is replaced by
  cover what it would have (`Covers`) and count as much: strips by their last one, the grids of CoRRE and
  `SendRectSimple` by dividing with a remainder, the search of the Tight encoder because the five
  parts around a solid area are disjoint and cover the rectangle, which needs that
  `FindBestSolidArea` and `ExtendSolidArea` stay within it (`BestIs`, `ExtendedIs`). When the rectangles are not counted
  (`Many`), `Numbers` says nothing. Assumed: `SplitAssumption`, on the limits of the code.

### FileTransferProofs

For any number of clients, files and blocks. `BothTyped`: `MCTypeOK`.

* `UploadsWhole`: a file on the server has been uploaded to
  its end, is being uploaded, or was being uploaded when its client asked for another one.
  `UploadInv` says of a part of a file that was not overtaken that its client is alive, has not
  reached the end of its close handler, and has that file in its record, open and in progress; so
  whatever ends the upload finds it there to remove. A request, which overwrites the record, adds the file
  to `overtaken` in the same step. The handlers of the downloads leave all of
  that alone, which is a step for each.
* `DownloadsInOrder`: `DownloadInOrder`. `DownloadInv` relates what a client has been sent to
  where its threads are, one assertion for each place a thread can be at (`Reads`, `Sends`,
  `Checks`): a block about to be sent is the next of the file that has been announced, and the
  record has the position behind it. Excepted, as in the property, are requests that come
  while a stray thread runs, one that `CloseUndoneFileDownload` does not see because it has not opened
  its file yet or has closed it: the two then share one record, and `crossed` remembers it.
* `TightTyped`, with `ControlInv`: the handler that waits for a thread, or undoes, is one that
  holds `fileDownloadMutex`.
* `DescriptorNeverLost`, and the refinement `DownloadsCopy`: `UltraTransfer` implements
  `FileCopy`. `TransferInv` has three parts. `Stage` says how far a transfer is by what lies between the
  two sides: the viewer waits and its request is on the way (`Waiting`), or its answer is, with
  the blocks that follow it and the end (`Answered`, `Stream`), or it receives (`Receiving`), or
  nothing will come any more (`Lost`). `Steady` says what the server keeps of it, `Descriptor`
  that an open descriptor is one of a transfer. Then each step of the transfer is one of the
  copy or changes nothing that it sees (`CopySteps`): a packet that arrives is the next block of the file
  because `Stream` numbers those on their way. Assumed: no file of the server is called as the
  one the viewer uploads.

### WsDecodeProofs

For any frames, fragments, lengths, masks and pauses of the network.

* `DataStaysInOrder`, `DecoderTyped`: `DataInOrder` and `TypeOK`, from `WsInvariant`. `InDecoder`
  says what the state of the decoder means at each place it can be read from (`HeaderOK`,
  `ExtendedOK`, `PayloadOK`): how much of which frame it has, the opcode of the message a
  continuation belongs to, what of a group of base64 it carries over. `InOrder` says that what has
  been handed on, with what waits in the decoder, is the data of the frames before and the decoded part of
  this one. That a continuation frame takes the opcode of the last data frame that is none
  itself is an induction over the frames.
* `NothingHeldBack`: `NoStall`: when the server waits in `select`, the viewer's text frames hold
  whole groups and the decoder has not lost its place, all the data of the frames read has been
  handed on.
* `ConformingNeverRefused`: `ConformingAccepted`, from `ExactInv`: with a viewer that keeps to
  RFC 6455 on a network that does not pause within a message, the decoder never loses its place
  and each of its checks finds what it wants (`Settled`).

### Inductions over data

What a recursive function or a sequence comes to is proved by least counterexamples. `UpTo` says
that a set with 0 in it, and with n whenever n - 1 is, has all the numbers up to a bound; it takes
the set and not an operator for its parameter, and rests on the well-founded order of the naturals. `Iterates` gives the function that a recursion
over `0 .. n` defines, for `SubrectEncode`, `Paint` and `Counted`; `FlattenSeq` is characterised
by `FlattenAppend`.

### Only model-checked

Liveness: `Converges`, `CursorShapeSent`, `ClosedIsFreed`, `Served`, `LoopEnds` and the violated `ClosedIsFreed` of
the threads and `CancelEnds`, which are out of the prover's reach. Every safety invariant and action property of a passing run is a theorem;
where a theorem assumes more than its run, this section says what.

## 5. Known limits of the code, met while modelling

Not properties of a run, because no line of the repository says otherwise, or because the model
leaves out what they are about:

* event loop: denied connections starve the clients (`sockets.c:392`, above); with `handleEventsEagerly` a client on hold that has unread data keeps
  `rfbCheckFds` in its loop; when descriptors run out, or connecting the UDP socket fails, the
  pass ends before clients are served; when two connections come in one pass, by IPv4 and IPv6,
  and `newClientHook` closes a readable client for the first, the second may get its descriptor
  and is read at once, which blocks up to `maxClientWait` (`sockets.c:454`); a UDP pseudo client refused by `newClientHook`
  takes the list's head with it; the second `rfbSetNonBlocking` of `rfbConnect`'s client, when it fails,
  leaves a closed descriptor in `allFds`;
* handshake with threads: the list of security handlers and the sharing policy's walk over other
  clients have no lock;
* WebSockets: an upgrade request without a key reads a null pointer (`websockets.c:110`); a ping or an empty frame wakes a server that then waits in `rfbReadExact`;
  `rfbWriteExact` encodes into a buffer of the client before it takes `outputMutex`
  (`sockets.c:812`);
* file transfers: an upload that another request overtakes leaves its part and its descriptor
  behind, a header of UltraVNC may be torn by an update (both above); `rfbTightExtensionClientClose` frees a record a running thread uses
  (`rfbtightserver.c:455`); a refused request still replaces the name a thread has not opened yet;
  short writes of an upload are not told to an UltraVNC viewer (`rfbserver.c:1867`), and its
  descriptor stays open when it disconnects;
* updates: the number of rectangles has 16 bits, and a sum of many is not checked (`rfbserver.c:3361`);
  `updateMutex` and `sendMutex` are taken in both orders (`rfbserver.c:2436`, `3861`).

## 6. Not modelled, and why

* Locks of a client: each operation of the update engine is atomic where the code holds
  `updateMutex`. A module of the mutexes alone would say no more than that two lines take them in
  opposite orders, which the hazards list says.
* Pointer and keyboard input, cursor drawing, scaling, pixel formats: data with little control;
  what is hard in them is in the hazards.
* The algebra of regions (`rfbregion.c`): taken as that of sets of pixels; iteration is modelled.
* Compression and the pixels inside Tight, ZRLE, Zlib and Ultra rectangles, JPEG, H264:
  external libraries.
* TLS, SASL, cryptography, fonts, drawing, statistics, arguments: wrappers and straight-line code.
* `src/common`: third-party compression, image and crypto code, more than half of the lines of
  the repository; the example programs and tests, which use the library.

What could come next: the pointer's deferral, and the span lists as recursive functions against sets.
