# A verification project for android-vncserver

android-vncserver shares an Android screen over VNC.  A foreground service
obtains a `MediaProjection`, renders the virtual display with OpenGL into
hardware buffers, and a native server (libvncserver, driven by one worker
thread) sends the buffers' contents to VNC clients.  This directory holds TLA+
models of the app's own logic and of the parts of libvncserver it stands on, the
TLC runs that check them and TLAPS proofs.

Source paths below are relative to `src/app/src/main/`.

## 1. Inventory

| Component | State | Operations | Talks to |
|---|---|---|---|
| `BufferManager` (cpp/buffermanager.*) | 3 or 4 buffers; which one is the consumer's, the producer's, clean, the compare buffer | `allocate`, `release`, `getConsumer`, `getProducer` (under `mLock`) | called by the renderer (main thread) and by the worker |
| `VncGraphicBuffer` (cpp/vncgraphicbuffer.*) | an `AHardwareBuffer`, its EGL image, its stride | `allocate`, `lock`, `unlock`, `bind` | CPU reads between lock and unlock, GPU writes when bound |
| `VncServer` (cpp/vncserver.*) | current VNC, GL and compare buffer, `mFrameAvailable`, `mTerminated`, worker thread, rfb screen | `startServer`, `stopServer`, `worker`, `frameAvailable`, `bindNextProducerBuffer`, `compare`, client hooks | libvncserver callbacks; JNI to Java |
| `TextureRender` (Java) | EGL context, textures, frame buffer object | `start`, `stop`, `drawFrame`, `setHeightOffset` | `VncJni` |
| `VncProjectionService` (Java) | projection, virtual display, surface, saved brightness and orientation, rotation | `onCreate`, `onBind`, `onDestroy`, event handler, `onFrameAvailable`, `onScreenRotation` | main looper, system settings, `VncJni` |
| `VncJni` / vncjni.cpp | list of listeners | JNI calls, notifications (synchronized) | both sides |
| `MainActivity`, `SettingsActivity` (Java) | toggle button, service connection, preferences | bind, unbind, stop, rotation | Android |
| libvncserver: clients (cpp/libvncserver/libvncserver/main.c, sockets.c, rfbserver.c) | client list, sockets, `allFds`, `maxFd`, `pointerClient` | `rfbProcessEvents`, `rfbCheckFds`, `rfbNewClient`, `rfbCloseClient`, `rfbClientConnectionGone`, `rfbShutdownServer` | worker thread, then the main thread; hooks of the app |
| libvncserver: handshake (auth.c, rfbserver.c) | state of each client, list of security handlers | version, security type, ClientInit | the viewer |
| libvncserver: updates (rfbserver.c, cursor.c, rfbregion.c) | modified and requested region, cursor and encoding flags | requests, `SetEncodings`, `rfbSendFramebufferUpdate` | worker thread |
| libvncserver: scaling (scale.c) | chain of scaled screens, reference counts | `SetScale`, `rfbScaledScreenUpdate` | clients share screens |
| libvncserver: encoders (corre.c, zlib.c, ultra.c, tight.c, ...) | compression streams | cut and encode a rectangle | the viewer |

**What is hard here.** Two threads share the buffers: the main thread draws and
swaps, the worker takes, serves and compares.  The swap and the notification of
a picture are two critical sections; the compare buffer must still hold what the
clients have; the served buffer must stay locked while libvncserver reads it;
`stopServer` waits for the worker.  Client events travel through the main
looper's queue and may be handled after the service that should handle them has
been destroyed.  `compare()` moves pointers and counters separately.  The
activity, the permission dialogue, the binding and the service's life cycle
overlap when the button is toggled quickly.  One thread serves all clients: a
client that goes, half-way through a message or while it is being set up, must
leave lists, descriptors and hooks as they should be; what part of a change a
client has not been sent must not be forgotten; the encoders' arithmetic for how
many rectangles follow is not the arithmetic by which they are cut.  All hazards,
each at its line, are listed in `PROJECT.json`.

**What makes each component correct.**

- *Buffers*: no picture is read while it is drawn, the newest complete picture
  is never lost, a take serves it; locks are paired.
- *Server*: a client without pending updates has the served picture, requested
  updates arrive, stopping terminates.
- *compare()*: terminates; marks something exactly when something changed; the
  marked rectangle contains the changes.
- *Service*: projects exactly while somebody watches, leaves the user's settings
  as it found them, never renders without a server.
- *Activity*: holds no reference to a service that is gone; switching off ends a
  service whose connection has been reported; the rotation it read reaches the renderer.
- *Clients*: the list is sound under every order of arrivals and departures, the
  worker sleeps only in `select` and is woken for every open socket, the app's
  hooks come in pairs.
- *Handshake*: server and viewer agree on which message comes next and never wait
  for each other.
- *Updates*: what a client's picture lacks is marked or on its way; regions are the
  sets of pixels they stand for; the pieces of a rectangle make up the rectangle.
- *Scaling*: reference counts are exact and a copy somebody looks at is current.

## 2. Modules

| Module | Models | Kind |
|---|---|---|
| `BufferManager` | the buffer roles and their exchange | component |
| `FramePipeline` | renderer, worker, buffers, rfb clients; extends `BufferManager` | composition |
| `FrameMailbox` | what the pipeline promises: a one-slot mailbox | abstract specification |
| `DirtyRect` | `VncServer::compare` and the clipping in `rfbMarkRectAsModified` | algorithm as a step machine |
| `ProjectionService` | life cycle, event queue, projection and settings of the service | component |
| `ScreenShare` | `MainActivity`, Android's rules for started and bound services, rotation; extends `ProjectionService` and implements it | composition, refinement |
| `RfbClients` | client list, sockets, event loop and shutdown of libvncserver | component |
| `ClientEvents` | what libvncserver promises about its hooks | abstract specification |
| `RfbHandshake` | the opening of RFB connections, server and viewers | component |
| `RfbRegion` | the region algebra of rfbregion.c | algorithm as a step machine |
| `RfbUpdate` | one client's regions, cursor and encoding flags | component |
| `RfbScale` | the shared scaled screens | component |
| `EncodingSplit` | how encoders cut rectangles and how many they announce | algorithm as a step machine |
| `FramePipelineProofs`, `DirtyRectProofs`, `RfbClientsProofs`, `RfbHandshakeProofs`, `RfbScaleProofs`, `EncodingSplitProofs` | the theorems about the module they are named after (section 5) | proofs |
| `ScreenShareProofs` | the theorems about `ProjectionService` and `ScreenShare` | proofs |
| `RfbUpdateProofs` | the theorems about `RfbUpdate` and `RfbRegion` | proofs |
| `MC*` | TLC instances | model checking |

Definitions that are named after another one with a suffix (`SwapBuffersNoSwap`)
are plausible bugs; they are part of no specification.  Each shows that the property paired with it in
`PROJECT.json` notices that bug.

### FramePipeline

*Main thread* (`mpc`): `StartServer` (with any of the outcomes of the buffer
allocation), `RunServer`, `StartProjection`, `BeginDraw`, `FinishDraw`,
`SwapBuffers`, `FrameAvailable`, `StopProjection`, `StopServer`, `Cleanup`.
*Worker* (`wpc`): the loop test, `rfbCheckFds` (connections and requests arrive
while it runs), `UpdateClients`, the test of `mFrameAvailable`, the three steps
of `setVncFramebuffer` under `mFrameAvailableLock`, then either `MarkScreen`
(mode TRIPLE) or `LockCmpBuffer` and `Compare` (mode WITH_COMPARE).  A step is a
critical section, a call into the graphics stack, or code that touches nothing
shared.

A picture is its sequence number.  `Torn` marks a buffer between the first GL
command of `draw()` and the return of `glFinish()`.  Regions are reduced to "not
empty"; which pixels a region covers is the subject of `DirtyRect`, whose
property `MarkedIffChanged` is what the `Compare` action relies on.

`drawn`, `published` and `fresh` are history variables.

### FrameMailbox

`Publish`, `Absorb` (a notification that finds the flag already up), `Take`,
`Restart` (a new projection), `Reset` (the server is stopped).  A take that finds
the slot filled serves its picture.  The swap and the notification being separate
critical sections, a second take may follow for the same publication; it finds
the slot empty and serves an older, complete picture.  The code can do this: swap
1, notify 1, swap 2, *take* (serves 2), notify 2, *take* (serves an older one,
until picture 3 arrives).  The mailbox states exactly how far this can go: never
an incomplete picture, at most one take per swap, and the newest picture stays
in the pool (`NewestKept`).

### DirtyRect

The state is that of the C++ function: the buffer offset, `i`, `j`, the four
bounds.  One action per branch of one loop iteration.  All pairs of pictures of
the given size are enumerated, as sets of differing words.

### ProjectionService

The main looper is a FIFO queue of messages; the worker appends `CONNECTED` and
`DISCONNECTED`, Android appends `CREATE`, `BIND`, `DESTROY`.  `onDestroy` is split
at the `join`: until the worker has exited it may still post events, and what it
posted is handled afterwards by the destroyed service.  `crashConnected` is the
dereference of a null `mBufferManager` in `bindNextProducerBuffer`: the process
dies, the system settings survive.  `system` says for brightness and orientation
whether the value is the user's.

External assumptions: Android calls `onBind` once per instance and does not
create a new instance before the old one's `onDestroy` has run (`ScreenShare`
derives this from the activity and Android's rules); the user does not change the
two settings, nor withdraw the permission to write them, during a session.

### ScreenShare

The queue of `ProjectionService` is the main looper's, so the activity's messages
are in it too: `GRANTED` (result of the dialogue), `BOUND` (`onServiceConnected`),
`CONFIG`, `FINISH`, `RECREATE`.  The user toggles (`ToggleOn`, `ToggleOff`), answers
dialogues, leaves, comes back, hides the activity and turns the display.  By
Android's rules a service exists as long as it is started or bound, and is
destroyed only when it is neither.  `serviceRotation` and `heightOffset` follow a
rotation through `onScreenRotation` into the renderer.  `ServiceSpec` instantiates
`ProjectionService` with the queue reduced to its messages (`ServiceMessages`): every step is one of
its steps or a stutter, so the safety properties that `service` checks hold in the
composed system.

Modelled from how the app uses Android (external): a dialogue on top receives the
clicks; its result is delivered to an activity that has not been left meanwhile;
binding twice with one connection calls `onServiceConnected` once; turning by 180
degrees is no configuration change, and a hidden activity is told of none.

### RfbClients and ClientEvents

`pc` is the worker's place in `rfbProcessEvents` (select, accept, read, update) and
then the main thread's in `rfbShutdownServer`; `cur` is the record the iterator stands on.  The network
connects, speaks and hangs up at any moment.  A failing `accept`, a socket that
cannot be set up (the record is leaked) and a version message that cannot be written
(the record is freed before the app met it) are steps of `rfbProcessNewConnection`.
Records are model values; a freed one may be allocated again.  `EventsSpec` maps the
hooks that were called to `ClientEvents`: strictly in turn for each client, and all
reported gone when the shutdown returns.

Without a background loop, reference counts are never read and are left out.

### RfbHandshake

The states of `cl->state` up to `RFB_NORMAL`, with the viewers as they are written
for versions 3.3, 3.6, 3.7, 3.8 and the Mac's 3.889, which skips a message.  The wire
holds what the sender meant; a receiver that takes it for something else is
"confused".  A message may arrive in part: the worker then waits in `rfbReadExact`,
for everybody, until the rest, the end of the connection or its timeout.  The list of
security handlers is global to all clients, as in the code.

### RfbUpdate and RfbRegion

`RfbUpdate` follows one client: `modified` and `requested`, the cursor and position
flags, one-time messages, and (history) which of the client's pixels are older than
the frame or show the cursor.  Requests take all values of a small `uint16_t`, whose
wrap-around in `rectSwapIfLEAndClip` is kept.  The cursor of the app never moves.
Requests that are empty after clipping are left to `RfbRegion`.

`RfbRegion` is the code of rfbregion.c on sequences: a list with a cursor is what is
before it (`done`) and from it on (`rest`), next to what is left of the source (`src`,
where `sraSpanListOr` moves `s_start`).  The functions call themselves for the lists of
horizontal spans, so `calls` is a stack of at most two loops.  A step is one iteration of
the loop at the top: a span of the source is inserted (`OrAtEnd`, `OrBefore`), a span is
skipped (`SkipSource`, `SkipDestination`), or two overlap (`Overlaps`: the split and, for
rows, the call); `Return` is the rest of the iteration after the call, with the merging,
and `Finish` the end of the operation.  Two regions are created and combined in every
order next to the sets of pixels they should stand for.

### RfbScale

Clients, the chain of scaled screens, `scaledScreenRefCount`, which copies are
current, and what size each client was told.  A client may list its encodings again at any
time, with NewFBSize or without, also while an announcement is pending; `withdrawn` is a
history variable with the clients that did so.  `SizeAnnounced` says that a client shown a
size it was not told has the announcement pending and knows NewFBSize, or has withdrawn
it; that the latter are sent pixels of that size all the same is an observation in
section 4.

### EncodingSplit

The functions of an encoding call themselves and each other.  `todo` is the stack of
calls still to be made, each with what is left of its rectangle; a step is one call, or
one iteration of a loop of the call at the top (`SendCoRRE`; `SendLines` for Zlib and
Ultra, which have the same loop; `SendRectSimple`, `SendBands`, `SendColumns`,
`SendRectEncodingTight`, `SendUpperPart`, `SendRow`, `SendSolidRect` for Tight).  `Count*`
is the arithmetic of `rfbSendFramebufferUpdate` and `rfbNumCodedRectsTight`.

`FindBestSolidArea` and `ExtendSolidArea` are stated by what they return.  For the first
`MCEncodingSplit` has the loop as it is written, and `BestAsTheLoop` compares the two for
every rectangle and colour.

The rectangles of an update may be without width or height, because the clipping of
requests lets them through; `Quot` is the division of C, with a quotient of 0 for a
division by zero.  `AnnouncedUnlessEmpty` says that every rectangle is announced exactly
except those of `Miscounted`, and what happens to these.  Not modelled: the change of colour that grayscale JPEG makes
to a solid tile, and the bytes within a piece, those of an empty one included.

## 3. Runs

| Run | Instance | Checks |
|---|---|---|
| `pipeline` | 1 client, 3 pictures per server start | `NoTearing`, `LockDiscipline`, `NewestKept`, `ClientsUpToDate`, `MailboxSpec` (refinement), `FrameConsumed`, `StopReturns`, `UpdateDelivered` |
| `dirty_rect` | 4x3 words, 2 pixels per word | `MarkedIffChanged`, `CoveredButEdges`, `Terminates` |
| `dirty_rect_covered` | 3x3 words, 1 pixel per word | `Covered`: **violated** |
| `service` | 1 client, queue up to 6 before a connection | `ProjectingWhileConnected`, `SettingsRestored`, `RendererHasBuffers`, `CrashOnlyAfterDestroy`, `ViewerIsServed` |
| `service_shared` | 2 clients | `ProjectingWhileConnected`: **violated** |
| `screen_share` | 1 client, 2 requests for permission, 3 rotations | `OffWillStop`, `NoStaleService`, `RotationPassedOn`, `ServiceSpec` (refinement) |
| `clients` | 2 records, IPv4 and IPv6 listener, 3 descriptors | `ListWellFormed`, `WorkerOnLiveRecord`, `SelectWatches`, `NeverBlocks`, `EventsSpec` (refinement), `LeaverReported` |
| `handshake` | 2 viewers of 5 versions, 2 requests under way | `InSync`, `NoMutualWait`, `OpeningEnds` |
| `regions` | 3x2 pixels, 2 regions, any number of operations | `SetSemantics`, `SpansOrdered` |
| `updates` | 2x2 pixels, 1x1 cursor, `uint16_t` of 2 bits, 2 frames | `NoLostChange`, `NoGhostCursor`, `PictureCatchesUp` |
| `scaled_screens` | 3 clients (symmetric), 2 scaled sizes | `RefCountExact`, `CopyCurrent`, `SizeAnnounced` |
| `encoding_split` | every two-coloured 3x3 picture, every rectangle of it, the empty ones included | `SentExactlyOnce`, `AnnouncedUnlessEmpty`, `SolidIsSolid` |

**Further configurations.**  Not part of the list of runs, to be started by hand
(`tlc -config X.cfg M`, where `M` is the `MC` module that `X` begins with).  They pass:
`MCFramePipelineTwoClients` (safety with 2 clients, symmetric),
`MCScreenShareLive` (`UnwantedServerEnds`), `MCRfbClientsList` (3 records, so that
one is unlinked between two others; `PointerHolderLives`, `ClosedAreCollected`; 5.4
million states), `MCRfbClientsLive` (`ShutdownEnds`), and the `More` configurations
with the type invariants and `LeaverNoticed`,
`BBoxCovers`, `CursorAnnounced`, `OncePerSetEncodings`, `FitsTightBuffer`, `BestAsTheLoop`.  Those that end
in a counterexample are named in section 4.

**Bounds.** `MaxFrames` bounds the pictures drawn after one server start; servers
and projections may be started any number of times.  Three pictures are enough
for every arrangement of a served, a waiting and a drawn picture.  The theorems of
section 5 do not depend on any of these bounds.  4x3 words are the smallest picture
with a first, an inner and a last column and row and room for the drift of the
counters by one; `DirtyRectProofs` covers all others, except for termination.
`MaxQueue` only limits connections; a queue of six holds several connect/disconnect
pairs behind a `DESTROY`.  `MaxAsked` = 2 lets a second request for permission
overtake the service of the first; of the rotations, 1 and 3 are the two between which
no configuration change is reported.  Three descriptors make one client's number
higher and another's lower than the listener's, and let descriptors run out with two
listeners.  Two viewers are enough for one to hold up the other.  A 2-bit `uint16_t` on a 2x2 screen has requests
inside, across, beyond and wrapped round the edge.  On 3x2 pixels a list has a gap that
a third span can fill, so that spans merge on both sides; `SetSemantics`
also holds on 4x2 pixels (6.4 million states).  The limits of `EncodingSplit` are scaled
down with the picture so that every kind of cut occurs, the remainders included.
`MCEncodingSplitMore` has a second full column of tiles.  `MaxEmpty` = 4 ends the loop in
which Zlib and Ultra send a rectangle without width for ever.  `RfbRegion` runs with
`MinSide` = 1: rectangles of width 0 leave spans without pixels in a list, which pile up
without a bound; the theorems about regions hold for both values.

**Fairness.** `FramePipeline` assumes that the worker keeps running and that the
main thread finishes a handler it has begun; nobody is obliged to draw, connect or
start anything.  Weak fairness of the worker includes that `rfbCheckFds` returns:
with `handleEventsEagerly` it does so only once `select` has found nothing for 5
ms (or a connection was the only event), hence the assumption that the clients do
not send without a pause for ever.  `ProjectionService` assumes that the looper
goes on handling messages and that the worker sees `mTerminated`, which is what
`StopReturns` establishes; `ScreenShare` adds that a pending `onServiceConnected` is
delivered, and obliges the user to nothing.  `RfbClients`: the worker and the shutdown go on, and
`select`, if it finds nothing again and again, times out now and then (SF); its
liveness properties assume `ClientsPause`, without which the eager loop ("handle as
many input events as possible", rfb/rfb.h:363) never ends.  `RfbHandshake`: the worker
serves every client it has something from (SF per client, since it may be busy with
another), viewers answer what they get, but may leave, and the rest of a message may
never come: that is what the timeout is for.  `RfbUpdate`: weak fairness of the worker
contains the pause again; the client of `PictureCatchesUp` keeps asking (SF).

## 4. Findings

- **`compare()` misses changes** (`dirty_rect_covered`, cpp/vncserver.cpp:322).
  After the first difference `i` and `j` are incremented when they are recorded
  and `i` once more, so both counters stay ahead of the buffers: a later difference
  in the last column is recorded in column 0 of the next row, and its pixels are not
  marked.  The full-width shortcut also leaves its own row unrecorded.
  `CoveredButEdges` states what is left: everything but the last column of words
  and, after the shortcut, the bottom.
- **The first client to leave stops the projection for all**
  (`service_shared`, VncProjectionService.java:255), although the server
  is set up for several clients (`alwaysShared`).  The same trace leaves
  the brightness dimmed: the second `CLIENT_CONNECTED` saves the dimmed value.
- A `CLIENT_CONNECTED` still queued when `onDestroy` runs crashes the process
  (`crashConnected`); `CrashOnlyAfterDestroy` shows that this is the only way to
  reach the null `mBufferManager`.

**Observations.**  Counterexamples of the further configurations, in the order of
their weight:

- `MCRfbClientsHold` (`IteratorHoldsRecord`): `rfbShutdownServer` frees the record its
  iterator stands on, and `rfbClientIteratorNext` then reads its `next` and lowers its
  count (main.c:1064).  ChangeLog:1519 promises that records are kept until their count
  is 0; the code waits for that only with a background loop, which the app has not.
- `MCDirtyRectStride` (`MarkedIffChanged`): `compare()` ends after `mHeight * width`
  words (vncserver.cpp:315) although the rows are a stride apart.  Where the allocator
  pads rows, changes in the last ones go unnoticed.
- `MCScreenShareRotation` (`PictureFitsRotation`): the binder arrives while the activity is
  hidden in landscape; back in portrait there is no configuration change and the picture
  stays scaled (MainActivity.java:112).
- `MCRfbUpdateCursor` (`CursorPutUp`): a client that withdraws cursor shapes sees no cursor
  until the area under it changes; rfbserver.c:2743 says "make sure it's put up".
- `MCRfbRegionEmpty` (`UpdateRectsValid`): a request of width 0 passes the clipping
  (rfbserver.c:868) and the update is sent with rectangles that have no pixels.
- `MCEncodingSplitEmpty` (`AnnouncedExact`): rfb/rfbproto.h:543 has an update "followed by
  nRects rectangles", but for a rectangle without lines Zlib and Ultra announce one
  (rfbserver.c:2949, 2964) and send none (zlib.c:282), and so does Tight if it is wide.
  For one without width they divide by zero (zlib.c:276); on arm64, the only platform
  the app is built for (app/build.gradle:24), the quotient is 0 and the loop sends
  rectangles without lines until the connection ends.
- `MCRfbScaleUntold` (`NoUntoldPixels`): a client scales and then lists its encodings without
  NewFBSize before the announcement is sent.  `useNewFBSize` is reset (rfbserver.c:2087),
  `newFBSizePending` is not, and neither rfbserver.c:2724 nor `FB_UPDATE_PENDING`
  (rfb/rfb.h:710) sends it any more: the client is sent pixels of a size it was not told,
  although rfbserver.c:2720 wants the change announced and nothing else, and scale.c:393
  uses NewFBSize only "if the client supports" it.

Seen while reading: `rfbScreenCleanup` is never called, so each start of the server
leaks its screen; a record whose socket cannot be set up is leaked too.

## 5. Proofs

Eight modules hold the theorems, each about the modules it extends, for every value of the constants that
satisfies the named assumptions of that module.  For each component an inductive
invariant (`IInv`, checked with TLC before it was proved) holds initially, is preserved by
every action (one lemma or step per action) and implies the properties.

| Property of a run | Theorem | Property of a run | Theorem |
|---|---|---|---|
| `NoTearing` | `NeverTears` | `SelectWatches` | `SelectWatchesAll` |
| `LockDiscipline` | `LocksPaired` | `NeverBlocks` | `WorkerNeverBlocks` |
| `NewestKept` | `NewestIsKept` | `EventsSpec` | `EventsArePromised` |
| `ClientsUpToDate` | `ClientsAreUpToDate` | `InSync` | `SidesStayInSync` |
| `MailboxSpec` | `PipelineIsMailbox` | `NoMutualWait` | `NobodyWaitsForTheOther` |
| `MarkedIffChanged` | `MarkedExactlyIfChanged` (*packed*) | `NoLostChange` | `NoChangeIsLost` |
| `CoveredButEdges` | `CoversAllButEdges` (*packed*) | `NoGhostCursor` | `NoCursorStaysBehind` |
| `RendererHasBuffers` | `RendererAlwaysHasBuffers` | `RefCountExact` | `CountsAreExact` |
| `CrashOnlyAfterDestroy` | `CrashesOnlyAfterDestroy` | `CopyCurrent` | `CopiesAreCurrent` |
| `ProjectingWhileConnected` | `ProjectsWhileConnected` (*one viewer*) | `SizeAnnounced` | `SizesAreAnnounced` |
| `SettingsRestored` | `SettingsAreRestored` (*one viewer*) | `ListWellFormed` | `ListStaysWellFormed` |
| `OffWillStop` | `OffAlwaysStops` | `WorkerOnLiveRecord` | `WorkerIsOnLiveRecord` |
| `NoStaleService` | `ReferenceIsNeverStale` | `RotationPassedOn` | `RotationIsPassedOn` |
| `ServiceSpec` | `DrivesTheService` | `SentExactlyOnce` | `EachPixelOnce` |
| `AnnouncedUnlessEmpty` | `AsManyAsAnnounced` | `SolidIsSolid` | `SolidAreasAreSolid` |
| `SetSemantics` | `RegionIsItsSet` | `SpansOrdered` | `RegionSpansInOrder` |

Besides, the type invariant of each of these components; `NothingIsLeaked`,
`NothingLeftBehind`, `CursorIsAnnounced`, `TightBufferSuffices` and `RegionBBoxCovers` for properties that no listed run checks; and that each inductive
invariant holds (`Invariance`, `AlwaysIInv`, `Invariant`, `RegionInvariant`).

**FramePipeline**, for any set of clients and any `MaxFrames`.  `IInv` consists of
the type invariant and

- `Roles`: no buffer plays two roles (hence no tearing);
- `Pointers`: `mVncBuffer`, `mCmpBuffer` and `mGlBuffer`, which are cached outside
  `mLock`, agree with the roles;
- `Control`, `Stopped`: which positions of the two threads go together;
- `LockDiscipline`;
- `Contents`, `Newest`: only the producer's buffer is ever incomplete, and where
  the newest picture is.  The point is the pending notification: a taken picture
  can leave the served buffer only by the one take that may still be outstanding;
- `Served`, `ClientsUpToDate`: between the take and the mark the compare buffer is
  what an up-to-date client has.

`NoTearing` alone is not inductive: it needs `Roles` and `Pointers`.
`NewestKept` needs the number of outstanding notifications, `ClientsUpToDate`
needs that the compare buffer is out of the renderer's reach.

**DirtyRect**, for pictures of any size up to the 9999 that `DEFAULT_MIN` allows and
any set of differing words.  The key fact is `Ahead`: before the first difference
`j * Width + i` is the buffers' offset, after it the counters are ahead by exactly a
row or a row and a word, whatever is skipped.  So a word is recorded in its own column
or in the next one, which for the last column is column 0 of the next row.  `TypeInv`
says this and that the bounds are unset or a rectangle; it holds for every stride.
`LookInv` adds that the bounds have every difference passed so far, up to the margin,
but for the last column and the bottom after the shortcut.  It needs the hypothesis
`Packed` (`Stride = Width`): with padded rows both properties are false, which
`MCDirtyRectStride` shows.

**ProjectionService**, for any set of clients, any settings and any length of the
queue.  The first invariant is about the order of messages: CREATE and BIND come
together and to a service that is not there (`Together`), only a DESTROY and events
can follow them (`ServiceInOrder`), the last request agrees with what is queued (`Asked`),
and nobody posts events unless a worker runs (`ServiceServing`).  It gives
`RendererHasBuffers` and the crash property, neither of which is inductive since both
depend on what is still queued.  The second, `OneInv`, is about what the queued events
will do: there is a sequence of views, "shown" or "hidden", before and after every
queued message, which each message turns as it should, beginning with the state of
the service and ending with whether a client is connected now.  It needs the hypothesis
`OneViewer` (`Clients` has at most one element, who may come and go for ever): with two
clients at a time the properties are false, which `service_shared` shows.

**ScreenShare**, for any rotations, clients, number of permission requests and length of
the queue.  `ServiceMessages`, the messages for the service that are in a queue, is a
recursive function.  Its equation and what it does to the first message, to the last and
to a concatenation are proved by induction over the length of the queue: the least length
for which a fact fails leads to a contradiction, since `<` is well-founded.  `HavePlaces`
says that it picks the messages for the service in their order.  With `In` (a message is
queued) and `NoneBehind` (nothing of a set stands behind it) the invariant states the
order of the messages (`InOrder`), where the service is in its life (`Life`), that it is
wanted or will be destroyed (`Wanted`), that the activity is told exactly once of every
service it has bound (`Heard`), and that what is bound is wanted by an activity that is
there (`Binding`).  `Heard` is the point: a permission granted while an unbound service runs
sends the binder at once, which is right only because nothing of `CREATE` and `BIND` can
stand behind that `GRANTED`.  The refinement follows action by action; with it the theorems
about `ProjectionService` hold of the composed system, the queue reduced to the service's
messages.

**RfbClients**, for any set of records and any finite set of descriptors, with and
without IPv6.  Reachability along the list is no first-order notion; the invariant
says instead that there is a rank of the records that grows along `next` and leaves
out no live record (`Ordered`).  A new head gets rank 0.  `Ahead`, the records whose
rank is not below the iterator's, are those that a scan has still to visit: this is
what `NeverBlocks` (what `select` reported is still true when the scan comes to it) and
`ClosedAreCollected` depend on.  `Sockets` relates descriptors, owners and `allFds`.
`ListWellFormed` and the refinement of `ClientEvents` follow.  That `maxFd` is the
highest open descriptor after a close is proved from the well-foundedness of `<`.

**RfbHandshake**, for any clients and any minor versions.  For each client: what it
has under way to the server is a prefix of its script for the server's state
(`Readable`), what is under way to it is what it awaits (`Receivable`), also when the
other side has left; and while both are there it is somebody's turn (`Turn`):
`ClientsTurn`, `ServersTurn` or `Up`.  `InSync` follows from the first two,
`NoMutualWait` from the third; neither is inductive without the exact pairs of states
that `Turn` lists, the Mac's skipped message included.

**RfbUpdate**, for any size of screen and cursor (the cursor smaller than the screen,
as the app's is) and any width of the protocol's integers that the screen fits in.
`PaintWithinCursor` is needed for `NoGhostCursor`: what is painted lies where
`rfbRedrawAfterHideCursor` marks.  `OnceUnsent` is needed for the one-time messages.
`OnceAssumption` says that these are not among the messages modelled by flags of
their own.

**RfbRegion**, for any size of screen and any number of operations, with rectangles of
width or height 0 (`MinSide = 0`) as without.  `RegionInv` says

- `Regions`: a region is a list of rows in order, whose subspans are non-empty lists of
  columns in order;
- `RegionCalls`: nothing is under way (`Idle`), or the loop on the rows (`Outer`), or
  with it the loop on the columns of the two current rows (`Inner`).  Of each loop,
  `Computes`: a point is in the result of the operation exactly if it is in `done` or in
  what the operation makes of `rest` and `src`.  `LoopOK` gives the order of the lists
  before an iteration, `SplitOK` after the split, when `d_curr` lies within `s_curr`; for
  `Or` it adds that what `s_curr` has before `d_curr` has been done (`Ahead`);
- `RegionPixels`: a region has the points of its set.

`SetSemantics` alone is not inductive: it says nothing of a region while it is being
changed, nor of the order that the loops rely on.  The lists of rows and of columns are
treated at once: `In(list, t, u)` says that a span of the list has `t` and its subspans
have `u`, where horizontal spans, which have no subspans, have every `u`.  Merging changes
no point (`MergePreviousIs`, `MergeNextIs`), one lemma per branch of an iteration shows
that the result stays what it is (`OrSplitIs`, `OrJoinIs`, `AndJoinIs`, `SubtractJoinIs`
and others), and `LoopEnds` that in the end it is in what the function leaves.  `Rects` is a
recursive function over the rows; that it exists and what it returns (`RectsAre`) is
proved from the least number of rows for which it fails.

**RfbScale**, for any finite set of clients and any sizes.  `Counted` is
`RefCountExact` for all screens at once, with the references that a failed `SetScale`
loses on the full screen; the proof is about cardinalities when one client moves.
`SizeAnnounced` is inductive once the type invariant is there.

**EncodingSplit**, for every picture, every rectangle in it and every value of the limits.
`LimitsAssumption` asks that they are positive and that a Tight rectangle of full width
has at least the lines of a tile, as every row of `tightConf` has.  `IInv` is `WithPixels`
or `WithoutPixels`.  The latter lists what an empty rectangle can come to: CoRRE cuts it
one limit at a time, Zlib and Ultra send no line at a time, Tight never cuts it, and in each
case the number sent and the calls left are set against what was announced.  `WithPixels`
consists of the type invariant, `FramesOK`, the size and the place each kind of call can have; `Partition`: the rectangles
sent and those of the calls on the stack, sent first, are disjoint parts of the rectangle
of the update and leave nothing out, so that once the stack is empty `SentExactlyOnce`
holds; `Counted`: without LastRect, what has been sent and what `Count*` says of the calls
on the stack add up to what was announced; and `SolidIsSolid`, `FitsTightBuffer`.  A step
replaces the call at the top by calls or rectangles that divide its rectangle; for each
action a lemma shows that they do, and `StepIInv` concludes for the whole stack.
`Counted` needs the arithmetic of `div`: that a loop which takes away `n` at a time makes
`(h - 1) / n + 1` rounds (`LoopCount`, from `Division`), and that a rectangle cut at a
multiple of the limit costs what its parts cost (`CoRRECounts`).  That Tight sends its
areas of one colour as such rests on `BestIsSolid` and `ExtendIsSolid`: the largest of
finitely many candidates exists (`GreatestExists`), what is added on a side has the
colour, and the parts around the area are rectangles or nothing (`AroundIsReady`).

**Model-checked only.**

- Liveness (`Terminates`, `FrameConsumed`, `StopReturns`, `UpdateDelivered`,
  `ViewerIsServed`, `LeaverReported`, `OpeningEnds`, `PictureCatchesUp`): the prover does
  not handle fairness.
- That the loop of `FindBestSolidArea` returns what it is modelled by (`BestAsTheLoop`), and
  that the stacks of `EncodingSplit` and `RfbRegion` become empty.

## 6. Not modelled

- **libpng, libjpeg-turbo, zlib's and minilzo's code**: vendored, unchanged, sequential
  transformations of bytes.  They make up most of the lines in this repository; what
  they compute is not a matter of states a model checker could explore.
- **Byte formats of the encoders**, translation of pixel formats, palettes: a model
  would have to repeat the code byte by byte.  Only the cutting into rectangles, where
  encoder and announcement must agree, is modelled.
- **Parts of libvncserver the app does not use or that are compiled but never reached**:
  background loop, password and TLS authentication, web sockets, httpd, file transfer
  (off by default), text chat, UDP, reverse connections, CopyRect, keyboard LEDs.
- **Which pixels a part of a scaled copy is blended from** (`rfbScaledScreenUpdateRect`).
- Shaders, matrices, EGL set-up; what pointer and keyboard events contain (the app's
  listeners ignore them); preferences; the foreground notification.
- Failures of the graphics stack other than allocation (`AHardwareBuffer_lock`, `bind`).
- Encoders that fail without a write error: `SendFails` of `RfbUpdate` always closes the
  client, as a failing write does; an encoder that runs out of memory only makes
  `rfbSendFramebufferUpdate` return FALSE (rfbserver.c:3152).
- What drawing the cursor does to a buffer that is mapped for reading only.

## 7. Plan

1. Done: `BufferManager`, `FramePipeline`, `FrameMailbox` with proofs; `DirtyRect`;
   `ProjectionService`, `ScreenShare`; `RfbClients`, `ClientEvents`, `RfbHandshake`,
   `RfbRegion`, `RfbUpdate`, `RfbScale`, `EncodingSplit`.
2. Done: proofs about `FramePipeline`, `DirtyRect`, `ProjectionService`, `ScreenShare`,
   `RfbClients`, `RfbHandshake`, `RfbRegion`, `RfbUpdate`, `RfbScale` and `EncodingSplit`.
3. Open: what section 5 lists as model-checked only, and what section 6 leaves out.
