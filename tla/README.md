# Specifications of srvfb

TLA+ models of [srvfb](../src/README.md), the TLC configurations that check
them and TLAPS proofs about them. Line numbers are those of `src/srvfb.go`
unless another file is named.

## The system

`srvfb -device` serves the framebuffer of a reMarkable tablet over HTTP;
`srvfb -proxy` serves the framebuffer of another srvfb.

| Component | State | Operations | Interacts with |
|---|---|---|---|
| Idle-timeout listener (497-558) | `active`, the deadline of the TCP listener, `acceptMu`, one `sync.Once` per connection | `Accept`, `conn.Close` | the accept loop and the connection goroutines of `net/http`; `errIdle` ends the process in `run` (99-103) |
| Video streaming (214-266) | frame buffer `im`, a `deduper`, the multipart response | read, skip and sleep, or create a part and encode, in a loop | a reader (framebuffer or proxy), the browser |
| Raw streaming (145-212) | the same | raw header, first frame, then read, skip, or write, in a loop | framebuffer, the proxy's HTTP client |
| Proxy client (389-471) | multipart reader, geometry from the header | `dialProxy`, `readHdr`, `readImage`, `close` | the device's raw stream |
| Deduper (473-495) | hashes `h1`, `h2` of the frames sent last | `skip` | both handlers, one each |
| Framebuffer (`internal/fb/fb.go`) | the mapping, the mode | `Open`, `VarScreeninfo`, `Image`, `Close`; `readImage` (368-387) copies | processes that draw, without any lock |
| Start-up (46-104, 560-605, `contrib/`) | listener, device, environment of socket activation | `init`, `run`, `main` | systemd |
| Routing, index page, download (111-133, 268-366) | none | `ServeHTTP`, `serveIndex`, `serveImage` | the above |
| PNG encoder and decoder (`internal/png`) | error, chunk stage, filter rows, palette | `Encode`, `Decode` and what they call | the handlers (encoder only) |

What is hard here:

* `Accept`, any number of `Close` calls and the clock interleave; the counter
  and the deadline are two pieces of state that no common lock protects.
* A frame passes a memory mapping that others write to, one or two dedupers,
  one or two TCP connections, a multipart reader that needs the next boundary,
  and a browser that displays a part when the next one arrives. Nobody
  acknowledges anything.
* Readers leave or vanish, the device fails or goes down; a handler learns of a
  reader's end only by writing, and drops the first error it gets.
* An idle exit must not lose a client: systemd's socket outlives the process.
* Geometry is read in three places at three times: the line length in `Open`,
  the rectangle with every frame, the raw header once per stream.
* The encoder and the decoder have their own tables, loops and shortcuts (sums
  that stop early, buffers that are used again, passes without pixels), which
  must agree with each other and with the PNG standard.
* The encoder's writer may fail in any call, and one of the errors is dropped;
  the decoder gets chunks in any order and pixels cut into IDAT chunks anywhere.

What makes each component correct: the listener counts exactly, has a timer
whenever it is idle and ends the process only when it is; a handler skips only
what its browser will display, and a screen at rest ends up on display; the two
ends of a proxied stream end with each other; a client that waits is served by
this process or the next; a picture consists of whole lines of the framebuffer,
those that the display shows; Encode returns nil for complete files only, and
what it has written decodes to the same pixels; Decode returns an image for
complete files only, and the one the standard says.

## Modules

| Module | Models | Used by |
|---|---|---|
| `Listener` | listener and conn with the accept loop | `Activation`, `ListenerProofs`, a run of its own |
| `Activation` | `init`, `run`, the systemd units, one process after another | `MCActivation`, `ListenerProofs` |
| `Framebuffer` | the mapping, drawing and torn copies | `DirectVideo`, `RawHandler` |
| `Deduper` | `deduper.skip` | `VideoHandler`, `RawHandler` |
| `Response` | a multipart response over net/http and TCP (external) | `VideoHandler`, `RawHandler` |
| `VideoHandler` | `serveVideo` and the browser, for any reader | `DirectVideo`, `ProxyVideo`, `VideoHandlerProofs` |
| `DirectVideo` | `serveVideo` on the local framebuffer | `MCDirectVideo`, `DirectVideoProofs` |
| `RawHandler` | `serveRaw` | `ProxyVideo` |
| `ProxyVideo` | `serveRaw`, the proxy client and `serveVideo` together | `MCProxyVideo`, `Server`, `ProxyVideoProofs` |
| `Server` | `ServeHTTP`, `serveImage` and all of `ProxyVideo`, in a proxy | `MCServer`, `ProxyVideoProofs` |
| `Geometry` | `Device.Image`, slices, raw header, the rows the encoder takes | `MCGeometry`, `GeometryProofs` |
| `PngFilter` | `paeth`, the filters, `filter`'s choice | `PngRows` |
| `PngRows` | rows through `writeImage` and `readImagePass` | `MCPngRows`, `PngRowsProofs` |
| `ColorTypes`, `PngFormat` | formats and their tables; the standard's samples | `PngPixels`, `PngEncoder`, `PngDecoder` |
| `Adam7` | passes and `mergePassInto`; the standard's pattern | `PngPixels` |
| `PngPixels` | pixels into bytes (`writeImage`) and back (`decode`) | `MCPngPixels`, `PngPixelsProofs` |
| `PngFile` | what `Encode` promises of its file (abstract) | `PngEncoder` |
| `PngEncoder` | `Encode`, chunks, buffers, errors; implements `PngFile` | `PngTransfer` |
| `PngDecoder` | `Decode`, `DecodeConfig`, chunks, the reader below zlib | `PngTransfer` |
| `PngTransfer` | encoder and decoder on one file, or the decoder on any other | `MCPngTransfer`, `PngTransferProofs` |

### Listener and Activation

One action per atomic operation. `Accept` is AcceptLock (524), AcceptLoad and
AcceptClock and AcceptArm (527-528: load the counter, compute a deadline, set
it), AcceptEnter and AcceptTake (530), AcceptCount and AcceptDisarm (532-533),
AcceptReturn, AcceptIdle and AcceptFail (534-542, with http.Serve's retry of
temporary errors). `conn.Close` is CloseFirst or CloseAgain (552-553, inside and
outside the `sync.Once`), CloseClock and CloseArm (554), CloseSocket (557).
Connections are dialled, queued by the kernel, accepted, counted, open, closing
(their Once is at work) and closed.

Time is relative: a deadline is the number of ticks left. Computing a deadline
and setting it are two steps, and ticks may pass in between. `quiet`,
`overtaken` and `tainted` are history variables: ticks without a connection in
use, closers whose decrement to zero an `AcceptCount` has overtaken, and whether
the current deadline comes from one of them.

`Activation` adds the processes: when one has ended, its connections are gone
and the queue is the socket's; a client may join it (`DialSocket`); systemd
starts the next one if a client waits or if the last has failed
(`Restart=on-failure`), which gets to `http.Serve` if `run`'s checks hold
(`Runs`, 59-86) and nothing else fails, or fails again. After `MaxStarts`
failures systemd gives up.

### Streams

A frame is a value; its pixels, its byte order and its PNG coding do not matter
to the properties of these modules. `Framebuffer` splits `readImage` into its
begin and its end: when somebody draws in between, the copy may hold any frame.
`Response` holds what was written and not read (`wire`), the state of the reader
and the sticky error of the response writer; a write to a reader that has gone
succeeds until the kernel has seen a reset. `VideoHandler` has one action per
step of the loop: Got (250), SkipFrame, KeepFrame and Wake (254-257), CreatePart
(258-262), Send (263-264: Encode and Flush, whose errors are dropped), and
Receive for the browser, which displays a part when the next one arrives
(comment at 473-476).

`RawHandler` has the same steps for `serveRaw`, whose first frame passes by the
deduper (153-188) and whose `Write` reports its own errors (205-209), and which
does not sleep. In `ProxyVideo` the reader of `VideoHandler` takes parts off the
raw stream. `multipart.Part.Close`, deferred in `readHdr` and `readImage` (427,
461), reads up to the next boundary, which serveRaw writes in front of the next
frame: a part is complete (`PartComplete`) when the next has begun or the
stream has ended.

Errors of a raw `Write` end `serveRaw` at once, or, for a frame that fits into
the response's buffer, at the next `CreatePart`: `RawWrite` allows both.

`Server` puts a request in front: everything but `/video` and `/download` is
answered at once, `/raw` with 501 (122-126). `serveImage` shares `dialProxy` and
`readImage` with `serveVideo` and needs one frame. `DialChained` is a proxy of a
proxy, which gets that 501 instead of a stream.

### Geometry

Lengths are in words of 16 bits, and a word of the mapping stands for its
content, so that a picture is a function from positions to words. `Init` is
`Open`, which reads the line length once; `SetMode` is any other process. Each
`RawFrame` takes the rectangle of the mode now and slices with the line length
of then; the first one makes the header too. `ReadHdr` and `ReadImage` are the
proxy: a larger frame is cut off, a smaller one is an error. Slices out of range
panic (`RawPanic`), which net/http turns into the end of the connection.
`Encoded` is what the encoder reads of a Gray16 image. `GeometryAssumption` says
what a display driver reports: the visible part inside the virtual one, the
virtual one in the memory, lines that the header's 16 bits hold.

### PNG

Four views of one file format, each with the detail its properties need.

* `PngRows`: bytes of rows. `EncodeRow` is a turn of `writeImage`'s loop, with
  `filter` as `Chosen`, whose buffers keep bytes of earlier rows (`Stale`) behind
  the one where a loop breaks. The decoder goes byte by byte, in place, as
  `readImagePass` and `filterPaeth` do.
* `PngPixels`: pixels and bytes of every format, without the filters. `PackIndex`,
  `PackSamples` and `PackEnd` are the writer's loops, `UnpackBits`, `UnpackBytes`
  and `Keyed` the reader's. The images that are encoded are the constant
  `Images`. Files of other programs (`InitForeign`) have any format, interlacing
  and transparent color, and the bytes of the constant `Byte`. The standard is
  stated apart, in `PngFormat` (samples of a scanline), `Adam7` (the 8 by 8
  pattern) and `Foreign` (the order of the rows).
* `PngEncoder`: chunks, the three writes of each (`writeChunk`), `e.err`, zlib's
  and bufio's buffers and the latter's own error. Compressed data is a sequence
  of units, numbered: zlib's header is 0, then the rows, then the end. `PngFile`
  says which chunk may follow which and which units an IDAT chunk may hold.
* `PngDecoder`: one action per parse function, `Read` as zlib calls it, and
  `Inflate` for a unit that zlib hands to `readImagePass` or to the check for EOF
  (395-408). What a file holds shows when it is read, as the actions' parameters.
  `config` is what `DecodeConfig` would have returned by now, `model` what
  `readImagePass` has made: the code names the color models in two tables
  (`ConfigModel`, 1005-1025; `ImageModel`, 440-497), and so does the module.

`PngTransfer` reads what the encoder has written, complete or cut off in the
middle of a chunk, or anything else.

## Runs

| Run | Instance | Shows |
|---|---|---|
| `activation` | 2 connections, 2 acceptors, 2 closers, timeout of 2 ticks, the units' configuration, 1 failed process started again | `TypeOK`, `CounterExact`, `NeverUnarmed`, `ExitJustified`, `IdleEventuallyExits`, `QueuedIsAccepted` |
| `listener_race` | 2 connections, 1 acceptor, 1 closer, timeout of 1 tick | `IdleOnlyWhenAllClosed` is violated |
| `direct` | 3 frames, 2 parts on the wire, every failure | `TypeOK`, `SkipOnlyShown`, `Converges`, `ActiveNoticesGone` |
| `direct_gone` | 3 frames, browsers that leave | `GoneNoticed` is violated |
| `server` | every request, 2 frames, 2 raw parts and 1 part on the wires, every failure | `TypeOK`, `SkipOnlyShown`, `LastPartCurrent`, `EndsWithDevice`, `DeviceReleased`, `DownloadAnswered` |
| `proxy_lag` | a video through a proxy, without failures | `ConvergesViaProxy` is violated |
| `png_rows` | 2 rows of 4 bytes, 2 bytes a pixel, small, middle and large bytes | `TypeOK`, `RoundTrip`, `PicksMinimum` |
| `png_pixels` | all formats, up to 9 by 9 pixels, samples at the limits of each depth; images of two pixels, files of mixed bytes | `TypeOK`, `RowIsPixels`, `SizesAgree`, `ShowsFile`, `RoundTrip`, `WrittenOnce` |
| `png_files` | palettes at the limits of the depths, a color model for every format, 0 to 3 rows, 2 units a buffer; files of up to 6 chunks with headers of every color type and with every fault | `TransferTypeOK`, `AcceptedIsComplete`, `NoPanic`, `ConfigIsImages`, `PlainPaletteCovers`, `FailureIsReturned`, `DecodesIffEncoded`, `SameImage`, `NothingAfterFailure`, `FileSpec`, `Decoded` |
| `png_palette255` | a palette of 255 colors | `PaletteCovers` is violated |
| `geometry` | 24 words as lines of 4 or 6: whole, in part, panned, a size and a depth that are refused | `TypeOK`, `RowsAligned`, `PanicOnlyRotated`, `ShowsVisibleUnpanned` |
| `geometry_offset` | the same | `ShowsVisible` is violated |

Bounds, and why they are enough. Two connections let one be counted while the
other is in Close or in Accept, two closers close the same connection twice or
two at once, and two acceptors need `acceptMu`; two ticks separate a fresh
deadline, one that has run for a while and one that has expired; `MaxUint`
exceeds the number of connections, so a decrement below zero would be seen; more
connections are the proofs' matter. `MaxFails` bounds only how many temporary
accept errors are retried. Two frames are needed to tell a current frame from an
old one, a third to change the picture while a copy of the old one is under way;
two raw parts are what a part and the next boundary take, and more room only
delays what happens. `Failures` names what may go wrong in an instance.

Two rows are a first one, above which there are zeros, and one with a row above;
two pixels of two bytes have all neighbours that a filter looks at; the proofs
take the rest. Widths 1, 3, 8 and 9 fill the bytes of a row at no, some and all
depths; 9 by 9 is more than one block of Adam7, and the smaller sizes leave out
one pass after the other. Six chunks are one of each kind and one more, a buffer
of two units is cut and not cut by IDAT chunks of 0, 1 and 3 units. Every color
type at 8 and 16 bits, grayscale at 2 and palettes meet every row of the two
tables of color models. Palettes of 1 to 5 and 15 entries, and indices in them,
at their end and beyond it, meet every comparison that does not name 255;
`png_palette255` is that one.

Deadlock is checked in `png_rows`, which goes on with another image for ever.
The other systems may stop: a process has ended, a handler is done, a file is
decoded.

Fairness. Each module asks for weak fairness of the steps that the Go scheduler,
the clock, a reading browser or the kernel will take (the handlers' steps,
`Tick`, `Receive`, `Reset`). No fairness is assumed of clients dialling, handlers
closing, accepts failing, drawing, leaving or any failure. `ActivationSpec` also
asks for strong fairness of arming in time, of entering accept and of taking a
given connection: a process that exits while a client waits is started again,
and with an idle timeout of a minute one of them gets from `time.Now` to
`accept` before its deadline; the socket's queue is first in, first out. Without
it processes could exit one after the other between these steps. `PngTransfer`
is sequential; its fairness says that it goes on.

Each property of a passing run has a mutant of the code that violates it
(`PROJECT.json`); the mutants' definitions stand in front of the definitions
they change.

## What the runs found

* **Premature idle exit** (`listener_race`). `Close` decrements to zero; an
  `Accept` counts a new connection and clears the deadline; `Close` sets its
  deadline. The server exits with a connection open. `ExitJustified` says that
  this overtaking is the only way.
* **A browser that leaves a screen at rest is never noticed** (`direct_gone`).
  The handler neither writes nor looks at the request's context, and its
  connection keeps the listener disarmed.
* **One frame behind a proxy** (`proxy_lag`). The deduper sends the last frame
  twice because the browser lags one part; the proxy's reader holds back one of
  the two. `LastPartCurrent` shows that the frame does arrive, as the last part.
* **A palette of 255 colors** (`png_palette255`, `reader.go:712`). The comparison
  that skips the extension of the palette names the wrong length: index 255 of
  such an image is out of range.
* **Panned screens** (`geometry_offset`, `fb.go:79`). The size is passed as a
  corner, and `Pix` starts with the mapping. With an offset the picture is empty
  or of the wrong lines, and the direct one differs from the proxied one.
  `ShowsVisibleUnpanned` holds for the screens that nobody pans.

Seen while modelling, without a run of their own: a first frame with FNV-1a
checksum 0 is skipped (477-490), since a new deduper holds two zeros; a truecolor
file with both PLTE and tRNS is refused (`reader.go:891`), though the standard
has them in this order; an error of the reader in the last IDAT chunk comes back
as a `FormatError` (`reader.go:403`); the palettes that the passes of an
interlaced image extend are dropped, so that `PlainPaletteCovers` leaves them
out.

## Proofs

`ListenerProofs` proves `TypeOK`, `CounterExact`, `NeverUnarmed` and
`ExitJustified` for every finite set of connections, all sets of goroutines and
every positive timeout. Assumption: no more connections than a uint32 counts.
None of the three is inductive. The invariant `IInv` adds, in layers, who holds
`acceptMu` and which connection is in whose hands (`Ownership`: `got` and
`kconn` follow the positions, a connection in its Once has one closer), then the
exact counter (so that "the counter is zero" means "nothing is counted"), and on
these the facts about deadlines (`Deadlines`): an acceptor that has read zero
finds nothing in use until it has armed, because only the holder of the lock
takes connections; a closer that is not overtaken still finds a zero counter; a
counted connection keeps the listener disarmed unless an overtaken closer arms
it; no deadline, set or computed, comes before a full timeout. One step per
action. `ServiceCorrect` takes them to the service, one process after another:
the next process begins as `Init` says, except that the socket's queue is that
of the one before, and `IInv` does not mind connections in the queue.

`VideoHandlerProofs` proves once, for any reader, that the deduper remembers the
last two parts written (or, between keeping and sending, the last part and the
frame in hand): `Remembered`. `DirectVideoProofs` and `ProxyVideoProofs` apply it
to the two readers and prove `TypeOK` and `SkipOnlyShown` for every set of
frames, every buffer size and all failures. `SkipOnlyShown` is proved under
`NoCollision`: checksums are not zero and differ for different frames. For the
proxy, `RawStream` shows that the raw header is the first part and that only
`readHdr` takes it, so that what `readImage` returns is a frame. `ServerInv`
takes both theorems to the whole proxy: it is the same invariant but for a
download that is done, which has written its frame without asking the deduper.

`PngRowsProofs` proves that every decoded row is the encoded one, for every
image, row length and pixel size, and however encoder and decoder interleave.
`PaethIsStandard` shows that the optimized predictor is that of the standard.
`ChosenComplete` is about `filter`: the buffer of the filter it ends with holds
the whole row, since a loop that breaks early has lost. `IInv` says what is on
the stream (each row filtered against the one above it) and how far the
decoder's loops are: the bytes passed are the image's, the others still the
filtered ones (`RowInv`), and in `filterPaeth` `a` and `c` are the bytes to the
left (`LoopInv`; channel by channel, hence the arithmetic of remainders).
`FilterPicksMinimum` is the comment at `writer.go:207`: sums never shrink, so a
loop that breaks has a sum at the end that is no better either (`TryLeast`). The
sums are a recursive function. That it exists, and that it grows, is proved by
induction over a set: a set of numbers that is not all of `Nat` lacks a least
one, since `<` is well-founded (`SetInduction`).

`PngPixelsProofs` proves all six properties of `PngPixels`, for images of every
size and with any samples, and for files of other programs with any bytes, in
all formats; samples of 16 bits are the only assumption but for sizes above
zero. The inductive invariant `PicturesInv` has a part for each thing that could
go wrong, and each part is proved over the whole of `Next` from the ones before:

* `ImageInv`: only pixels of earlier passes are written. The table and the sizes
  in `reader.go` and the standard's 8 by 8 pattern name the same pixels
  (`PassIsMember`, `PassColumns`), so that every pixel of an image comes from
  exactly one place of one pass (`PassesPartition`), and `mergePassInto` writes
  none twice (`PixelsWrittenOnce`).
* `EncoderInv`: the rows in the file have the samples of their pixels, and the
  row in the making has those of the pixels done, in its bytes and in the bits in
  hand; from it follow `RowIsPixels` and that no stale byte is left.
* `FormatInv`: `dcb` is the format of the file, and `transparent` the bytes of its
  tRNS chunk, scaled modulo 256.
* `OrderInv`: the rows read are those of the passes and lines that the reader has
  behind it (`Gone`). The number of a row in another program's file is the number
  of rows before it in the standard's order, hence lemmas about cardinalities;
  with the sizes of a row in the three tables this gives `SizesAgree`.
* `OutInv`: the pixels of the row in hand are those that the standard sees in its
  bytes, and `b` has the bits that are left. `ShiftOut` is the shift register:
  what is shifted out of a byte are its digits, at every depth.
* `PixInv`: the pixels of the pass and of the image are the standard's, which is
  `ShowsFile` when the last pass is merged. `RoundTrip` joins it to `EncoderInv`.

The types (`TypeInv`) come last. The provers do not compute powers of two:
`PowerSum` and its like are proved by induction over sets (`SetInduction`).

`PngTransferProofs` has three parts. The first is the encoder: `Encode` returns a
failed write and calls the writer no more, for every image and buffer. The
failure is in `e.err`, but between zlib's Close, whose error is dropped, and
Flush only in the bufio.Writer (`ErrorInv`). `EncoderImplementsFile` shows that
it implements `PngFile`: the units in the file, in the bufio.Writer and in zlib
follow each other at every step (`Contiguous`), so that each call of `writeChunk`
is a `Write` of the abstract file, with as many parts as the writer took, and
the return is the abstract `Return`: nil for a complete file only.

The second is the decoder, on every file and with every error of its reader. Its
invariant (`DecoderInv`) says where in a chunk it is for each stage (`StageInv`),
which chunks it has seen (`SeenInv`), and how rows, lengths and palette have come
about. From it follow `NoPanic` (the stages let `parsetRNS` run once and only
after colors without alpha), `AcceptedIsComplete`, `ConfigIsImages` and
`PlainPaletteCovers`. For `ConfigIsImages` the two tables are compared row by row
(`Tables`), `ConfigInv` says what may have happened to the header and the palette
since `DecodeConfig` returned, and `ImageInv` what the rows have made of them.

The third is the file of an encoder, complete or cut off, in front of the
decoder. `DecodesIffEncoded` and `SameImage` follow from `TransferInv`: the
decoder is always where the file is (`Position`), has from it what the image has
(`Contents`), and so meets no chunk, length, unit or checksum that it rejects;
only the end of the file can stop it, and it is not there if `Encode` has
returned nil. The lengths of palettes at each depth are powers of two, which the
provers do not compute: they come from the number of subsets of a finite set
(`Powers`). That the model of what is decoded has the format of what was encoded
is `SameFormat`.

`GeometryProofs` proves `TypeOK`, `RowsAligned` and `PanicOnlyRotated` for every
memory size, every set of modes that a driver may report and all changes between
them: header and frames are whole lines of the length that `Open` has read, and
what the proxy has accepted is as long as its header says (`IInv`).

`UnpannedIsShown` proves `ShowsVisibleUnpanned`: in a mode without an offset and
with the line length of `Open`, both pictures are the visible part of the memory.

Only model-checked: all liveness properties (`IdleEventuallyExits`,
`QueuedIsAccepted`, `Converges`, `ActiveNoticesGone`, `LastPartCurrent`,
`EndsWithDevice`, `DeviceReleased`, `DownloadAnswered`, `Decoded`; the prover has
no fairness). Every invariant that a passing run checks is proved.

`PlainPaletteCovers` is what the proof left of a stronger one. That had excepted
files with 255 colors; but it is the image's palette that must not have 255
entries, since a shorter one that index 254 has extended is hit too.

## Not modelled

* `ctypes.go` and `types_*.go` are generated and have no behaviour.
* The index page's script runs in the browser; the page itself is a constant.
* The download on the device is one read and one encoding, without a wait.
* `Device.Close` has no caller; the system calls of `Open` only succeed or fail.
* Names of file descriptors, log messages and the texts of errors.
* zlib itself (its header, its window, its levels), CRC-32 and FNV-1a: they are
  right or wrong, equal or different.
* Alpha that is premultiplied, and conversions between color models
  (`writer.go:382-412`, `455-475`): image/color's work. `PngPixels` starts from
  the samples.
* Sizes of 2^31 and more (`reader.go:164-176`, `356`, `916`; `writer.go:100`,
  `576`), which no instance can reach.

Left for later: an abstract display that `DirectVideo` and, with a lag of one part,
`ProxyVideo` implement.
