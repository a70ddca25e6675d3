# A TLA+ model of MLVFS

MLVFS is a FUSE file system (on Windows a Pismo File Mount marshaller) that
shows every Magic Lantern Video recording (`.MLV`) of a directory as a directory
of developed frames: `<clip>_000000.dng` ..., `<clip>.wav`, `<clip>.log` and
`_PREVIEW.gif`. A file written into such a directory lands in a real directory
`<clip>.MLD` next to the clip. A small web server changes the processing options
while the file system runs and asks for previews.

The modules here model the parts of the program that keep state, run on several
threads or write to the disk, and the algorithms that work on the samples of a frame.
TLC checks them on small instances. For all values of the constants TLAPS proves what
makes these parts correct: the image buffer cache, with the refinement of its abstract
specification; the making of an index, the index file, and the headers, frames, sound and preview that are read along an index; the
structures that threads share while they develop frames; the names of the mount and the files kept under them; the tree of the Windows
volume; and the bytes of its temporary files.

## The system

`main.c` registers the handlers of `mlvfs_filesystem_operations` with FUSE, which
calls them from a pool of worker threads (`fuse_main`, no `-s`). One more thread
polls mongoose (`webgui_run`) and calls into the same caches when the page shows
a preview. There is no journal and no database: what survives a restart is the
disk (`.MLV` chunks, `.IDX`, `.MLD` directories).

| component | source (`src/mlvfs/`) | state | operations | model |
|---|---|---|---|---|
| image buffer cache | `resource_manager.c` 24-316, `main.c`, `webgui.c` | linked list of developed frames, `in_use`, counter, a mutex for the list and one in each buffer | get or create (with cleanup), release by path or pointer | `ImageBuffers`, `FrameCache`, `ImageBuffersProofs` |
| developing a frame | `main.c` 908-1010, `hdr.c`, `webgui.c` 298-336 | options, static tables of `hdr.c` with and without a mutex | `process_frame` from beginning to end, set a value | `ProcessFrame`, `ProcessFrameProofs` |
| stripe correction | `stripes.c`, `main.c` | global list of corrections by clip, no lock | get, new, compute, apply | `Stripes` in `ProcessFrame`, `ProcessFrameProofs` |
| pixel maps | `cs.c` 176-460 | ring of 8 bad pixel maps, growing array of focus pixel maps, no lock | find or fill, load or remember a miss | `PixelMaps` in `ProcessFrame`, `ProcessFrameProofs` |
| index file | `index.c` | `.IDX` file beside the clip, no lock | load, save, force, get, count frames | `IndexFile`, `IndexFileProofs` |
| virtual paths and the disk below | `main.c`, `resource_manager.c` 319-390 | the directory tree, `name_scheme`, the attributes registered for clips | resolve, getattr, readdir, create, mkdir, open/write/truncate, unlink, rmdir, rename | `Overlay`, `OverlayProofs` |
| Windows volume: tree | `win/mlvfs-pfm.cpp` | files, sibling pointers, open list, open enumerations | open, create, replace, move, delete, close, list | `PfmVolume`, `PfmVolumeProofs` |
| Windows volume: bytes | `win/mlvfs-pfm.cpp` | block list and size of temporary files, used capacity | read, write, set size | `PfmFile`, `ByteFile`, `PfmFileProofs` |
| making an index, frame headers | `index.c`, `main.c` 429-567 | the table of blocks while it is made | scan the chunks, sort, count frames, headers of the n-th frame | `Clip`, `ClipReads`, `ClipProofs` |
| sound | `wav.c` | none | size, bytes of a range | `ClipReads`, `ClipProofs` |
| image data, preview | `main.c`, `dng.c`, `gif.c` | none | unpack a frame, bytes of a range of a `.dng`, write a preview | `FrameReads`, `ClipProofs` |
| lossless JPEG | `lj92.c`, `main.c` 617-681 | none | encode, decode, untile | `LosslessJpeg` |
| dual ISO | `hdr.c`, `histogram.c` | none (the tables are in `ProcessFrame`) | tell bright rows from dark ones, convert them, make two images | `DualIso`, `DualIsoFields` |
| pixel search and repair | `cs.c` 87-170, 255-331, 465-503 | none | is a pixel bad, of what is it repaired | `PixelRepair` |
| medians | `wirth.h`, `opt_med.h` | none | k-th smallest, median of 5, 9, 25 | `Medians` |
| pattern noise | `patternnoise.c` | none | correct columns, then rows | `PatternNoise` |
| chroma smoothing | `chroma_smooth.c`, `cs.c` 49-84 | none | smooth in windows of 5, 9, 25 | `ChromaSmooth` |
| DNG header | `dng.c` 476-795 | none | directories, data, time code | `DngHeader` |
| shutdown, pages | `webgui.c`, `main.c` | server thread | run, stop, free everything, serve files | not modelled |
| chunk file cache | `resource_manager.c` | open files | only compiled with `KEEP_FILES_OPEN`, which is commented out | not modelled |
| blending of dual ISO, white balance, demosaicing | `hdr.c` 638-912, 1355-1768, `dng.c` 69-474, `amaze_demosaic_RT.c` | none between frames | floating-point arithmetic | not modelled |
| LZMA, mongoose, slre, dokany | vendored | | | not modelled |

### How the parts interact

* `mlvfs_read` of a virtual `.dng` or `.gif` asks the image buffer
  cache for a buffer by path; the cache takes its list mutex, cleans up, creates
  the buffer, gives the list mutex back and then calls `process_frame` (or
  `create_preview`) under the buffer's own mutex.
* `process_frame` loads the chunks of the clip, gets the index (which may write
  the `.IDX` file), reads the frame, decompresses it and runs the corrections: dual ISO, focus pixels,
  bad pixels, chroma smoothing, pattern noise, stripes. Some keep global lists that nothing locks, and two
  frames are developed at once when two FUSE threads read two paths. It reads the options one by one while
  the page (`/set_value`) writes them.
* `mlvfs_release` lowers `in_use` by path; the web thread lowers it by pointer and
  takes no lock.
* Every handler resolves its path first (`mlvfs_resolve_virtual`), and
  `mlvfs_readdir` makes the names up the other way round.
* On Windows the marshaller (`ServeReadWrite`, external) hands `Volume` one request after the
  other, but closes and enumerations arrive between other requests, and a close may have been overtaken
  by another open of the same file.

### What is hard here, and what makes each part correct

| component | hard behaviour | correct when |
|---|---|---|
| image buffers | two mutexes taken in turn, a flag instead of a reference count, release by pointer, eviction during use, production that fails | one buffer for a path, one producer for a buffer, only whole frames are answered, eviction spares what is in use, no deadlock |
| stripes | nodes linked before they are filled in, no lock, list extended through a tail found earlier | one correction for a clip, computed before use, none lost |
| making an index | chunks written in turn, equal times, foreign and broken chunks, a sort that ends its passes early | every block once, in order of time and stable; a frame gets the headers in force |
| image data, preview | samples across word borders, ranges cut out of header and data, a size computed apart from what is written | every range has the right bytes, a preview fits its buffer |
| sound | ranges cut out of blocks of any size | the same bytes in whatever pieces they are read |
| index file | truncate-and-write with no lock, crash between two pieces, clip replaced | a partial file is never taken for an index and is repaired, racing writers leave a whole file |
| paths and disk | two naming schemes, names made up in one place and parsed in another, hidden directories | what is listed is found, one file has one name, what was written stays, recordings survive |
| volume tree | raw sibling pointers, iterators kept over requests, late closes, replace by move | pointers agree, enumerations deliver everything once, no use after free, no leak |
| volume bytes | partial blocks, holes, memory refused in the middle of a write | reads are those of a plain file, stale bytes never come back, the capacity is exact |
| attribute cache | an entry is found by a name and kept when the clip is renamed or replaced | a frame that is there is answered for, with the attributes of its own clip |
| developing a frame | options that change between two reads, maps and tables shared without a lock, slots of a ring filled while others read them, `realloc` under a pointer | a frame has the corrections of its own clip, complete, and its header the levels of its samples |
| lossless JPEG | two bytes fetched ahead, stuffing, code lengths capped at 16 | what is decoded is what was encoded |
| dual ISO | rows counted unequally, clipped rows, conversion in place, rows squeezed together | no row has the wrong exposure, no pixel is made of another colour |
| repairs, noise, medians | windows at the edges, edges in the image, networks written by hand | only what is wrong changes, and to what is around it |
| DNG header | offsets, counts and tags by hand, strings of any length | a reader finds every value; time codes are those of the frames |

Every hazard is listed with its line in `PROJECT.json`, with the properties that
would catch it, or with the reason why none does yet.

## The modules

Each module carries the names of the code: an action is named for the function or
for the step of it that it models, and `PROJECT.json` maps every definition to
lines. Definitions whose comment begins with *Slip:* are not part of the model:
each is the mutated form of the definition after it, a plausible mistake in the
code, and shows that the property named with it in `PROJECT.json` can fail.
Modules named `MC...` only give values to constants.

### `ImageBuffers`: the cache of developed frames

`get_or_create_image_buffer` is cut where another thread can get in between:

| code | actions |
|---|---|
| lock the list, walk it to the path | `LookupHit`, `LookupMiss` |
| `image_buffer_cleanup`, first loop: free what is not in use while there are more than the limit, locking each buffer | `ScanSkip`, `ScanFree`, `ScanEnd` |
| second loop: free from the head down to the total limit | `Trim`, `TrimDone` |
| append a buffer; give the list mutex back | `Create`, `CreateFails` |
| lock the buffer, look at `data` | `AcquireFound`, `AcquireEmpty` |
| the callback, `process_frame` or `create_preview` | `BeginFill`, `EndFill`, `CallbackFails` |
| copy to the caller | `UseRead`, `UsePreview` |
| `release_image_buffer_by_path`, `release_image_buffer` | `ReleaseByPath`, `ReleasePtr` |

`mem` is the heap and `live` its domain; a pointer is the number of a buffer, never
used twice, so a dangling pointer is one outside `live`. A thread that dereferences
one raises `undefined`, after which nothing is claimed (`UseDangling`). FUSE's file
handles remember a buffer in `fi->fh` (`FhPersists`), as `mlvfs_read` writes it; the
high-level FUSE interface need not hand it back to the next request, so runs differ
in it. `Open`, `BeginRead`, `BeginRelease` are the handlers, `BeginPreview` the web
page.

`FrameCache` is what the cache promises: entries by path, an entry is dropped only to
make room for a missing path and never below the limit, a request is answered from an
entry of its own path with a whole frame or with nothing. `FrameCacheSpec` is the
refinement: `cached` is the set of paths in the list, `ready` those whose data is
complete, `waiting` the requests inside the cache.

### `ProcessFrame`: developing a frame

The whole of `process_frame` after the frame is read, with every place where it looks at an option
(`mlvfs` is what it sees, `requested` what the page is writing, option by option: `SetValue`, `Order`,
`WriteOption`): `BeginFrame`, the preview of dual ISO or full dual ISO with its own passes
(`PreviewDualIso`, `FullDualIso`, `AfterFocus`, `DualIsoFails`), the repairs (`FindFocusMap` to `RepairBadPixels`),
the tables of `hdr.c` (`BuildTables` with its mutex, once for each function that has tables; `AskCurve` and `FillCurve` without a lock of
their own, before `final_blend` and inside of the second pass, whose mutex is kept, if it makes the alias map: `StartAliasMap`), `HeaderAgain` and
`FixStripes`. `work` is the frame a thread is at: its pass, how many
bits its samples have and with which levels its header was made. Where two threads are inside a structure
without a lock, what follows is undefined: the model notes it (the thread or structure is *racing*), and the
properties that depend on it are claimed for the others only. `stripes_race` shows what then happens to stripes.

`PixelMaps` and `Stripes` hold the two structures. `BadPixelsFound`, `ClaimSlot` and `FindBadPixels` are the ring
(a map belongs to a `file_guid` and to what was asked for, aggressive or not); `FocusPixelsFound`, `AddFocusPixelMap`
and `ReadFocusFile` the array, whose pointer is old when another thread has grown it.

### `Samples` and its modules: the steps on samples

Each action of `Samples` is one step of developing a frame that has no state: it takes an `input`, chosen from all the inputs of
its instance, and its `output` is compared with what the step is for, said without its algorithm.

| step | module | code | compared with |
|---|---|---|---|
| `Decompress` | `LosslessJpeg` | `lj92_encode`, `lj92_decode`, `get_image_data` | the image (`LosslessExact`) |
| `TellRowsApart` | `DualIso` | `hdr_convert_data` to 106, `hist_add`, `hist_median`, `identify_*` | the rows the camera took bright (`RowsFound`) |
| `Convert` | `DualIso` | `hdr_convert_data` from 181 | every row dark (`OneExposure`) |
| `Separate` | `DualIsoFields` | `amaze_interpolate`, `mean32_interpolate`, `border_interpolate` | exposure and colour of what a pixel is made of (`OneExposure`) |
| `Header`, `TimeCode` | `DngHeader` | `dng_get_header_data`, `add_*` | how a reader of TIFF finds values; the number of the frame (`HeaderWellFormed`) |
| `Search`, `Repair`, `Interpolate` | `PixelRepair` | `fix_bad_pixels`, `fix_focus_pixels`, `interpolate_*` | definition of a hot pixel, colour, row, range (`RepairedInPlace`) |
| `FixPatternNoise` | `PatternNoise` | all of `patternnoise.c`, one value after the other | the field without the noise (`NoiseRemoved`) |
| `SmoothChroma` | `ChromaSmooth` | `chroma_smooth.c` | the field without the blot (`NoiseRemoved`) |
| `Select`, `Median` | `Medians` | `kth_smallest_int`, `opt_med5`, `opt_med9`, `opt_med25` | rank (`MediansExact`) |

What is in front of the camera and what its encoder writes is the environment (`Taken`, `Field`, `Blotted`, `Compressed`).
Samples in EV are numbers of `EvResolution`; of a pixel of `DualIsoFields` and of a row of `Convert` only where it comes
from is kept.

### `Stripes`: corrections by clip

The list of `stripes.c` with its pointers and fields one by one, since a node is in
the list before its name, its `next` and its coefficients have values; `Garbage` is
what `malloc` left there and following it is undefined (`WalkGarbage`). The statistics
are abstracted to the frame they come from; a frame too dark for a channel leaves that
coefficient as `malloc` left it, which the model chooses freely. Frames of `OddClips`, whose width is no multiple of 8, get a correction
that is not applied.

### `IndexFile`: the `.IDX` file

A file is a sequence of the pieces that stdio flushes, each represented by the recording
it indexes (or `Old` for the old format, or `Hole` for zeros in front of a piece of another
writer). `LoadOpen`, `LoadPiece`, `LoadFails` are `load_index`; `MakeIndex`, `Scan`, `ScanFails`
are `make_index` on the chunks; `Create`, `Write`, `SaveFails` are `save_index`; after it the file is
read back as `force_index` does. `Recount` is the second attempt of `mlv_get_frame_count`. `Crash`
ends every call at any point, `Replace` exchanges or removes the clip on the disk.

### `Clip`, `ClipReads` and `FrameReads`: the index in memory and what is read along it

`IndexFile` treats an index as a whole; here it is made. A block of a chunk is its type, its time and for sound
its size and how much of it is stored; what is in it is represented by its place. `IndexBlock`, `SkipNull` and `EndChunk` are
the turns of the loop of `make_index` (a header of impossible size or the `MLVI` of another recording ends a chunk); `StartSort`, `Swap`,
`Pass` and `EndPass` those of `xref_sort`, a bubble sort that ends each pass where the last one swapped last.
`mlv_get_frame_count`, `mlv_get_frame_headers`, `wav_get_size` and `wav_get_data` are operators along the finished index,
their loops recursive functions of the number of entries passed. `HeadersInForce` and `WavIsRecording` compare them with the recording itself, without the index.
A block cut off inside its header is one with nothing stored: of a sound block, the size is what `wav_get_data_direct` then makes of the header read for the
block before it (`wav.c:310`). Not modelled: such a block as the very first one of the sound, whose size is that of a header never written, a chunk that ends in the
middle of the first fields of a block (its type, size and time), and headers that are shorter than their struct in the middle of a file.

`FrameReads` adds the frames: `PackedBits` and `Unpacked` are `get_image_data` and `dng_get_image_data_inline`, with registers of 32 bits as
two words and the rotation modulo 32, as the processors do it (the C macro shifts by up to 40 bits); `mlvfs_read` is the piece of a
`.dng` that a read returns; `gif_get_size`, `Encoded` and `PreviewFrames` are the preview, for every number of pixels in `PreviewSizes`. What the camera has packed (`StoredWord`) is
the environment; samples have 8, 10, 12 or 14 bits, for which `dng_get_image_data` is compiled. A `RAWI` block carries its bits per pixel, so that a frame with the wrong headers has the wrong samples. Corrections are
off, frames are not compressed and of one resolution, and the DNG header is bytes by their number.

### `Overlay`: names and the disk below

A name is a stem and what the code looks at behind it (`.MLV`, `.MLD`, a frame's
extension, the long name of `--resolve-naming`, anything else); a path is a sequence of names, of any length. `InClip`, `mlv_file`,
`path_in_mlv`, `IsVirtual` and `Real` are `mlvfs_resolve_path` and
`mlvfs_resolve_virtual`; `getattr` and `readdir` the handlers; `Create`, `Mkdir`, `Write`, `Unlink`,
`Rmdir`, `Rename` the requests that change the disk, each with the `.MLD` directory
that `check_mld_exists` makes; `SetNameScheme` the web page. `Stat` is the attribute cache: the first frame asked
for registers attributes under the path of its clip (`AttrPath`), and every later answer for that path comes from `attrs`. The file system calls and the lookups
of the kernel in front of a request are the environment. `saved` is history: what users
have written and not given up, beginning with the notes that are on the disk when it is mounted (`FirstSaved`).

### `PfmVolume`: the tree of the Windows volume

`file` holds the structs (`sibPrev`, `sibNext`, `firstChild`, `parent`, `open`), `lists` the open enumerations,
and a *slot* is the address of a pointer: `<<"first", d>>` or `<<"next", f>>`, as in the
C++ code, where `sibPrev` and the position of an enumeration point at pointers. `Link`,
`Unlink`, `StepBack`, `PruneLists` are the helpers; `Create`, `OpenExisting`,
`Delete`, `Replace`, `Move`, `MoveOpens`, `MoveReplace`, `Close`, `ListBegin`, `ListNext`, `ListEnd` the
requests. `driver` is what the driver believes of a file and the closes that are on their way.
Abstracted: `openSequence` is kept as the number of opens a pending close has not seen
(`ahead`), `sibNext` of an unlinked file is cleared, the open list is a flag. The driver
never moves the root.

### `PfmFile`: the bytes of temporary files

`blockList`, `fileSize` and the volume's `capacity` with `Write`, `WriteNothing`, `Shrink`, `Extend`, `Free`, and `outActualSize`, the answer of the last
write; `Read` is the read. `malloc` may be
refused at any block, so a write may stop in the middle. `MaxBlocks` stands for the
limit of `INT_MAX` blocks and `Slack` for the four entries more the code allocates;
64-bit wrap of sizes is not modelled. `ByteFile` is the plain file it implements (`ByteFileSpec`, with
`content` mapped to what `Read` returns): a write of which `outActualSize` bytes are in the file, and no others.

## The runs

All times are with two workers; every cfg gives the bounds.

| run | instance | states | shows |
|---|---|---|---|
| `image_buffers` | 2 FUSE threads and the web thread, 2 handles, 3 frames and 1 preview, limits 0 and 1, 5 requests, `malloc` may fail | 76,000 | `TypeOK`, `ListInv`, `OneProducer`, `InUsePinned`, `OldestUnusedFirst`, refinement `FrameCacheSpec` |
| `image_buffers_live` | the same threads, 1 frame and 1 preview, 4 requests, callbacks may fail | 71,000 | `EveryRequestReturns` |
| `image_buffers_pointers` | 2 FUSE threads, 2 frames, 6 requests | violation | `CleanupSparesPointers` |
| `process_frame` | 2 threads, 2 clips (one with a focus pixel file and a GUID, one with neither), 2 frames each (1 dark), 2 developed, one clip of odd width, a ring of one map, 1 change of the options; or one step on samples with one of 27,700 inputs | 1,309,000 | `FrameTypeOK`, `OneCorrection`, `OwnMaps`, `LevelsMatch`, `OwnTables`; `LosslessExact`, `RowsFound`, `OneExposure`, `HeaderWellFormed`, `RepairedInPlace`, `NoiseRemoved`, `MediansExact` |
| `stripes_race` | 2 threads on a new clip | violation | `OneCorrection` |
| `index_file` | 2 threads, recordings of 2 and 3 pieces, 3 calls, 1 crash or failed write, 1 replacement | 851,000 | `TypeOK`, `ReturnsWholeIndex`, `RepairsIndex`, `RacingWritersAgree` |
| `index_file_race` | 2 calls on a new clip, no fault | violation | `GeneratesIfNecessary` |
| `pfm_volume` | 4 files, 4 names (the virtual frame's, two more, one mapped), 1 enumeration, 1 late close | 107,000 | `VolumeTypeOK`, `Consistent`, `ListingComplete`, `LivesWhileNeeded` |
| `pfm_move` | 3 files, the driver may ask for a cyclic move | violation | `NotUnderItself` |
| `pfm_file` | 2 files, blocks of 2 bytes, 2 blocks each, writes of 1 and 3 bytes of two values at every offset | 6,400 | `FileTypeOK`, refinement `ByteFileSpec` |
| `clip` | one chunk of up to 3 blocks behind the camera's first two, or two chunks with up to 2 each, at times 1 and 2, sound blocks of 1 and 2 bytes, one broken off in its bytes or its header, foreign and bad ends, frames of 8 samples of 10, 12 and 14 bits | 368,000 | `TypeOK`, `IndexInOrder`, `HeadersInForce`, `WavIsRecording`, `DngIsFrame`, `PreviewFits` |
| `overlay` | a clip, a folder with another clip of that name, and a note in each, a frame and the sound in it, paths of up to three names, both naming schemes, 3 changes of the disk | 36,000 | `TypeOK`, `ListedResolves`, `SavedStays`, `ClipsSurvive`, `AttrsOfClip` |

### Why the bounds are enough

* *Image buffers.* The limits 0 and 1 (4 and 16 in the code) make both loops of the cleanup run
  with two and three frames. Five requests are the fewest with which one thread reads a frame
  it keeps open while a second evicts and the web thread releases by pointer between them.
* *Developing frames.* Two frames under two threads, of one clip or of two, meet in every place of `process_frame`; a ring of one
  map (8 in the code) is full after the first clip, and a clip without a GUID never finds its map again. The options are off, the
  preview of dual ISO, and full dual ISO with everything else, and the page may change them once, one option after the other.
* *Steps on samples.* All 2x2 images of three values after a 0 under every predictor, and images of 8x2 samples of ten bits, with and
  without bytes behind them; numbers of pixels are powers of two, for which the encoder's floating-point frequencies are exact. Scenes have 42 rows of 8
  samples, since the percentiles of `identify_bright_and_dark_fields` need 40 greens in each class; levels and gains (1, 2 and 8) make bright
  rows clip, end below and above the guess `RoughWhite` (18, for 10000) and differ by less than two. Heights from 5 to 9 with every
  pattern of replaced samples reach both ends; heights from 8 to 19 meet every way rows are squeezed. Images of 8x8, 8x12 and 12x9
  put focus pixels everywhere, also near two edges at once. A suspect pixel has six neighbours that are as bright as the noise, or one or more EV brighter.
  Fields of 24x8 samples have noise in each column in turn and an edge in the middle (`Strength` 8 and `MinCount` 3 stand for 50 and 10). Fields of 14x14
  have blots in the middle and at the borders. The networks for 5 and 9 samples are checked for all windows of 0 and 1,
  which by the 0-1 principle are all windows; the one for 25 for 900 of them. Header strings are as short as an entry, one longer, and long.
* *Index.* Three calls are two racing writers and a reader of what they left. Indexes of different
  length make a shorter one overwrite a longer one; one piece would make every write atomic.
* *Clip.* Three blocks after the first two, at two times, give every order of swaps that ends a pass early, and equal times within
  a chunk and across chunks. Pieces of the `.wav` file are read at every offset and length, and its size (2 bytes of header, 3 for
  each frame) is less than, equal to and more than the sound there is. Eight samples end on a word border and meet every bit
  position; a `.dng` is read at every offset in pieces of 1, 3 and all bytes. Sub blocks of 5 bytes (126 in the code) and up to 10
  pixels give full, begun and empty last sub blocks, and 19 to 21 pixels five of them; the theorem is for any numbers of pixels.
* *Volume.* Root, virtual file and two more: a folder and a file in it, or two siblings, in every
  order. One enumeration is enough since each is stepped back on its own (`StepBack` maps over the lists).
* *Bytes.* Blocks of two bytes and payloads of one and three, of a zero and another byte, give writes inside a block,
  across a border and over a whole block; the end of the file falls on, before and behind a border.
* *Overlay.* Three changes make, fill and rename or remove a directory; asking for attributes is free. The disk starts with a
  note in a `.MLD` directory and one in a folder, so that nothing is spent on making them.

`CHECK_DEADLOCK FALSE` is only in `pfm_volume`, `pfm_move` and `overlay`: there the bound on files or
requests may be reached with nothing left to ask for. The other modules have an action
`Finished` for the end of the bounded run, so that TLC reports any other stop.

### Symmetry

Threads, handles and frames of a kind (`ImageBuffers`, `IndexFile`), threads (`ProcessFrame`), names (`PfmVolume`) and files
(`PfmFile`) are interchangeable model values: no `CHOOSE` picks among them. The run with a
liveness property does not use symmetry.

### Fairness

`FairSpec` of `ImageBuffers` has weak fairness of each thread's steps inside a request, which is what a
preemptive scheduler gives; nothing is assumed about requests being made. Weak
fairness is enough for the mutexes because the number of requests is bounded: a mutex that is
given back again and again becomes free for good. The claim is therefore absence of deadlock and
of endless waiting in a bounded run, not starvation freedom of pthread mutexes.
`Stripes` and `IndexFile` state the same fairness.

## What the checks found

1. `image_buffers_pointers`: a cache hit does not raise `in_use`, so the cleanup frees a buffer that
   another thread was given and is about to read (`resource_manager.c:199` says *no longer in use*).
2. `stripes_race`: two threads on a new clip develop its frames with different corrections or none
   (`stripes.c:98`: *computed from the first frame only*).
3. `index_file_race`: `get_index` returns NULL for a clip that is there when two threads make its index
   (`index.h:30`: *generating the file if necessary*).
4. `pfm_move`: the check for moving a folder into itself walks up from the folder instead of from the
   destination, and never refuses (`win/mlvfs-pfm.cpp:823`).

Behaviour that no comment or document contradicts, met while modelling `Overlay` and therefore
excluded by name in its properties (`IsOddName`, `IsKept`, `TakeAlong`):

* `.log` and `_PREVIEW.gif` are listed for a clip without a readable frame, but not found;
* with long names, a clip kept inside a clip, or a folder named like a long name, is not found;
* renaming a clip leaves its `.MLD` and `.IDX` behind under the old name; renaming onto another clip replaces it;
* `rmdir` and `rename` answer success when the call below fails;
* `mkdir x.MLV` makes a directory that is shown as a clip;
* files in folders of a clip, and files outside clips that are not recordings, are there but not listed;
* a piece of a `.wav` file that contains the end of the sound, when there is less of it than its computed size, has what was in the
  caller's buffer behind that end instead of zeros (`wav.c:340`; `WavIsRecording` allows that piece anything there);
* a preview whose number of pixels is one less than a multiple of 125 is two bytes for each frame shorter than its computed size, and ends
  in what `malloc` left there (`gif.c:230`); `PreviewFits` says that it is never longer;
* a clip that is replaced keeps its attributes and size (`main.c:1161`; `AttrsOfClip` excepts it);
* the web page accepts any integer for `name_scheme`; the model takes 0 and 1.

Met while modelling the development of frames; the properties except it where their comments say so:

* with full dual ISO set, a frame that is not dual ISO is not chroma smoothed; when `cr2hdr20_convert_data` fails, focus and bad pixels
  are repaired twice; an option changed between two reads gives a frame without dual ISO (2 to 1), or with bad pixels fixed in mode 1 (2 to 0);
* the static curve of `build_fullres_curve` (`hdr.c:898`) is marked as made before it is filled, and nothing locks it; the tables behind the
  mutex are kept by `black` alone, although `white` is part of them (`hdr.c:1247`);
* a `.fpm` file that is missing is never looked for again, one that is read is not closed; a recording without a GUID is searched for bad
  pixels for every frame; focus pixels outside of the crop are repaired in another row (`cs.c:481`), and pixel (0, 0) never is;
* weights are rounded down, so that a repaired pixel may be darker by 4 parts in 256; a bright pixel whose second neighbour is
  exactly black is not found, `log2(0)` being the least integer;
* the decoder refuses tiny images whose last row it has fetched already; with all 17 categories of differences in an image the encoder writes
  one entry behind `huffval`; `get_image_data` returns 0 for lossless JPEG;
* medians below black make a frame of one exposure dual ISO for the preview; `hist_total`, a number of samples, is used as a bound for levels; counters
  of the histogram wrap at 65536 equal samples;
* with amaze, in a frame that begins with two bright rows and whose height is not a multiple of four, one or two rows near the end are interpolated
  from a row at the beginning that has the other exposure, since bright rows are squeezed from `h/4*2` on over dark ones (`hdr.c:1010`); in other frames the
  bright rows that find no place are only hidden by `border_interpolate`, which copies also the native pixels of the last three columns (`hdr.c:1350`);
* without full-resolution blending `final_blend` still blends in `fullres`, which is then zero;
* a frame rate that is asked for is cut to an integer (`dng.c:690`), one below 1 to 0; time codes repeat above 40 frames a second (`dng.c:570`); days run over the end of a month;
* pattern noise in columns within two samples of a strong edge stays, and then also at the ends of rows; an edge weaker than the threshold is taken for noise;
* chroma smoothing of a dual ISO preview looks up 16-bit samples in 14-bit tables.

## The proofs

Every theorem holds for all values of the constants that satisfy the named assumptions of the modules, which TLC evaluates on
every run: the numbers of threads, paths, clips, files and requests are any, and the bounds that make the runs finite are any too. Two
theorems have a hypothesis of their own, which is said there.

### The image buffer cache

`ImageBuffersProofs`, for any numbers of threads, handles and paths and any limits:

| theorem | states |
|---|---|
| `TypeCorrect` | `Spec => []TypeOK` |
| `CacheListCorrect` | `Spec => []ListInv`: one buffer for a path, the counter is the length, at most `MaxTotal + 1` |
| `OneProducerCorrect` | `Spec => []OneProducer` |
| `InUsePinnedCorrect` | `Spec => InUsePinned`, an action property |
| `OldestUnusedFirstCorrect` | `Spec => OldestUnusedFirst`, an action property |
| `ImplementsFrameCache` | `~CallbackMayFail` implies `Spec => FrameCacheSpec`, the refinement |

The assumption is `ConstantsAssumption` of `ImageBuffers` (the kinds of threads and of paths are disjoint, `None` is neither,
limits are numbers, the limit of unused buffers is not above the total).

*Argument.* `TypeOK` is inductive. `ListInv` is not: that `Create` does not make a second buffer for a path
needs that nobody inserted the path since the lookup. `ListInd` adds `CleanupInv`, that a thread in the
cleanup holds the list mutex and its path is missing, and that the list is finite, without which the cardinality
in `ListInv` says nothing. Steps that leave the list alone are dealt with once (`SameEntriesListInv`,
`QuietStep`), as are those that free a buffer (`FreeBufferListInv`). `OneProducer` follows from `ProducerInv`: a
thread that produces holds the mutex of its buffer, as long as that buffer is there. `InUsePinned` follows from
`OnlyCleanupFrees`: a step that frees a buffer is one of the two loops.

`OldestUnusedFirst` needs what the first loop of the cleanup has seen (`ScanInv`): a buffer it has passed was in use when it was
passed, and since the list mutex is held only a release by pointer can have changed that. Those are of previews, which
`PreviewInv` follows from the page to the release, and of the very path the pointer was looked up for (`PointerInv`). The
refinement maps the list to the set of its paths and the buffers with data to the whole ones. Each action is shown to be a step of `FrameCache` or to
leave its variables alone; that a reader is answered with a whole frame of its path takes `FrameInv` (who fills in a
buffer holds its mutex, and every pointer used without it leads to a whole frame) and `PointerInv`.

`ImplementsFrameCache` is stated for callbacks that do not fail (the frame can be read) because it is false for others: with
`CallbackMayFail` TLC finds a thread whose callback failed going on to use the buffer while another one, who waited for the mutex, is filling
it in; the first then reads a frame half developed. The other theorems do not need the hypothesis.

### Making an index and reading along it

`ClipProofs`, for recordings of any number of chunks with any blocks at any times, frames of any size, and sound of any length:

| theorem | states |
|---|---|
| `TypeCorrect` | `Spec => []TypeOK`: the scan stays inside the recording, the sort inside the table |
| `IndexCorrect` | `Spec => []IndexInOrder`: every block of the recording once, by time, stable |
| `HeadersAlwaysInForce` | `Spec => []HeadersInForce`: for every number the frame of that number, with the last headers before it |
| `SoundIsRecording` | `Spec => []WavIsRecording`: the sound, in whatever pieces it is read |
| `DngAlwaysFrame` | `Spec => []DngIsFrame`: a `.dng`, in whatever pieces it is read |
| `PreviewAlwaysFits` | `Spec => []PreviewFits`: a preview has its frames in order and fits into its buffer, whatever its number of pixels (any `PreviewSizes`) |

Recordings are sequences of sequences of blocks (`RecordingsAssumption`); `None` is no place, no headers and no sample, and sizes are numbers
(`ConstantsAssumption` of `ClipReads`, `FrameAssumption`); a frame has an even number of pixels, as the Bayer pattern has, and samples have
8, 10, 12 or 14 bits (`FormatAssumption`). With 8 or 10 bits and an odd number the last pixel would be fetched from behind the words that
`get_image_data` reads.

*The index.* `IndexInOrder` speaks of the finished index only. `IndexInv` says what is true on the way: the entries are exactly the
blocks passed that belong to the recording (`OnlyBlocks`, `AllBlocks`); they are in the order of the files until the sort
begins, and entries of one time stay so because only entries of different times are swapped (`InFileOrder`); and in the sort
(`Sorting`) nothing later is before an entry behind `n`, before an entry passed since the last swap of this pass, or before the
entry that the pass carries along (`Settled`). The second of these is why a pass may make the next one end where it last swapped.
`SameBlocks` deals with all steps of the sort as far as the contents of the table go, since they only move entries about.

*Headers.* The properties speak of the recording, the loops of the table. In the finished index what is before a block in time is what is before
its entry (`BeforeIs`), so that the last of it is an entry too (`LastIs`). `OnTheWay` is what `mlv_get_frame_headers` has found after some
entries, up to the frame it looks for; from there on nothing changes (`FoundStays`).

*Sound.* `EndAt` is where the sound of the first entries ends. `Numbers` is the invariant of the positions `wav_get_data_direct` keeps, and `Out` that of the
bytes it has put out: all that were asked for up to `EndAt`, each from the one block it is in (`ByteAtIs`).

*A frame.* Bits in a row are a number in front of another (`Joined`). A sample and the bits around it are such numbers, in one word
(`OneWord`) or two (`TwoWords`), and the rotation leaves just the sample, whichever bit it begins at (`Rotated`); both words are among those read
(`WordsAreRead`). `PieceOfDng` is that a piece is cut out of header and data as if they were one file.

*The preview.* `Blocks` counts the sub blocks that are full, which gives the size of a frame in closed form. A `RAWI` before the first frame is before all
others, so that a preview that finds its first frame finds all of them (`AllFramesFound`).

### The index file

`IndexFileProofs`, for any threads and recordings, indexes of any sizes, any numbers of calls, faults and replacements of the clip:

| theorem | states |
|---|---|
| `TypeCorrect` | `Spec => []TypeOK` |
| `AlwaysRepairsIndex` | `Spec => []RepairsIndex`: a call nobody disturbs leaves a whole index of the clip |
| `AlwaysReturnsWholeIndex` | `Spec => []ReturnsWholeIndex`: without two writers at once no part of an index is taken for one |
| `RacingWritersAlwaysAgree` | `Spec => []RacingWritersAgree`: with nothing failing and the clip staying, racing writers leave a whole file |

The assumption is `ConstantsAssumption`: the old format is no recording, holes and `None` are no contents, no index is empty.

*Argument.* `TypeInd` adds to the types that a thread writes the index of a recording and has a piece of it left. The three properties each have an
invariant about the file:

* `OwnFile`: to a thread that is not disturbed the file is what it has itself written since its call, so it is neither read short nor
  left short; `ClipMissed` says that a call that met the clip missing is disturbed.
* `OneIndex`: while no two have written at once all pieces are of one index, and the only writer has written all there are. `OldOnly`:
  the old format is there as a whole or not at all, so that a length tells whether a table is whole.
* `Agreed`: each piece of the index is in the file or some writer is yet to come to it (`Settled`). Emptying the file keeps that, since whoever
  empties it goes on from the first piece; this is why the race is harmless as long as all write the same.

### Developing a frame

`ProcessFrameProofs`, for any threads, clips, frames, cameras, maps and options:

| theorem | states |
|---|---|
| `LevelsAlwaysMatch` | `FrameSpec => []LevelsMatch` |
| `TablesAlwaysOwn` | `FrameSpec => []OwnTables`: the tables of a pass always, the curve unless threads race |

The only assumption used is `ProcessFrameAssumption`: options sent by the page are options, every clip has a black level,
and `None`, the black level of tables that nobody has built, is no number. The code has -1 there.

*Argument.* `WorkInv` says what is true of the frame of a thread at each of its stages (`Consistent`): 14 bits everywhere before it is
converted, 16 in samples and levels between the conversion and the second header, passes only in full dual ISO, the third last.
It speaks of the frame alone, which is why the options may change at any time. `TableInv` adds who owns what threads
share: one thread has the mutex of a pass, whose tables they are (`MutexInv`), also while it is at the curve for its alias map; and a curve that is not filled either has no black level or is being filled. A
thread that takes such a curve for its own is therefore in a race with the one that fills it (`CurveRace`), the case that
`OwnTables` leaves out. All steps outside `hdr_interpolate` are dealt with once (`OthersSettled`, `SettledStep`).

Also in `ProcessFrameProofs`, for any threads, clips, frames, cameras, and any number of slots in the ring, whichever file names cannot be allocated:

| theorem | states |
|---|---|
| `FrameTypeCorrect` | `FrameSpec => []FrameTypeOK`: whatever threads share keeps its type, even if they race |
| `MapsAlwaysOwn` | `FrameSpec => []OwnMaps`: unless threads race every frame is repaired along complete maps of its own |
| `AlwaysOneCorrection` | `FrameSpec => []OneCorrection`: unless threads race all frames of a clip have one correction |

The assumptions are those of `ProcessFrame` and `Stripes`. The latter says that `None` is neither a clip, a frame of one, nor a truth value.

*Argument.* `FrameInd` joins `TableInv` to `SharedInv`, which has one part for each of the structures without a lock. `StripesInv`: who extends
the list has a node of which it is the only one to write, and what is applied has been computed for its own clip. `FocusInv`: an
entry used is of the thread's camera. `BadInv`: a slot used is of the recording and the setting of the frame, even when the
ring has dropped others since; a slot with a recording and no map is being filled. `JobInv` ties a thread in `stripes.c` to the stage of its
frame. All are claimed as long as no two threads race (`~Stopped`; the model stops there), because afterwards they are false, as the run
`stripes_race` shows for one of them. The lemmas `StripesRace`, `FocusRace` and `BadRace` show of each step by which one thread could disturb another that it is such a race.

`OneCorrection` does not follow from these, since it is about the walk along the list that comes before. `ListSound` says what
the list looks like: linked in the order of allocation, whole but for the last node, one node for a clip, and a thread that adds one for a clip
found it missing and nobody has developed a frame of it since (`Place`). The walk is a recursive function; that it meets exactly the nodes up to the first
one of the clip is proved by induction. A node whose name could not be allocated breaks the list (`Broken`), and every later walk
for a clip behind it fails in the same way, so that frames of one clip still agree (`Failed`).

### Names and the disk below

`OverlayProofs`, for paths of any length, any disk, any paths that users name and any number of requests:

| theorem | states |
|---|---|
| `TypeCorrect` | `Spec => []TypeOK`: what is on the disk stays in directories, attributes are of recordings |
| `ListedAlwaysResolves` | `Spec => []ListedResolves`: what `readdir` lists `getattr` finds, and no file has two names |
| `SavedAlwaysStays` | `Spec => []SavedStays`: what users wrote is found, as they wrote it, until they remove or rename it |
| `RecordingsSurvive` | `Spec => ClipsSurvive`: only a rename takes a recording away |
| `AttrsAreOfClip` | `Spec => AttrsOfClip`: attributes are of what was at the path of the clip when they were found |

`ConstantsAssumption` says that `Dir` is the content of no file, that users name paths with at least one name, that what they rename is among
these, and that the disk is a disk when it is mounted: finitely many paths, each in a directory (`IsDisk`).

*Argument.* Paths are sequences that the code takes apart and puts together again, so equality of paths is shown name by name (`SamePath`): a path of the mount and
its place on the disk are equal up to one name, that of the clip (`RealNames`, `PlainNames`), and `Ancestors` says that whatever is on a disk has
all directories above it. `TypeOK` is inductive by itself once a rename is known to move whole directories (`RenameMoves`, `RenameDisk`).

* `SavedAlwaysStays` needs `SavedInv`, which speaks of the disk and not of the mount: a saved file is at its place, and if it is kept in a
  clip, the recording is there too, without which the way to the file would be gone for the kernel although the file is not. `KeptFound` gets from there to
  what `getattr` answers on the way. The heart is `Alias`: another path leads to the place of a saved file, or above it, only if it names that
  file in another way that `Plain` knows of, or is hidden (`.MLD`). Requests on other paths therefore leave it alone. For a rename `RealBelow` and
  `MovedReal` say where the files below go, with the cases in which they do not follow (`TakeAlong`) set apart. A saved path means the same file
  under both naming schemes (`StaysNext`), so that the page may switch at any time. TLC checked `SavedInv` as an invariant of `overlay`.
* `ListedAlwaysResolves` follows from `TypeOK` alone: it is about what `readdir` and `getattr` make of one and the same disk. No path that is found by listing has a name in
  `.MLD`, nor with the long names one in `.MLV` (`ShownPath`); on such paths `Real` is injective (`RealOnce`).
  `ShownDirsIs` takes the listings level by level.
* `RecordingsSurvive` rests on `AttrFile`: a path at which `getattr` shows a file is not the path of a recording. No handler but `rename` is let through to
  a directory with content. `AttrsAreOfClip` is about one step: no request but `Stat` writes attributes.

Requests run one at a time in `Overlay`; the theorems do not speak of two that overlap.

### The tree of the Windows volume

`PfmVolumeProofs`, for any numbers of files, enumerations and closes on their way. All theorems assume `~CyclicMoves`, that the driver does not
ask to move a folder into its own subtree:

| theorem | states |
|---|---|
| `VolumeAlwaysSound` | `Spec => []VolumeInv`, the inductive invariant |
| `VolumeTypeCorrect` | `Spec => []VolumeTypeOK` |
| `TreeAlwaysConsistent` | `Spec => []Consistent`: the pointers agree, names in a folder differ |
| `ListingAlwaysComplete` | `Spec => []ListingComplete`: an enumeration delivers everything that stayed, and nothing twice |
| `AlwaysLivesWhileNeeded` | `Spec => []LivesWhileNeeded`: no use after free, no leak |

The hypothesis is needed: the run `pfm_move` shows that `Move` does not check for it and that the subtree is then lost. `ConstantsAssumption`
says that there may be at least two files, and that `None` is no name.

*Argument.* `Good` describes the heap. `Heap`: every file in a folder has a slot (the first child of the folder or the next of a sibling) that leads to it,
what its own pointers lead to points back, and only the root and files in folders have children. `Grounded`: no files hang on each other in a ring, said as
induction for sets: a set that holds the files without a folder and whatever its members point at holds all. Both are local, so that a
request that changes a few pointers is dealt with in a few steps. `Listing` speaks of sets in the same way: what an enumeration has to
deliver is in every set that holds what is behind its position, and what it has delivered is outside one of them. The
operators of the model that follow pointers (`Below`, the slots of a folder) are shown to be the least such sets. `Handled` says that an open the driver
counts on is open and that a close on its way is behind it; `Needed`, that nothing is kept in memory for nobody. Every request is composed of a few
changes of the heap, and one lemma for each says what it keeps: linking a file in, unlinking it with the iterators
in its slot moved on, removing, moving, renaming. In the midst of a request a detached folder may have children; `Good` has a parameter for
the files that may. TLC checked `VolumeInv` as an invariant of `pfm_volume` before it was proved.

### The bytes of temporary files

`PfmFileProofs`, for any number of files, any size of a block and of the largest file, any payloads, and memory refused at any block:

| theorem | states |
|---|---|
| `TypeCorrect` | `Spec => []FileTypeOK`: each byte below the size has an entry, no block is kept past the end, `capacity` counts what is allocated |
| `ImplementsByteFile` | `Spec => ByteFileSpec`, the refinement: the list of blocks is a plain file that reads as zeros where nothing was written, and every write answers how much of it is in the file |

`ConstantsAssumption` says that blocks and files have a size, that payloads are bytes, that `NULL` is no block, and that only finitely many files are
open at once, without which the sum in `capacity` says nothing.

*Argument.* `FileTypeOK` is not enough, since it does not say what the last block holds behind the end of the file, which is what a later write or extension
uncovers. `Holds` adds that those bytes are zero; `FileInv` is that for every file, and that the memory is counted (`Counted`). It rests on two
properties of the code that are easy to lose: a new block is cleared unless it is written as a whole, and a cut clears the rest of its last
block. Written, cut and extended lists are dealt with as values, apart from the volume (`CutHolds` and its neighbours); `CountedStep` says how the sum changes when
blocks come and go. A write that stops for want of memory stops at its end or at the beginning of a block (`StopsBetween`), so that it is the write of its first `k`
bytes to the plain file. TLC checked `FileInv` as an invariant of `pfm_file` (with the length of a list bounded by `MaxEntries`) as well.

### Recursion

`Recursion` has no theorem of its own but what the proofs along pointers and that of the levels of listings in `Overlay` rest on. `SetInduction` is induction over numbers
for a set (the library's takes an operator, which no prover here can instantiate); `Iteration` says that a function defined by recursion over numbers
exists, `Stepwise` the same for a loop whose turns differ, as those along an index do; `FiniteImage`, that a finite set has finitely many values; `Growth`, that a set that grows inside a finite one is complete after as many steps as that has elements.

### Only model-checked

* Liveness (`EveryRequestReturns`): fairness and `ENABLED` are out of the prover's reach.
* What the recursive definitions and folds of `Samples` and its modules compute for every input: the folds take
  an operator as a parameter, and their induction is over data, not along one pointer.

## What is not modelled

* Arithmetic in floating point: the fits of the two exposures and their blending (`hdr.c`), demosaicing, white balance, the statistics of
  stripes and deflicker. It keeps nothing from one frame to the next.
* Frames compressed with LZMA, the values in the DNG header, the fields of the header of a lossless JPEG.
* Vendored code (LZMA, mongoose, slre, dokany, amaze, sleef), which is about 28,000 of the 41,000 lines in C and C++; of the
  13,000 others (`lj92.c` with them) the modules model nearly one half. Much of the rest are tables of cameras, wrappers of system calls and
  pages.
* `new_image_buffer` without memory: `in_use` is written through NULL (`resource_manager.c:103`).
* `KEEP_FILES_OPEN`: the chunk file cache is not compiled (`resource_manager.h:25`).
* In `Overlay`: names that begin with `._`, `.IDX` files and further chunks on the disk, sizes, times and attribute
  caching of the kernel, more than one request at a time, the substring search of `check_mld_exists` in stems.
* In `PfmVolume`: reading virtual frames and sound, contents of mapped files, the destruction of the volume.
* Shutdown (`free_all_image_buffers`, `free_focus_pixel_maps`, `stripes_free_corrections`), which does not wait for the server thread.

## Plan

Done, in this order: `ImageBuffers` with `FrameCache` and its proofs, `Stripes`, `IndexFile`, `PfmVolume`, `PfmFile` with
`ByteFile`, `Overlay`, `Clip` with `ClipReads` and `FrameReads`, and its proofs; then `PixelMaps` and the options, composed with `Stripes`
in `ProcessFrame`, with its proofs, the steps on samples, and the attribute cache in `Overlay`; then the proofs of the refinement of
`FrameCache`, of the index file, of the maps and the corrections of `ProcessFrame`, of the Windows volume, its tree and its bytes, of all
properties of `Overlay`, and of what is read along an index.

Left, the most important first:

1. Shutdown while the web thread runs, and developed frames that keep old options.
2. What is in the alias map and the mixing curves of full dual ISO, as far as it is integers.
3. Proofs about the steps on samples, which have no theorem yet: `MediansExact` first, whose networks have a fixed length.
