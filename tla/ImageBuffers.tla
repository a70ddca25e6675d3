---------------------------- MODULE ImageBuffers ----------------------------
(***************************************************************************)
(* The cache of developed frames of resource_manager.c and the requests    *)
(* that use it: FUSE worker threads that open, read and release a virtual  *)
(* .dng or .gif file (main.c), and the web server thread that sends a      *)
(* preview (webgui.c).                                                     *)
(*                                                                         *)
(* The global mutex image_buffer_mutex protects the linked list, the mutex *)
(* of a buffer protects its production.  Everything else is unprotected:   *)
(* in_use is a flag that only the creator raises, and the pointer that     *)
(* get_or_create_image_buffer returns is used with no lock held.           *)
(*                                                                         *)
(* A buffer is named by the order of its allocation, so the linked list,   *)
(* to which buffers are only ever appended, is the domain of mem in        *)
(* increasing order, and a dangling pointer is a name outside that domain. *)
(* An access through a dangling or NULL pointer is undefined behaviour:    *)
(* undefined becomes TRUE and nothing is claimed of what follows.          *)
(***************************************************************************)
EXTENDS Integers, FiniteSets

CONSTANTS
  FuseThreads,  (* worker threads of the FUSE library                       *)
  WebThreads,   (* the thread of the web server                             *)
  Handles,      (* file handles the kernel can have open on virtual files   *)
  DngPaths,     (* paths of virtual .dng files                              *)
  GifPaths,     (* paths of virtual _PREVIEW.gif files                      *)
  MaxUnused,    (* MAX_UNUSED_IMAGE_BUFFER_COUNT                            *)
  MaxTotal,     (* MAX_TOTAL_IMAGE_BUFFER_COUNT                             *)
  MaxRequests,  (* bound: number of opens, reads and previews               *)
  FhPersists,   (* does the library keep what a read writes into fi->fh     *)
  CallbackMayFail, (* can the frame of a buffer be unreadable for a while   *)
  AllocMayFail, (* can the malloc of a struct image_buffer return NULL      *)
  None          (* no thread, no path, no handle                            *)

Threads == FuseThreads \cup WebThreads
Paths == DngPaths \cup GifPaths

ASSUME ConstantsAssumption ==
  /\ FuseThreads \cap WebThreads = {}
  /\ DngPaths \cap GifPaths = {}
  /\ MaxUnused \in Nat
  /\ MaxTotal \in Nat
  /\ MaxUnused <= MaxTotal
  /\ MaxRequests \in Nat
  /\ FhPersists \in BOOLEAN
  /\ CallbackMayFail \in BOOLEAN
  /\ AllocMayFail \in BOOLEAN
  /\ None \notin Threads \cup Paths \cup Handles

VARIABLES
  mem,       (* the buffers that are allocated, in the order of their names *)
  count,     (* image_buffer_count                                          *)
  allocated, (* number of buffers allocated so far: the last name given     *)
  global,    (* owner of image_buffer_mutex                                 *)
  handle,    (* the kernel's file handles and the fi->fh kept for each      *)
  pc,        (* what each thread does next                                  *)
  req,       (* the handle and path of the request a thread serves          *)
  ptr,       (* the image_buffer (or current) pointer of a thread, 0: NULL  *)
  answer,    (* what the last request of a thread returned                  *)
  requests,  (* number of requests so far, for the bound                    *)
  undefined  (* an access through a dangling or NULL pointer has happened   *)

vars == <<mem, count, allocated, global, handle, pc, req, ptr, answer,
          requests, undefined>>

live == DOMAIN mem

Buffer == [path : Paths, in_use : BOOLEAN,
           data : {"null", "filling", "ready"},
           mutex : Threads \cup {None}]

PCs == {"idle", "lookup", "scan", "trim", "acquire", "callback", "fill",
        "use", "release_path", "release_ptr"}

TypeOK ==
  /\ live \subseteq 1..allocated
  /\ mem \in [live -> Buffer]
  /\ count \in Int
  /\ allocated \in Nat
  /\ global \in Threads \cup {None}
  /\ handle \in [Handles -> [open : BOOLEAN, path : Paths \cup {None},
                             fh : 0..allocated]]
  /\ pc \in [Threads -> PCs]
  /\ req \in [Threads -> [h : Handles \cup {None}, path : Paths \cup {None}]]
  /\ \A h \in Handles : handle[h].open => handle[h].path \in Paths
  /\ \A t \in Threads : pc[t] # "idle" => req[t].path \in Paths
  /\ ptr \in [Threads -> 0..allocated]
  /\ answer \in [Threads -> {"frame", "empty", "torn"}]
  /\ requests \in Nat
  /\ undefined \in BOOLEAN

-----------------------------------------------------------------------------
(* The linked list.                                                        *)

(* get_image_buffer: the entries a lookup of p can return. *)
EntriesOf(p) == {b \in live : mem[b].path = p}

(* Slip: the list is not walked in order. *)
IsNextAny(b, current) == b \in live /\ b > current

(* The buffer after `current' in the list; current = 0 is the list head. *)
IsNext(b, current) ==
  /\ b \in live
  /\ b > current
  /\ \A c \in live : c > current => b <= c

(* Slip: the memory is freed but the entry stays linked. *)
FreeBufferLinked(b) ==
  /\ mem' = [mem EXCEPT ![b].path = None]
  /\ count' = count - 1

(* free_image_buffer: unlink, destroy the mutex, free the memory. *)
FreeBuffer(b) ==
  /\ mem' = [c \in live \ {b} |-> mem[c]]
  /\ count' = count - 1

(* Assign the fields of a buffer other threads may see. *)
SetBuffer(b, in_use, data, mutex) ==
  mem' = [mem EXCEPT ![b] = [path |-> mem[b].path, in_use |-> in_use,
                             data |-> data, mutex |-> mutex]]

Init ==
  /\ mem = [b \in {} |-> 0]
  /\ count = 0
  /\ allocated = 0
  /\ global = None
  /\ handle = [h \in Handles |-> [open |-> FALSE, path |-> None, fh |-> 0]]
  /\ pc = [t \in Threads |-> "idle"]
  /\ req = [t \in Threads |-> [h |-> None, path |-> None]]
  /\ ptr = [t \in Threads |-> 0]
  /\ answer = [t \in Threads |-> "empty"]
  /\ requests = 0
  /\ undefined = FALSE

(* Thread t is about to do l.  Nothing is said after undefined behaviour. *)
At(t, l) == pc[t] = l /\ ~undefined

Goto(t, l) == pc' = [pc EXCEPT ![t] = l]

(* Thread t follows its pointer although the buffer has been freed. *)
FollowsDangling(t) ==
  /\ ptr[t] \notin live
  /\ undefined' = TRUE
  /\ UNCHANGED <<mem, count, allocated, global, handle, pc, req, ptr, answer,
                 requests>>

-----------------------------------------------------------------------------
(* Requests of the kernel and of the browser.                              *)

(* mlvfs_open of a virtual file: fi->fh = 0 and nothing else. *)
Open(h, p) ==
  /\ ~undefined
  /\ requests < MaxRequests
  /\ ~handle[h].open
  /\ handle' = [handle EXCEPT ![h] = [open |-> TRUE, path |-> p, fh |-> 0]]
  /\ requests' = requests + 1
  /\ UNCHANGED <<mem, count, allocated, global, pc, req, ptr, answer, undefined>>

(* mlvfs_read: a pointer kept in fi->fh is used as it is, otherwise the    *)
(* buffer is looked up.                                                    *)
BeginRead(t, h) ==
  /\ requests < MaxRequests
  /\ At(t, "idle")
  /\ handle[h].open
  /\ requests' = requests + 1
  /\ req' = [req EXCEPT ![t] = [h |-> h, path |-> handle[h].path]]
  /\ ptr' = [ptr EXCEPT ![t] = handle[h].fh]
  /\ Goto(t, IF handle[h].fh # 0 THEN "use" ELSE "lookup")
  /\ UNCHANGED <<mem, count, allocated, global, handle, answer, undefined>>

(* webgui_handler, URI ends with _PREVIEW.gif. *)
BeginPreview(t, p) ==
  /\ requests < MaxRequests
  /\ At(t, "idle")
  /\ requests' = requests + 1
  /\ req' = [req EXCEPT ![t] = [h |-> None, path |-> p]]
  /\ ptr' = [ptr EXCEPT ![t] = 0]
  /\ Goto(t, "lookup")
  /\ UNCHANGED <<mem, count, allocated, global, handle, answer, undefined>>

(* mlvfs_release: the kernel releases a handle that no request is using.   *)
BeginRelease(t, h) ==
  /\ At(t, "idle")
  /\ handle[h].open
  /\ \A u \in Threads : pc[u] = "idle" \/ req[u].h # h
  /\ handle' = [handle EXCEPT ![h] = [open |-> FALSE, path |-> None, fh |-> 0]]
  /\ req' = [req EXCEPT ![t] = [h |-> h, path |-> handle[h].path]]
  /\ Goto(t, "release_path")
  /\ UNCHANGED <<mem, count, allocated, global, ptr, answer, requests, undefined>>

-----------------------------------------------------------------------------
(* get_or_create_image_buffer, under image_buffer_mutex.                   *)

(* The path is cached: leave with the pointer; in_use is not raised. *)
LookupHit(t) ==
  /\ At(t, "lookup")
  /\ global = None
  /\ \E b \in EntriesOf(req[t].path) :
       /\ \A c \in EntriesOf(req[t].path) : b <= c
       /\ ptr' = [ptr EXCEPT ![t] = b]
  /\ Goto(t, "acquire")
  /\ UNCHANGED <<mem, count, allocated, global, handle, req, answer, requests,
                 undefined>>

(* Slip: the lookup is made before the mutex is taken. *)
LookupMissUnlocked(t) ==
  /\ At(t, "lookup")
  /\ EntriesOf(req[t].path) = {}
  /\ global' = t
  /\ ptr' = [ptr EXCEPT ![t] = 0]
  /\ Goto(t, "scan")
  /\ UNCHANGED <<mem, count, allocated, handle, req, answer, requests, undefined>>

(* The path is not cached: keep the mutex and clean up from the list head. *)
LookupMiss(t) ==
  /\ At(t, "lookup")
  /\ global = None
  /\ EntriesOf(req[t].path) = {}
  /\ global' = t
  /\ ptr' = [ptr EXCEPT ![t] = 0]
  /\ Goto(t, "scan")
  /\ UNCHANGED <<mem, count, allocated, handle, req, answer, requests, undefined>>

(* image_buffer_cleanup, first loop: ptr is the last buffer examined.  The *)
(* in_use flag is read under the mutex of the buffer.                      *)
Examines(t, b) ==
  /\ At(t, "scan")
  /\ count > MaxUnused
  /\ IsNext(b, ptr[t])
  /\ mem[b].mutex = None

ScanSkip(t) ==
  /\ \E b \in live :
       /\ Examines(t, b)
       /\ mem[b].in_use
       /\ ptr' = [ptr EXCEPT ![t] = b]
  /\ UNCHANGED <<mem, count, allocated, global, handle, pc, req, answer,
                 requests, undefined>>

(* Slip: in_use is read but not looked at. *)
ScanFreeAny(t) ==
  /\ \E b \in live : Examines(t, b) /\ FreeBuffer(b)
  /\ ptr' = [ptr EXCEPT ![t] = 0]
  /\ UNCHANGED <<allocated, global, handle, pc, req, answer, requests, undefined>>

(* After a buffer is freed the scan starts again from the head. *)
ScanFree(t) ==
  /\ \E b \in live :
       /\ Examines(t, b)
       /\ ~mem[b].in_use
       /\ FreeBuffer(b)
  /\ ptr' = [ptr EXCEPT ![t] = 0]
  /\ UNCHANGED <<allocated, global, handle, pc, req, answer, requests, undefined>>

ScanEnd(t) ==
  /\ At(t, "scan")
  /\ count <= MaxUnused \/ \A b \in live : b <= ptr[t]
  /\ Goto(t, "trim")
  /\ UNCHANGED <<mem, count, allocated, global, handle, req, ptr, answer,
                 requests, undefined>>

(* Second loop: the oldest buffer goes, in use, locked or not. *)
Trim(t) ==
  /\ At(t, "trim")
  /\ count > MaxTotal
  /\ \E b \in live : IsNext(b, 0) /\ FreeBuffer(b)
  /\ UNCHANGED <<allocated, global, handle, pc, req, ptr, answer, requests,
                 undefined>>

TrimDone(t) ==
  /\ At(t, "trim")
  /\ count <= MaxTotal \/ live = {}

(* The rest of new_image_buffer, in_use = 1 and the unlock. *)
Create(t) ==
  /\ TrimDone(t)
  /\ allocated' = allocated + 1
  /\ mem' = [b \in live \cup {allocated + 1} |->
               IF b \in live THEN mem[b]
               ELSE [path |-> req[t].path, in_use |-> TRUE, data |-> "null",
                     mutex |-> None]]
  /\ count' = count + 1
  /\ ptr' = [ptr EXCEPT ![t] = allocated + 1]
  /\ global' = None
  /\ Goto(t, "acquire")
  /\ UNCHANGED <<handle, req, answer, requests, undefined>>

(* new_image_buffer returns NULL and in_use is written through it. *)
CreateFails(t) ==
  /\ AllocMayFail
  /\ TrimDone(t)
  /\ undefined' = TRUE
  /\ UNCHANGED <<mem, count, allocated, global, handle, pc, req, ptr, answer,
                 requests>>

-----------------------------------------------------------------------------
(* get_or_create_image_buffer, after the unlock: production of the frame.  *)

(* Slip: data is tested before the mutex is taken. *)
AcquireFoundUnlocked(t) ==
  /\ At(t, "acquire")
  /\ ptr[t] \in live
  /\ mem[ptr[t]].data # "null"
  /\ Goto(t, "use")
  /\ UNCHANGED <<mem, count, allocated, global, handle, req, ptr, answer,
                 requests, undefined>>

(* Lock the buffer and find data already there: unlock and return. *)
AcquireFound(t) ==
  /\ At(t, "acquire")
  /\ ptr[t] \in live
  /\ mem[ptr[t]].mutex = None
  /\ mem[ptr[t]].data # "null"
  /\ Goto(t, "use")
  /\ UNCHANGED <<mem, count, allocated, global, handle, req, ptr, answer,
                 requests, undefined>>

(* Slip: the callback runs without the mutex of the buffer. *)
AcquireEmptyUnlocked(t) ==
  /\ At(t, "acquire")
  /\ ptr[t] \in live
  /\ mem[ptr[t]].data = "null"
  /\ Goto(t, "callback")
  /\ UNCHANGED <<mem, count, allocated, global, handle, req, ptr, answer,
                 requests, undefined>>

(* Lock the buffer and call process_frame or create_preview. *)
AcquireEmpty(t) ==
  /\ At(t, "acquire")
  /\ ptr[t] \in live
  /\ mem[ptr[t]].mutex = None
  /\ mem[ptr[t]].data = "null"
  /\ SetBuffer(ptr[t], mem[ptr[t]].in_use, "null", t)
  /\ Goto(t, "callback")
  /\ UNCHANGED <<count, allocated, global, handle, req, ptr, answer, requests,
                 undefined>>

(* The headers of the frame are found: data and header are allocated. *)
BeginFill(t) ==
  /\ At(t, "callback")
  /\ ptr[t] \in live
  /\ SetBuffer(ptr[t], mem[ptr[t]].in_use, "filling", mem[ptr[t]].mutex)
  /\ Goto(t, "fill")
  /\ UNCHANGED <<count, allocated, global, handle, req, ptr, answer, requests,
                 undefined>>

(* Slip: the error path returns with the mutex held. *)
CallbackFailsLocked(t) ==
  /\ CallbackMayFail
  /\ At(t, "callback")
  /\ ptr[t] \in live
  /\ Goto(t, "use")
  /\ UNCHANGED <<mem, count, allocated, global, handle, req, ptr, answer,
                 requests, undefined>>

(* The clip or the frame cannot be read: data stays NULL, unlock. *)
CallbackFails(t) ==
  /\ CallbackMayFail
  /\ At(t, "callback")
  /\ ptr[t] \in live
  /\ SetBuffer(ptr[t], mem[ptr[t]].in_use, mem[ptr[t]].data, None)
  /\ Goto(t, "use")
  /\ UNCHANGED <<count, allocated, global, handle, req, ptr, answer, requests,
                 undefined>>

(* The whole image is in data: the callback returns, unlock. *)
EndFill(t) ==
  /\ At(t, "fill")
  /\ ptr[t] \in live
  /\ SetBuffer(ptr[t], mem[ptr[t]].in_use, "ready", None)
  /\ Goto(t, "use")
  /\ UNCHANGED <<count, allocated, global, handle, req, ptr, answer, requests,
                 undefined>>

-----------------------------------------------------------------------------
(* Use of the returned pointer, with no lock held.                         *)

AnswerFrom(b) == CASE mem[b].data = "null"    -> "empty"
                   [] mem[b].data = "filling" -> "torn"
                   [] mem[b].data = "ready"   -> "frame"

(* mlvfs_read copies from header and data; a .dng read that found both     *)
(* leaves the pointer in fi->fh.                                           *)
UseRead(t) ==
  /\ t \in FuseThreads
  /\ At(t, "use")
  /\ ptr[t] \in live
  /\ answer' = [answer EXCEPT ![t] = AnswerFrom(ptr[t])]
  /\ handle' = IF /\ FhPersists
                  /\ req[t].path \in DngPaths
                  /\ mem[ptr[t]].data # "null"
               THEN [handle EXCEPT ![req[t].h] =
                       [open |-> TRUE, path |-> req[t].path, fh |-> ptr[t]]]
               ELSE handle
  /\ Goto(t, "idle")
  /\ UNCHANGED <<mem, count, allocated, global, req, ptr, requests, undefined>>

(* The preview is sent whatever data is, then the buffer is released. *)
UsePreview(t) ==
  /\ t \in WebThreads
  /\ At(t, "use")
  /\ ptr[t] \in live
  /\ answer' = [answer EXCEPT ![t] = AnswerFrom(ptr[t])]
  /\ Goto(t, "release_ptr")
  /\ UNCHANGED <<mem, count, allocated, global, handle, req, ptr, requests,
                 undefined>>

(* release_image_buffer: by pointer, under the mutex of the buffer only. *)
ReleasePtr(t) ==
  /\ At(t, "release_ptr")
  /\ ptr[t] \in live
  /\ mem[ptr[t]].mutex = None
  /\ SetBuffer(ptr[t], FALSE, mem[ptr[t]].data, None)
  /\ Goto(t, "idle")
  /\ UNCHANGED <<count, allocated, global, handle, req, ptr, answer, requests,
                 undefined>>

(* release_image_buffer_by_path: under image_buffer_mutex only. *)
ReleaseByPath(t) ==
  /\ At(t, "release_path")
  /\ global = None
  /\ mem' = [b \in live |->
               [path |-> mem[b].path,
                in_use |-> mem[b].in_use /\ b \notin EntriesOf(req[t].path),
                data |-> mem[b].data, mutex |-> mem[b].mutex]]
  /\ Goto(t, "idle")
  /\ UNCHANGED <<count, allocated, global, handle, req, ptr, answer, requests,
                 undefined>>

Dereferences == {"acquire", "callback", "fill", "use", "release_ptr"}

UseDangling(t) == \E l \in Dereferences : At(t, l) /\ FollowsDangling(t)

-----------------------------------------------------------------------------
ThreadStep(t) ==
  \/ LookupHit(t) \/ LookupMiss(t)
  \/ ScanSkip(t) \/ ScanFree(t) \/ ScanEnd(t)
  \/ Trim(t) \/ Create(t) \/ CreateFails(t)
  \/ AcquireFound(t) \/ AcquireEmpty(t)
  \/ BeginFill(t) \/ CallbackFails(t) \/ EndFill(t)
  \/ UseRead(t) \/ UsePreview(t)
  \/ ReleasePtr(t) \/ ReleaseByPath(t)
  \/ UseDangling(t)

(* All requests of the bound are served, or the behaviour is undefined. *)
Finished ==
  /\ undefined \/ (requests = MaxRequests /\ \A t \in Threads : pc[t] = "idle")
  /\ UNCHANGED vars

Next ==
  \/ \E h \in Handles, p \in Paths : Open(h, p)
  \/ \E t \in FuseThreads, h \in Handles : BeginRead(t, h) \/ BeginRelease(t, h)
  \/ \E t \in WebThreads, p \in GifPaths : BeginPreview(t, p)
  \/ \E t \in Threads : ThreadStep(t)
  \/ Finished

Spec == Init /\ [][Next]_vars

(* Every thread inside a request keeps running; mutexes need only be       *)
(* granted when they stay free, since the number of requests is bounded.   *)
FairSpec == Spec /\ \A t \in Threads : WF_vars(ThreadStep(t))
-----------------------------------------------------------------------------
(* Safety.                                                                 *)

(* The lookup and the insertion of get_or_create_image_buffer are one      *)
(* critical section: a path never has two buffers, image_buffer_count is   *)
(* the length of the list, and the cleanup that precedes each insertion    *)
(* keeps it at MaxTotal + 1 at most.                                       *)
ListInv ==
  /\ \A b, c \in live : mem[b].path = mem[c].path => b = c
  /\ count = Cardinality(live)
  /\ count <= MaxTotal + 1

(* A buffer is produced by one thread at a time, which holds its mutex     *)
(* from the NULL test of data to the end of the callback, although the     *)
(* list mutex was given up before the buffer's mutex was taken.            *)
OneProducer ==
  \A t, u \in Threads :
    /\ pc[t] \in {"callback", "fill"}
    /\ pc[u] \in {"callback", "fill"}
    /\ ptr[t] = ptr[u]
    /\ ptr[t] \in live
    => t = u

(* in_use pins: whatever the releases of other threads do during a         *)
(* cleanup, a buffer whose flag is up is only freed when there are more    *)
(* than MAX_TOTAL_IMAGE_BUFFER_COUNT, and then no older one is kept.       *)
InUsePinned ==
  [][\A b \in live \ live' :
       mem[b].in_use => /\ count > MaxTotal
                        /\ \A c \in live : b <= c]_vars

(* "starting with the oldest": when an unused buffer is freed, each older  *)
(* one still in the list is in use, save a preview that the web thread     *)
(* released by pointer, without the list mutex, after it was examined.     *)
OldestUnusedFirst ==
  [][\A b \in live \ live', c \in live :
       /\ ~mem[b].in_use
       /\ c < b
       => mem[c].in_use \/ mem[c].path \in GifPaths]_vars

(* "cleanup no longer in use image buffers": below the total limit the     *)
(* cleanup frees no buffer that a thread has been given and is still going *)
(* to dereference.  The code breaks this: a hit does not raise in_use.     *)
CleanupSparesPointers ==
  [][\A t \in Threads :
       /\ pc[t] \in Dereferences
       /\ ptr[t] \in live
       /\ count <= MaxTotal
       => ptr[t] \in live']_vars

(* Seen from outside the buffers are a cache of whole frames: a request is *)
(* answered from an entry of its own path, never from a frame that is      *)
(* being produced, and entries go only to make room for a missing path.    *)
serving == [t \in Threads |->
              IF pc[t] \in {"lookup", "scan", "trim", "acquire", "callback",
                            "fill", "use"}
              THEN req[t].path ELSE None]

Cache == INSTANCE FrameCache WITH
           cached <- {mem[b].path : b \in live},
           ready <- {mem[b].path : b \in {c \in live : mem[c].data = "ready"}},
           waiting <- serving

FrameCacheSpec == Cache!Spec

(* Liveness: a request that has entered the cache leaves it.  The list     *)
(* mutex waits for buffer mutexes during a scan and a buffer mutex is held *)
(* for as long as a frame takes to develop; neither is waited for in the   *)
(* opposite order.                                                         *)
EveryRequestReturns ==
  \A t \in Threads : pc[t] # "idle" ~> (pc[t] = "idle" \/ undefined)
=============================================================================
