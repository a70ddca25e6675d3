------------------------------ MODULE IndexFile ------------------------------
(***************************************************************************)
(* The .IDX file beside a clip (index.c): get_index reads it, and scans    *)
(* the chunks of the clip and writes it when it cannot be read;            *)
(* mlv_get_frame_count writes it again when it holds no video frame.       *)
(*                                                                         *)
(* Nothing locks the file.  It is truncated by fopen and then written in   *)
(* the pieces stdio flushes, each at the position its writer has reached,  *)
(* so a reader can meet an empty file, a short one, or one with a hole of  *)
(* zeros in front of a piece of another writer.  A crash leaves it as it   *)
(* is.  The first piece holds the MLVI and XREF headers, and so the size   *)
(* of the table.  A piece is represented by the recording it indexes.      *)
(***************************************************************************)
EXTENDS Integers, Sequences, FiniteSets

CONSTANTS
  Threads,         (* FUSE worker threads and the thread of the web server  *)
  Clips,           (* recordings that may be found under the file name      *)
  Old,             (* index in the old format: no entry is a video frame    *)
  Hole,            (* zeros                                                 *)
  Size,            (* Size[c]: number of pieces of the index of c           *)
  MaxCalls,        (* bound: number of calls                                *)
  MaxFaults,       (* bound: number of crashes and of failed writes         *)
  MaxReplacements, (* bound: number of times the clip is replaced           *)
  None

Indexes == Clips \cup {Old}

ASSUME ConstantsAssumption ==
  /\ Old \notin Clips
  /\ Hole \notin Indexes
  /\ None \notin Indexes \cup {Hole} \cup Seq(Indexes \cup {Hole})
  /\ Size \in [Indexes -> Nat \ {0}]
  /\ {MaxCalls, MaxFaults, MaxReplacements} \subseteq Nat

VARIABLES
  clip,         (* the recording on disk, or None                           *)
  file,         (* the pieces of the .IDX file, <<>> when there is none     *)
  pc,           (* what each thread does next                               *)
  call,         (* what it has called and how often the index was made      *)
  table,        (* the pieces it has read (block_hdr)                       *)
  index,        (* the index it is writing                                  *)
  at,           (* the number of pieces it has written                      *)
  result,       (* what the call returned: a table, or None for NULL        *)
  calls, faults, replacements,
  disturbed,    (* history: since the call another thread has changed the   *)
                (* file, the clip was not there or the file not writable      *)
  overlap       (* history: two threads have been writing at once           *)

vars == <<clip, file, pc, call, table, index, at, result, calls, faults,
          replacements, disturbed, overlap>>

environment == <<clip, replacements>>

Pieces == Indexes \cup {Hole}

TypeOK ==
  /\ clip \in Clips \cup {None}
  /\ file \in Seq(Pieces)
  /\ pc \in [Threads -> {"idle", "open", "read", "chunks", "create", "write"}]
  /\ call \in [Threads -> [kind : {"index", "count"},
                           stage : {"cached", "made", "recount"}]]
  /\ table \in [Threads -> Seq(Pieces)]
  /\ index \in [Threads -> Clips \cup {None}]
  /\ at \in [Threads -> Nat]
  /\ result \in [Threads -> Seq(Pieces) \cup {None}]
  /\ {calls, faults, replacements} \subseteq Nat
  /\ disturbed \in [Threads -> BOOLEAN]
  /\ overlap \in BOOLEAN

Init ==
  /\ clip \in Clips
  /\ file \in {<<>>, [i \in 1..Size[Old] |-> Old]}
  /\ pc = [t \in Threads |-> "idle"]
  /\ call = [t \in Threads |-> [kind |-> "index", stage |-> "cached"]]
  /\ table = [t \in Threads |-> <<>>]
  /\ index = [t \in Threads |-> None]
  /\ at = [t \in Threads |-> 0]
  /\ result = [t \in Threads |-> <<>>]
  /\ calls = 0
  /\ faults = 0
  /\ replacements = 0
  /\ disturbed = [t \in Threads |-> FALSE]
  /\ overlap = FALSE

Goto(t, l) == pc' = [pc EXCEPT ![t] = l]

SetStage(t, s) == call' = [call EXCEPT ![t].stage = s]

Return(t, r) ==
  /\ result' = [result EXCEPT ![t] = r]
  /\ Goto(t, "idle")

(* The entries of a table that are video frames, counted in pieces: the    *)
(* frame type of an old entry or of zeros is not MLV_FRAME_VIDF.           *)
FramesOf(s) == Cardinality({i \in 1..Len(s) : s[i] \in Clips})

-----------------------------------------------------------------------------
(* get_index or mlv_get_frame_count is called. *)
Call(t, kind) ==
  /\ pc[t] = "idle"
  /\ calls < MaxCalls
  /\ calls' = calls + 1
  /\ call' = [call EXCEPT ![t] = [kind |-> kind, stage |-> "cached"]]
  /\ result' = [result EXCEPT ![t] = <<>>]
  /\ disturbed' = [disturbed EXCEPT ![t] = (clip = None)]
  /\ Goto(t, "open")
  /\ UNCHANGED <<environment, file, table, index, at, faults, overlap>>

(* load_index: fopen. *)
LoadOpen(t) ==
  /\ pc[t] = "open"
  /\ table' = [table EXCEPT ![t] = <<>>]
  /\ Goto(t, "read")
  /\ UNCHANGED <<environment, file, call, index, at, result, calls, faults,
                 disturbed, overlap>>

(* Slip: a block that ends with the file is taken as it is. *)
IsLoadedShort(s) ==
  Len(s) > 0 /\ s[1] # Hole /\ (Len(s) = Size[s[1]] \/ Len(s) = Len(file))

(* The header that tells the size has been read, and all of the block. *)
IsLoaded(s) == Len(s) > 0 /\ s[1] # Hole /\ Len(s) = Size[s[1]]

(* The next piece cannot be read, or is a header of zeros: NULL. *)
LoadFails(t) ==
  /\ pc[t] = "read"
  /\ ~IsLoaded(table[t])
  /\ table[t] = <<Hole>> \/ Len(file) <= Len(table[t])

LoadPiece(t) ==
  /\ pc[t] = "read"
  /\ ~IsLoaded(table[t])
  /\ table[t] # <<Hole>>
  /\ Len(file) > Len(table[t])
  /\ table' = [table EXCEPT ![t] = Append(@, file[Len(@) + 1])]
  /\ UNCHANGED <<environment, file, pc, call, index, at, result, calls, faults,
                 disturbed, overlap>>

(* Slip: the index is made only when there is no file. *)
MakeIndexIfAbsent(t) ==
  /\ LoadFails(t)
  /\ call[t].stage = "cached"
  /\ SetStage(t, "made")
  /\ IF file = <<>> THEN Goto(t, "chunks") /\ UNCHANGED result
     ELSE Return(t, None)
  /\ UNCHANGED <<environment, file, table, index, at, calls, faults, disturbed,
                 overlap>>

(* get_index: without a table the index is made, once. *)
MakeIndex(t) ==
  /\ LoadFails(t)
  /\ call[t].stage = "cached"
  /\ SetStage(t, "made")
  /\ Goto(t, "chunks")
  /\ UNCHANGED <<environment, file, table, index, at, result, calls, faults,
                 disturbed, overlap>>

(* force_index returns what load_index finds in the file just written. *)
ReturnNull(t) ==
  /\ LoadFails(t)
  /\ call[t].stage # "cached"
  /\ Return(t, None)
  /\ UNCHANGED <<environment, file, call, table, index, at, calls, faults,
                 disturbed, overlap>>

(* mlv_get_frame_count: no video frame, the file may be an old one. *)
NeedsRecount(t) ==
  /\ call[t].kind = "count"
  /\ call[t].stage # "recount"
  /\ FramesOf(table[t]) = 0

Recount(t) ==
  /\ pc[t] = "read"
  /\ IsLoaded(table[t])
  /\ NeedsRecount(t)
  /\ SetStage(t, "recount")
  /\ Goto(t, "chunks")
  /\ UNCHANGED <<environment, file, table, index, at, result, calls, faults,
                 disturbed, overlap>>

ReturnTable(t) ==
  /\ pc[t] = "read"
  /\ IsLoaded(table[t])
  /\ ~NeedsRecount(t)
  /\ Return(t, table[t])
  /\ UNCHANGED <<environment, file, call, table, index, at, calls, faults,
                 disturbed, overlap>>

-----------------------------------------------------------------------------
(* force_index: load_chunks and make_index. *)
Scan(t) ==
  /\ pc[t] = "chunks"
  /\ clip # None
  /\ index' = [index EXCEPT ![t] = clip]
  /\ Goto(t, "create")
  /\ UNCHANGED <<environment, file, call, table, at, result, calls, faults,
                 disturbed, overlap>>

(* load_chunks finds no .MLV file. *)
ScanFails(t) ==
  /\ pc[t] = "chunks"
  /\ clip = None
  /\ Return(t, None)
  /\ UNCHANGED <<environment, file, call, table, index, at, calls, faults,
                 disturbed, overlap>>

DisturbsOthers(t) == disturbed' = [u \in Threads |-> disturbed[u] \/ u # t]

(* Slip: the position starts before the first piece. *)
CreateOffByOne(t) ==
  /\ pc[t] = "create"
  /\ file' = <<>>
  /\ at' = [at EXCEPT ![t] = -1]
  /\ overlap' = (overlap \/ \E u \in Threads \ {t} : pc[u] = "write")
  /\ DisturbsOthers(t)
  /\ Goto(t, "write")
  /\ UNCHANGED <<environment, call, table, index, result, calls, faults>>

(* save_index: fopen "wb+" empties the file. *)
Create(t) ==
  /\ pc[t] = "create"
  /\ file' = <<>>
  /\ at' = [at EXCEPT ![t] = 0]
  /\ overlap' = (overlap \/ \E u \in Threads \ {t} : pc[u] = "write")
  /\ DisturbsOthers(t)
  /\ Goto(t, "write")
  /\ UNCHANGED <<environment, call, table, index, result, calls, faults>>

(* Slip: the pieces are appended wherever the file ends. *)
PutAtEnd(k, c) == Append(file, c)

(* Piece k is written at its own place; what was never written is zeros. *)
Put(k, c) ==
  [i \in 1..(IF Len(file) > k THEN Len(file) ELSE k) |->
     IF i = k THEN c ELSE IF i <= Len(file) THEN file[i] ELSE Hole]

Write(t) ==
  /\ pc[t] = "write"
  /\ file' = Put(at[t] + 1, index[t])
  /\ at' = [at EXCEPT ![t] = @ + 1]
  /\ Goto(t, IF at[t] + 1 = Size[index[t]] THEN "open" ELSE "write")
  /\ DisturbsOthers(t)
  /\ UNCHANGED <<environment, call, table, index, result, calls, faults, overlap>>

(* The directory or the disk does not let the file be written: save_index  *)
(* ignores it and what is there is loaded.                                 *)
SaveFails(t) ==
  /\ pc[t] \in {"create", "write"}
  /\ faults < MaxFaults
  /\ faults' = faults + 1
  /\ disturbed' = [disturbed EXCEPT ![t] = TRUE]
  /\ Goto(t, "open")
  /\ UNCHANGED <<environment, file, call, table, index, at, result, calls, overlap>>

-----------------------------------------------------------------------------
(* The process dies and is started again: the file stays. *)
Crash ==
  /\ faults < MaxFaults
  /\ \E t \in Threads : pc[t] # "idle"
  /\ faults' = faults + 1
  /\ pc' = [t \in Threads |-> "idle"]
  /\ result' = [t \in Threads |-> <<>>]
  /\ UNCHANGED <<environment, file, call, table, index, at, calls, disturbed,
                 overlap>>

(* The user removes the clip or copies another over it. *)
Replace(c) ==
  /\ replacements < MaxReplacements
  /\ c # clip
  /\ replacements' = replacements + 1
  /\ clip' = c
  /\ disturbed' = [t \in Threads |-> disturbed[t] \/ c = None]
  /\ UNCHANGED <<file, pc, call, table, index, at, result, calls, faults, overlap>>

Step(t) ==
  \/ LoadOpen(t) \/ LoadPiece(t) \/ MakeIndex(t) \/ ReturnNull(t)
  \/ Recount(t) \/ ReturnTable(t)
  \/ Scan(t) \/ ScanFails(t) \/ Create(t) \/ Write(t) \/ SaveFails(t)

Finished ==
  /\ calls = MaxCalls
  /\ \A t \in Threads : pc[t] = "idle"
  /\ UNCHANGED vars

Next ==
  \/ \E t \in Threads, kind \in {"index", "count"} : Call(t, kind)
  \/ \E t \in Threads : Step(t)
  \/ Crash
  \/ \E c \in Clips \cup {None} : Replace(c)
  \/ Finished

Spec == Init /\ [][Next]_vars

FairSpec == Spec /\ \A t \in Threads : WF_vars(Step(t))

-----------------------------------------------------------------------------
(* The table of one recording and all of it. *)
IsWhole(s) ==
  /\ s # <<>> /\ s[1] # Hole /\ Len(s) = Size[s[1]]
  /\ \A i \in 1..Len(s) : s[i] = s[1]

Returned(t) == result[t] \notin {None, <<>>}

(* A file left behind by a crash or a full disk is never taken for an      *)
(* index: a call that no other thread disturbs returns the whole table of  *)
(* one recording, unless two threads have written the file at once before; *)
(* and a count is not made from an index in the old format.                *)
ReturnsWholeIndex ==
  \A t \in Threads :
    Returned(t) /\ ~disturbed[t] =>
      /\ ~overlap => IsWhole(result[t])
      /\ call[t].kind = "count" => result[t][1] # Old

(* Whatever is in the file at the time of the call, a call that no other   *)
(* thread disturbs, for a clip that is there and in a directory that can   *)
(* be written, returns an index.                                           *)
RepairsIndex == \A t \in Threads : result[t] = None => disturbed[t]

(* Threads that write the index of one clip over each other, each emptying *)
(* the file under the other, leave a whole file when the last one is done. *)
RacingWritersAgree ==
  (faults = 0 /\ replacements = 0 /\ \A t \in Threads : pc[t] # "write")
  => file = <<>> \/ IsWhole(file)

(* "Retrieves the index from an IDX file, generating the file if           *)
(* necessary": with the clip there and nothing failing, a call returns an  *)
(* index.  Two threads that make the same index break it.                  *)
GeneratesIfNecessary ==
  \A t \in Threads : faults = 0 /\ replacements = 0 => result[t] # None
=============================================================================
