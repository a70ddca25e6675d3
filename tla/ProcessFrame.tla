---------------------------- MODULE ProcessFrame ----------------------------
(***************************************************************************)
(* process_frame (main.c): what a FUSE thread does to the pixels of a      *)
(* frame, while other threads do the same and the web page changes the     *)
(* options that it reads one at a time.  The threads share the maps of     *)
(* cs.c (PixelMaps), the corrections of stripes.c (Stripes) and, for full  *)
(* dual ISO, the tables of hdr.c.                                          *)
(*                                                                         *)
(* Only the tables of EV values have a mutex.  Two threads in one of the   *)
(* other structures at once, one of them changing it, are a data race      *)
(* (Racing), after which nothing is claimed and the model stops.           *)
(*                                                                         *)
(* Left out: the values of samples, so also chroma smoothing and pattern   *)
(* noise, which change nothing else.  hdr_interpolation_method is 1        *)
(* (mean32_interpolate).  The option of the alias map is read once for a   *)
(* frame and meets nothing else, so it is a choice of the frame.           *)
(***************************************************************************)
EXTENDS Stripes

CONSTANTS
  Cameras, FocusFiles, Guids, RingSize,   (* see PixelMaps                  *)
  CameraOf,   (* the camera of each clip                                    *)
  GuidOf,     (* its fileGuid                                               *)
  BlackOf,    (* its black level                                            *)
  DualClips,  (* clips recorded with dual ISO                               *)
  Settings,   (* values of the options that the page sends                  *)
  MaxBegun,   (* bound: number of frames begun                              *)
  MaxChanges  (* bound: number of requests of the page                      *)

Options == [fix_bad_pixels : 0..2, fix_stripes : 0..1, dual_iso : 0..2]

ASSUME ProcessFrameAssumption ==
  /\ FocusFiles \subseteq Cameras
  /\ Guids \subseteq Nat
  /\ RingSize \in Nat \ {0}
  /\ CameraOf \in [Clips -> Cameras]
  /\ GuidOf \in [Clips -> Guids]
  /\ BlackOf \in [Clips -> Nat]
  /\ None \notin Nat
  /\ DualClips \subseteq Clips
  /\ Settings \subseteq Options
  /\ MaxBegun \in 0..MaxDeveloped
  /\ MaxChanges \in Nat

VARIABLES
  bad_pixel_maps, current_bad_pixel_map, focus_pixel_maps, map,  (* PixelMaps *)
  mlvfs,      (* the options                                                *)
  requested,  (* what the request asks for that the server is handling      *)
  changes,    (* number of requests, for the bound                          *)
  work,       (* the frame of each thread                                   *)
  frames,     (* number of frames begun, for the bound                      *)
  table,      (* previous_black of the tables of each pass                  *)
  curve       (* fullres_curve: its previous_black, and whether it is filled *)

INSTANCE PixelMaps

mapVars == <<bad_pixel_maps, current_bad_pixel_map, focus_pixel_maps, map>>
optionVars == <<mlvfs, requested, changes>>
tableVars == <<table, curve>>
frameVars == <<vars, mapVars, optionVars, work, frames, tableVars>>

(* The passes of hdr_interpolate that have tables and a mutex of their     *)
(* own: mean32_interpolate, mix_images and final_blend.                    *)
Passes == 1..3

Stages ==
  {"idle", "dual_iso", "dual_iso again", "focus", "load focus", "repair focus",
   "bad pixels", "aggressive", "bad", "find bad", "repair bad", "convert",
   "pass", "in pass", "curve", "fill curve", "alias map", "converted",
   "stripes", "in stripes"}

(* bits is the width of the samples, levels that of the black and white    *)
(* level in frame_headers, header that of the levels in the DNG header.    *)
(* pass is the pass of hdr_interpolate; mode is "off" outside of hdr.c,    *)
(* and fix_bad_pixels the argument of cr2hdr20_convert_data.               *)
Work ==
  [job : Jobs \cup {None}, stage : Stages, mode : {"off", "preview", "full"},
   fix_bad_pixels : 0..2, pass : {0} \cup Passes,
   bits : {14, 16}, levels : {14, 16}, header : {14, 16}]

NoWork == [job |-> None, stage |-> "idle", mode |-> "off", fix_bad_pixels |-> 0,
           pass |-> 0, bits |-> 14, levels |-> 14, header |-> 14]

FrameTypeOK ==
  /\ TypeOK
  /\ MapsTypeOK(Jobs)
  /\ {mlvfs, requested} \subseteq Options
  /\ changes \in 0..MaxChanges
  /\ work \in [Threads -> Work]
  /\ frames \in 0..MaxBegun
  /\ table \in [Passes -> Nat \cup {None}]
  /\ curve \in [black : Nat \cup {None}, filled : BOOLEAN]

FrameInit ==
  /\ Init
  /\ MapsInit
  /\ mlvfs \in Settings
  /\ requested = mlvfs
  /\ changes = 0
  /\ work = [t \in Threads |-> NoWork]
  /\ frames = 0
  /\ table = [p \in Passes |-> None]
  /\ curve = [black |-> None, filled |-> FALSE]

Stage(t) == work[t].stage
CameraFor(t) == CameraOf[work[t].job.clip]
GuidFor(t) == GuidOf[work[t].job.clip]
BlackFor(t) == BlackOf[work[t].job.clip]

-----------------------------------------------------------------------------
(* Data races.                                                             *)

(* A thread goes by what is in the curve when it makes the alias map, in   *)
(* the second pass, and in the third pass.                                 *)
Blends(w) == w.stage = "alias map" \/ (w.stage \in {"pass", "in pass"} /\ w.pass = 3)

(* The structure in which t has looked something up, until it is done with *)
(* that ...                                                                *)
StructureOf(t) ==
  CASE Stage(t) \in {"load focus", "repair focus"} -> "focus maps"
    [] Stage(t) \in {"find bad", "repair bad"}     -> "bad pixel maps"
    [] Stage(t) = "fill curve" \/ Blends(work[t])   -> "curve"
    [] Stage(t) = "in stripes" /\ pc[t] # "get"    -> "stripes"
    [] OTHER -> "none"

(* ... and whether t is extending it. *)
Extends(t) ==
  \/ Stage(t) \in {"load focus", "find bad", "fill curve"}
  \/ Stage(t) = "in stripes" /\ pc[t] \notin {"get", "apply"}

Racing ==
  \E t \in Threads : Extends(t) /\ \E u \in Threads \ {t} : StructureOf(u) = StructureOf(t)

Stopped == Racing \/ undefined

Is(t, stage) == Stage(t) = stage

Become(t, w) == work' = [work EXCEPT ![t] = w]
GoTo(t, stage) == Become(t, [work[t] EXCEPT !.stage = stage])

OnlyWork == UNCHANGED <<vars, mapVars, optionVars, frames, tableVars>>
OnlyMaps == UNCHANGED <<vars, optionVars, frames, tableVars>>

-----------------------------------------------------------------------------
(* webgui_handler: /set_value writes one option after the other.           *)

SetValue ==
  /\ changes < MaxChanges
  /\ requested = mlvfs
  /\ requested' \in Settings \ {mlvfs}
  /\ changes' = changes + 1
  /\ UNCHANGED <<vars, mapVars, mlvfs, work, frames, tableVars>>

Order == <<"fix_bad_pixels", "fix_stripes", "dual_iso">>

WriteOption ==
  /\ \E k \in DOMAIN Order :
       /\ mlvfs[Order[k]] # requested[Order[k]]
       /\ \A j \in 1..k - 1 : mlvfs[Order[j]] = requested[Order[j]]
       /\ mlvfs' = [mlvfs EXCEPT ![Order[k]] = requested[Order[k]]]
  /\ UNCHANGED <<vars, mapVars, requested, changes, work, frames, tableVars>>

-----------------------------------------------------------------------------
(* The dual ISO option is read twice.                                      *)

BeginFrame(t, c, f) ==
  /\ Is(t, "idle")
  /\ frames < MaxBegun
  /\ frames' = frames + 1
  /\ Become(t, [NoWork EXCEPT !.job = [clip |-> c, frame |-> f], !.stage = "dual_iso"])
  /\ UNCHANGED <<vars, mapVars, optionVars, tableVars>>

(* hdr_convert_data; the rows of a clip with dual ISO may not be told      *)
(* apart.                                                                  *)
PreviewDualIso(t) ==
  /\ Is(t, "dual_iso")
  /\ mlvfs.dual_iso = 1
  /\ \E mode \in {"off", "preview"} :
       /\ mode = "preview" => work[t].job.clip \in DualClips
       /\ Become(t, [work[t] EXCEPT !.stage = "focus", !.mode = mode])
  /\ OnlyWork

NoPreview(t) ==
  /\ Is(t, "dual_iso")
  /\ mlvfs.dual_iso # 1
  /\ GoTo(t, "dual_iso again")
  /\ OnlyWork

(* cr2hdr20_convert_data, with hdr_check. *)
FullDualIso(t) ==
  /\ Is(t, "dual_iso again")
  /\ mlvfs.dual_iso = 2
  /\ \E mode \in {"off", "full"} :
       /\ mode = "full" => work[t].job.clip \in DualClips
       /\ Become(t, [work[t] EXCEPT !.stage = "focus", !.mode = mode,
                                    !.pass = IF mode = "full" THEN 1 ELSE 0,
                                    !.fix_bad_pixels = mlvfs.fix_bad_pixels])
  /\ OnlyWork

NoDualIso(t) ==
  /\ Is(t, "dual_iso again")
  /\ mlvfs.dual_iso # 2
  /\ GoTo(t, "focus")
  /\ OnlyWork

-----------------------------------------------------------------------------
(* fix_focus_pixels                                                        *)

AfterFocus(t) ==
  CASE work[t].mode = "preview" -> "convert"
    [] work[t].mode = "off"     -> "bad pixels"
    [] work[t].mode = "full"    -> IF work[t].fix_bad_pixels # 0 THEN "bad" ELSE "pass"

RepairOrSkip(t) == GoTo(t, IF map'[t] = None THEN AfterFocus(t) ELSE "repair focus")

FindFocusMap(t) ==
  /\ Is(t, "focus")
  /\ \/ FocusPixelsFound(t, CameraFor(t)) /\ RepairOrSkip(t)
     \/ AddFocusPixelMap(t, CameraFor(t)) /\ GoTo(t, "load focus")
  /\ OnlyMaps

LoadFocusMap(t) ==
  /\ Is(t, "load focus")
  /\ ReadFocusFile(t, CameraFor(t))
  /\ RepairOrSkip(t)
  /\ OnlyMaps

RepairFocusPixels(t) ==
  /\ Is(t, "repair focus")
  /\ Release(t)
  /\ GoTo(t, AfterFocus(t))
  /\ OnlyMaps

-----------------------------------------------------------------------------
(* fix_bad_pixels: the option is read twice, and not again after           *)
(* cr2hdr20_convert_data has been called with it.                          *)

AskBadPixels(t) ==
  /\ Is(t, "bad pixels")
  /\ GoTo(t, IF mlvfs.fix_bad_pixels # 0 THEN "aggressive" ELSE "stripes")
  /\ OnlyWork

AskAggressive(t) ==
  /\ Is(t, "aggressive")
  /\ Become(t, [work[t] EXCEPT !.stage = "bad", !.fix_bad_pixels = mlvfs.fix_bad_pixels])
  /\ OnlyWork

FindBadMap(t) ==
  /\ Is(t, "bad")
  /\ LET aggressive == work[t].fix_bad_pixels = 2
     IN  \/ BadPixelsFound(t, GuidFor(t), aggressive) /\ GoTo(t, "repair bad")
         \/ ClaimSlot(t, GuidFor(t), aggressive) /\ GoTo(t, "find bad")
  /\ OnlyMaps

FillBadMap(t) ==
  /\ Is(t, "find bad")
  /\ FindBadPixels(t, work[t].job)
  /\ GoTo(t, "repair bad")
  /\ OnlyMaps

RepairBadPixels(t) ==
  /\ Is(t, "repair bad")
  /\ Release(t)
  /\ GoTo(t, IF work[t].mode = "full" THEN "pass" ELSE "stripes")
  /\ OnlyMaps

-----------------------------------------------------------------------------
(* Dual ISO.                                                               *)

(* hdr_convert_data: the samples and the levels are multiplied by 4. *)
ConvertPreview(t) ==
  /\ Is(t, "convert")
  /\ Become(t, [work[t] EXCEPT !.stage = "converted", !.bits = 16, !.levels = 16])
  /\ OnlyWork

(* hdr_interpolate: bright and dark rows, or their exposures, may not be   *)
(* told apart, or not overlap: then the frame is developed without.        *)
DualIsoFails(t) ==
  /\ Is(t, "pass")
  /\ work[t].pass < 3
  /\ Become(t, [work[t] EXCEPT !.stage = "focus", !.mode = "off", !.pass = 0])
  /\ OnlyWork

(* The mutex of a pass is held while samples are converted, and on through *)
(* the alias map of the second pass.                                       *)
Holds(w) == w.stage \in {"in pass", "alias map"} \/ (w.stage \in {"curve", "fill curve"} /\ w.pass = 2)

Locked(pass) == \E u \in Threads : Holds(work[u]) /\ work[u].pass = pass

(* Slip: without the mutex. *)
BuildTablesUnlocked(t) ==
  /\ Is(t, "pass")
  /\ table' = [table EXCEPT ![work[t].pass] = BlackFor(t)]
  /\ GoTo(t, "in pass")
  /\ UNCHANGED <<vars, mapVars, optionVars, frames, curve>>

(* The tables of the pass, with its mutex; they are kept while the black   *)
(* level is the same.                                                      *)
BuildTables(t) ==
  /\ Is(t, "pass")
  /\ ~Locked(work[t].pass)
  /\ table' = [table EXCEPT ![work[t].pass] = BlackFor(t)]
  /\ GoTo(t, "in pass")
  /\ UNCHANGED <<vars, mapVars, optionVars, frames, curve>>

(* mix_images makes the alias map, if it is wanted, ... *)
StartAliasMap(t) ==
  /\ Is(t, "in pass")
  /\ work[t].pass = 2
  /\ GoTo(t, "curve")
  /\ OnlyWork

(* ... which needs the curve, and so does final_blend.  No mutex of its    *)
(* own is in build_fullres_curve, and those of the passes differ.          *)
WithCurve(t) == IF work[t].pass = 2 THEN "alias map" ELSE "pass"

AskCurve(t) ==
  /\ Is(t, "curve")
  /\ curve' = [black |-> BlackFor(t), filled |-> curve.filled /\ curve.black = BlackFor(t)]
  /\ GoTo(t, IF curve.black = BlackFor(t) THEN WithCurve(t) ELSE "fill curve")
  /\ UNCHANGED <<vars, mapVars, optionVars, frames, table>>

FillCurve(t) ==
  /\ Is(t, "fill curve")
  /\ curve' = [black |-> BlackFor(t), filled |-> TRUE]
  /\ GoTo(t, WithCurve(t))
  /\ UNCHANGED <<vars, mapVars, optionVars, frames, table>>

(* The mutex is unlocked; after the last pass the frame has 16 bits. *)
EndPass(t) ==
  /\ Stage(t) \in {"in pass", "alias map"}
  /\ Become(t, CASE work[t].pass = 1 -> [work[t] EXCEPT !.stage = "pass", !.pass = 2]
                 [] work[t].pass = 2 -> [work[t] EXCEPT !.stage = "curve", !.pass = 3]
                 [] work[t].pass = 3 -> [work[t] EXCEPT !.stage = "converted",
                                                        !.bits = 16, !.levels = 16])
  /\ OnlyWork

(* Slip: the option is read once more instead of what was done. *)
HeaderAgainForOption(t) ==
  /\ Is(t, "converted")
  /\ Become(t, [work[t] EXCEPT !.stage = "stripes",
                  !.header = IF mlvfs.dual_iso = IF work[t].mode = "preview" THEN 1 ELSE 2
                             THEN work[t].levels ELSE work[t].header])
  /\ OnlyWork

(* process_frame makes the header again. *)
HeaderAgain(t) ==
  /\ Is(t, "converted")
  /\ Become(t, [work[t] EXCEPT !.stage = "stripes", !.header = work[t].levels])
  /\ OnlyWork

-----------------------------------------------------------------------------
(* The stripe correction, see Stripes.                                     *)

NoStripes(t) ==
  /\ Is(t, "stripes")
  /\ mlvfs.fix_stripes = 0
  /\ Become(t, NoWork)
  /\ OnlyWork

FixStripes(t) ==
  /\ Is(t, "stripes")
  /\ mlvfs.fix_stripes # 0
  /\ Begin(t, work[t].job.clip, work[t].job.frame)
  /\ GoTo(t, "in stripes")
  /\ UNCHANGED <<mapVars, optionVars, frames, tableVars>>

CorrectStripes(t) ==
  /\ Is(t, "in stripes")
  /\ Develop(t)
  /\ IF pc'[t] = "idle" THEN Become(t, NoWork) ELSE UNCHANGED work
  /\ UNCHANGED <<mapVars, optionVars, frames, tableVars>>

-----------------------------------------------------------------------------
process_frame(t) ==
  \/ PreviewDualIso(t) \/ NoPreview(t) \/ FullDualIso(t) \/ NoDualIso(t)
  \/ FindFocusMap(t) \/ LoadFocusMap(t) \/ RepairFocusPixels(t)
  \/ AskBadPixels(t) \/ AskAggressive(t) \/ FindBadMap(t) \/ FillBadMap(t)
  \/ RepairBadPixels(t)
  \/ ConvertPreview(t) \/ DualIsoFails(t) \/ BuildTables(t) \/ StartAliasMap(t)
  \/ AskCurve(t) \/ FillCurve(t) \/ EndPass(t) \/ HeaderAgain(t)
  \/ NoStripes(t) \/ FixStripes(t) \/ CorrectStripes(t)

Over ==
  /\ Stopped \/ (frames = MaxBegun /\ \A t \in Threads : Stage(t) = "idle")
  /\ UNCHANGED frameVars

FrameNext ==
  \/ /\ ~Stopped
     /\ \/ SetValue \/ WriteOption
        \/ \E t \in Threads, c \in Clips, f \in Frames : BeginFrame(t, c, f)
        \/ \E t \in Threads : process_frame(t)
  \/ Over

FrameSpec == FrameInit /\ [][FrameNext]_frameVars

-----------------------------------------------------------------------------
(* Properties; see also OneCorrection of Stripes.                          *)

(* Unless threads race, a frame is repaired along maps that are complete   *)
(* and its own: the focus pixels of its camera, bad pixels searched in a   *)
(* frame of its recording with the setting asked for (in itself, if        *)
(* recordings cannot be told apart), and a stripe correction that has been *)
(* computed; whatever the ring has dropped and other threads look for.     *)
OwnMaps ==
  ~Stopped =>
    \A t \in Threads :
      LET own == work[t].job
          bad  == bad_pixel_maps[map[t]]
      IN  /\ Stage(t) = "repair focus" =>
               focus_pixel_maps[map[t]] = [camera |-> CameraFor(t), found |-> TRUE]
          /\ Stage(t) = "repair bad" =>
               /\ bad.from # None
               /\ bad.aggressive = (work[t].fix_bad_pixels = 2)
               /\ IF GuidFor(t) = 0 THEN bad.from = own
                  ELSE GuidOf[bad.from.clip] = GuidFor(t)
          /\ pc[t] = "apply" /\ ptr[t] # NULL =>
               node[ptr[t]].from # None /\ node[ptr[t]].clip = own.clip

(* Whatever the page changes in the middle of a frame, and whether dual    *)
(* ISO can be converted or not, the levels in the header are those of the  *)
(* samples in the end, and pixels are repaired, by tables for 14 bits,     *)
(* while the samples and the black level have 14.                          *)
LevelsMatch ==
  \A t \in Threads :
    /\ Stage(t) \in {"stripes", "in stripes"} => work[t].header = work[t].bits
    /\ Stage(t) \in {"focus", "repair focus", "bad", "repair bad"} =>
         work[t].bits = 14 /\ work[t].levels = 14

(* In every pass a thread converts samples by tables built for the black   *)
(* level of its own frame although threads share them, and unless threads  *)
(* race makes its alias map and blends along a curve that is filled, for   *)
(* its own level too.                                                      *)
OwnTables ==
  \A t \in Threads :
    /\ Holds(work[t]) => table[work[t].pass] = BlackFor(t)
    /\ Holds(work[t]) /\ Blends(work[t]) /\ ~Stopped =>
         curve = [black |-> BlackFor(t), filled |-> TRUE]
=============================================================================
