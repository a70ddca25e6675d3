------------------------------ MODULE PixelMaps ------------------------------
(***************************************************************************)
(* The pixel maps of cs.c: the ring of bad pixel maps, one for a recording *)
(* and a setting, and the growing array of focus pixel maps, one for a     *)
(* camera and a video mode.  Both are global and nothing locks them.  The  *)
(* actions are the steps of one thread; ProcessFrame says when it takes    *)
(* them.  map is the slot or the entry along which the thread repairs its  *)
(* frame.                                                                  *)
(***************************************************************************)
EXTENDS Integers, Sequences

CONSTANTS
  Threads,     (* FUSE worker threads                                       *)
  Cameras,     (* camera models with a width and a height                   *)
  FocusFiles,  (* those for which there is a .fpm file                      *)
  Guids,       (* fileGuid of the recordings, 0 for none                    *)
  RingSize,    (* BAD_PIXEL_MAP_COUNT                                       *)
  None

VARIABLES
  bad_pixel_maps,         (* the ring                                       *)
  current_bad_pixel_map,  (* the slot that is filled next                   *)
  focus_pixel_maps,       (* the array                                      *)
  map                     (* the slot or entry of each thread               *)

Slots == 0..RingSize - 1

(* from is the frame whose pixels were searched, None before that.         *)
BadPixelMap(frames) ==
  [file_guid : Guids \cup {0}, aggressive : BOOLEAN, from : frames \cup {None}]

(* found is None until the .fpm file has been looked for.                  *)
FocusPixelMap == [camera : Cameras, found : BOOLEAN \cup {None}]

MapsTypeOK(frames) ==
  /\ bad_pixel_maps \in [Slots -> BadPixelMap(frames)]
  /\ current_bad_pixel_map \in Slots
  /\ focus_pixel_maps \in Seq(FocusPixelMap)
  /\ map \in [Threads -> Slots \cup DOMAIN focus_pixel_maps \cup {None}]

MapsInit ==
  /\ bad_pixel_maps = [s \in Slots |-> [file_guid |-> 0, aggressive |-> FALSE, from |-> None]]
  /\ current_bad_pixel_map = 0
  /\ focus_pixel_maps = <<>>
  /\ map = [t \in Threads |-> None]

PointTo(t, pointer) == map' = [map EXCEPT ![t] = pointer]

-----------------------------------------------------------------------------
(* Bad pixels.                                                             *)

(* Slip: the setting of the map is not compared. *)
MatchesAnySetting(slot, guid, aggressive) ==
  guid # 0 /\ bad_pixel_maps[slot].file_guid = guid

Matches(slot, guid, aggressive) ==
  /\ guid # 0
  /\ bad_pixel_maps[slot].file_guid = guid
  /\ bad_pixel_maps[slot].aggressive = aggressive

(* The loop goes on after a match: the last one counts. *)
BadPixelsFound(t, guid, aggressive) ==
  /\ \E slot \in Slots :
       /\ Matches(slot, guid, aggressive)
       /\ \A later \in Slots : later > slot => ~Matches(later, guid, aggressive)
       /\ PointTo(t, slot)
  /\ UNCHANGED <<bad_pixel_maps, current_bad_pixel_map, focus_pixel_maps>>

(* Slip: the ring does not close. *)
ClaimSlotBeyond(t, guid, aggressive) ==
  /\ \A slot \in Slots : ~Matches(slot, guid, aggressive)
  /\ PointTo(t, current_bad_pixel_map)
  /\ current_bad_pixel_map' = current_bad_pixel_map + 1
  /\ bad_pixel_maps' = [bad_pixel_maps EXCEPT ![current_bad_pixel_map] =
                          [file_guid |-> guid, aggressive |-> aggressive, from |-> None]]
  /\ UNCHANGED focus_pixel_maps

(* Nothing found: the next slot of the ring is given to this recording and *)
(* its pixels are freed ...                                                *)
ClaimSlot(t, guid, aggressive) ==
  /\ \A slot \in Slots : ~Matches(slot, guid, aggressive)
  /\ PointTo(t, current_bad_pixel_map)
  /\ current_bad_pixel_map' = (current_bad_pixel_map + 1) % RingSize
  /\ bad_pixel_maps' = [bad_pixel_maps EXCEPT ![current_bad_pixel_map] =
                          [file_guid |-> guid, aggressive |-> aggressive, from |-> None]]
  /\ UNCHANGED focus_pixel_maps

(* ... and those of the frame of this thread are added one by one. *)
FindBadPixels(t, frame) ==
  /\ bad_pixel_maps' = [bad_pixel_maps EXCEPT ![map[t]].from = frame]
  /\ UNCHANGED <<current_bad_pixel_map, focus_pixel_maps, map>>

-----------------------------------------------------------------------------
(* Focus pixels.                                                           *)

Unknown(camera) ==
  \A entry \in DOMAIN focus_pixel_maps : focus_pixel_maps[entry].camera # camera

(* get_focus_pixel_map: the first entry for the camera counts.  One        *)
(* without pixels stands for a file that is not looked for again.          *)
FocusPixelsFound(t, camera) ==
  /\ \E entry \in DOMAIN focus_pixel_maps :
       /\ focus_pixel_maps[entry].camera = camera
       /\ \A earlier \in 1..entry - 1 : focus_pixel_maps[earlier].camera # camera
       /\ PointTo(t, IF focus_pixel_maps[entry].found = TRUE THEN entry ELSE None)
  /\ UNCHANGED <<bad_pixel_maps, current_bad_pixel_map, focus_pixel_maps>>

(* load_focus_pixel_map: the array grows, and moves.  (Without memory for  *)
(* it the maps are lost; this is left out.)                                *)
AddFocusPixelMap(t, camera) ==
  /\ Unknown(camera)
  /\ focus_pixel_maps' = Append(focus_pixel_maps, [camera |-> camera, found |-> None])
  /\ PointTo(t, Len(focus_pixel_maps) + 1)
  /\ UNCHANGED <<bad_pixel_maps, current_bad_pixel_map>>

(* The file is read, if there is one. *)
ReadFocusFile(t, camera) ==
  /\ focus_pixel_maps' = [focus_pixel_maps EXCEPT ![map[t]].found = camera \in FocusFiles]
  /\ PointTo(t, IF camera \in FocusFiles THEN map[t] ELSE None)
  /\ UNCHANGED <<bad_pixel_maps, current_bad_pixel_map>>

-----------------------------------------------------------------------------
(* The frame has been repaired along the map of its thread. *)
Release(t) ==
  /\ PointTo(t, None)
  /\ UNCHANGED <<bad_pixel_maps, current_bad_pixel_map, focus_pixel_maps>>
=============================================================================
