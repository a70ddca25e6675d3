------------------------------ MODULE MCOverlay ------------------------------
(* Instances of Overlay for TLC. *)
EXTENDS Overlay, TLC

CONSTANTS x, y, d, n, r1, r2, n1

Name(stem, ext) == [stem |-> stem, ext |-> ext]

clip == <<Name(x, "MLV")>>
other == <<Name(y, "MLV")>>
hidden == <<Name(x, "MLD")>>
long == <<Name(x, "clip")>>
folder == <<Name(d, "other")>>
note == <<Name(n, "other")>>
frame == <<Name(n, "dng")>>
sound == <<Name(n, "wav")>>

(* A clip with a note, and a folder with one and with a clip of that name. *)
MCFirstDisk ==
  (clip :> r1) @@ (hidden :> Dir) @@ (hidden \o note :> n1)
  @@ (folder :> Dir) @@ (folder \o note :> n1) @@ (folder \o clip :> r2)

MCUserPaths ==
  {clip, other, hidden, long, folder, clip \o note, other \o note, hidden \o note,
   long \o note, folder \o note, clip \o frame, clip \o folder,
   clip \o folder \o frame, clip \o folder \o note, folder \o clip,
   folder \o clip \o note, clip \o other, long \o frame, other \o frame,
   folder \o clip \o frame, clip \o sound}

MCMoves ==
  {clip, folder, hidden} \X {other}
  \cup {other} \X {clip, folder, clip \o other}
  \cup {<<clip, folder \o clip>>, <<folder \o clip, clip>>, <<clip \o other, other>>}
  \cup {<<folder, clip \o folder>>, <<clip \o folder, folder>>, <<clip, folder>>}
  \cup ({clip \o note, other \o note, hidden \o note, folder \o note, clip \o folder \o note}
        \X {clip \o note, other \o note, folder \o note, clip \o folder \o note})
=============================================================================
