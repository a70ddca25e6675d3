------------------------------- MODULE Overlay -------------------------------
(***************************************************************************)
(* The names of the mounted directory (main.c, the handlers of             *)
(* mlvfs_filesystem_operations that touch the disk below).  The disk holds *)
(* recordings <clip>.MLV.  The mount shows each as a directory with the    *)
(* developed frames, which are on no disk, and with the files that the     *)
(* user keeps there, which are in the directory <clip>.MLD.                *)
(*                                                                         *)
(* A name is a stem and what the code looks at behind it:                  *)
(*   "MLV", "MLD"  these extensions                                        *)
(*   "dng"         .dng                                                    *)
(*   "wav"         .wav, .gif and .log                                     *)
(*   "clip"        <stem>MLV_1_<date>_0001_C0000, the name of a clip with  *)
(*                 --resolve-naming                                        *)
(*   "other"       anything else                                           *)
(* A path is a sequence of names, below the mount or below --mlv_dir.      *)
(* Names that begin with ._, which the code leaves alone, .IDX files and   *)
(* the other chunks of a clip are left out.  Each request runs alone: the  *)
(* kernel lets in one change of a directory at a time.                     *)
(***************************************************************************)
EXTENDS Naturals, Sequences, SequencesExt, FiniteSets

CONSTANTS
  Stems,        (* what names begin with                                    *)
  Recordings,   (* contents of .MLV files                                   *)
  Notes,        (* contents of files that users write                       *)
  Empty,        (* the content of a file that has just been created         *)
  Dir,          (* what is at the path of a directory                       *)
  UserPaths,    (* paths that users name                                    *)
  Moves,        (* pairs of them: what users rename, to what                *)
  FirstDisk,    (* the disk when it is mounted                              *)
  MaxSteps      (* changes in a run                                         *)

Exts == {"MLV", "MLD", "dng", "wav", "clip", "other"}
Names == [stem : Stems, ext : Exts]
Path == Seq(Names)
Files == Recordings \cup Notes \cup {Empty}

Above(p) == SubSeq(p, 1, Len(p) - 1)
Named(p, ext) == Append(Above(p), [stem |-> Last(p).stem, ext |-> ext])
AtOrBelow(p, q) == IsPrefix(p, q)

(* What is on a disk is in a directory. *)
IsDisk(D) ==
  /\ IsFiniteSet(DOMAIN D)
  /\ \A p \in DOMAIN D :
       /\ p \in Path \ {<<>>}
       /\ D[p] \in Files \cup {Dir}
       /\ Len(p) > 1 => Above(p) \in DOMAIN D /\ D[Above(p)] = Dir

ASSUME ConstantsAssumption ==
  /\ Dir \notin Files
  /\ UserPaths \subseteq Path \ {<<>>}
  /\ Moves \subseteq UserPaths \X UserPaths
  /\ IsDisk(FirstDisk)
  /\ MaxSteps \in Nat

VARIABLES
  disk,         (* path -> what is there; the directory itself is not in it *)
  name_scheme,  (* --resolve-naming, or set in the web page                 *)
  attrs,        (* dng_attr_mappings: clip -> what its attributes are of    *)
  saved,        (* what users have written and not given up: path -> file   *)
  steps         (* changes so far                                           *)

vars == <<disk, name_scheme, attrs, saved, steps>>

TypeOK ==
  /\ IsDisk(disk)
  /\ name_scheme \in {0, 1}
  /\ \A p \in DOMAIN attrs :
       p \in Path \ {<<>>} /\ Last(p).ext = "MLV" /\ attrs[p] \in Recordings
  /\ \A p \in DOMAIN saved :
       p \in Path \ {<<>>} /\ saved[p] \in Notes \cup {Empty}
  /\ steps \in 0..MaxSteps

-----------------------------------------------------------------------------
(* The disk.  A call that fails changes nothing.                           *)

IsDirOn(D, p) == p = <<>> \/ (p \in DOMAIN D /\ D[p] = Dir)
IsFileOn(D, p) == p \in DOMAIN D /\ D[p] # Dir
Without(D, gone) == [p \in DOMAIN D \ gone |-> D[p]]
With(D, p, what) == [q \in DOMAIN D \cup {p} |-> IF q = p THEN what ELSE D[q]]
Over(D, E) == [q \in DOMAIN D \cup DOMAIN E |-> IF q \in DOMAIN D THEN D[q] ELSE E[q]]

mkdir(D, p) ==
  IF p \notin DOMAIN D /\ IsDirOn(D, Above(p)) THEN With(D, p, Dir) ELSE D

creat(D, p) ==
  IF IsDirOn(D, Above(p)) /\ ~IsDirOn(D, p) THEN With(D, p, Empty) ELSE D

unlink(D, p) == IF IsFileOn(D, p) THEN Without(D, {p}) ELSE D

rmdir(D, p) ==
  IF IsDirOn(D, p) /\ ~\E q \in DOMAIN D : q # p /\ AtOrBelow(p, q)
  THEN Without(D, {p}) ELSE D

Renames(D, from, to) ==
  /\ from \in DOMAIN D
  /\ IsDirOn(D, Above(to))
  /\ ~(from # to /\ AtOrBelow(from, to))
  /\ to \in DOMAIN D /\ from # to =>
       /\ IsDirOn(D, from) <=> IsDirOn(D, to)
       /\ ~\E q \in DOMAIN D : q # to /\ AtOrBelow(to, q)

(* A path that was at or below from. *)
MovedPath(p, from, to) == to \o SubSeq(p, Len(from) + 1, Len(p))

rename(D, from, to) ==
  IF ~Renames(D, from, to) THEN D
  ELSE LET moving == {p \in DOMAIN D : AtOrBelow(from, p)}
           back   == [q \in {MovedPath(p, from, to) : p \in moving} |->
                        D[MovedPath(q, to, from)]]
       IN  Over(back, Without(D, moving))

-----------------------------------------------------------------------------
(* From the mount to the disk.                                             *)

(* is_mlv_file *)
IsMlv(name) == name.ext = "MLV"

(* Slip: the long names are shown and not understood. *)
IsShort(name) == IsMlv(name)

(* Names that the code takes for a clip, get_mlv_name_from_basename and    *)
(* is_mlv_file in mlvfs_resolve_path.                                      *)
IsClip(name) == IsMlv(name) \/ (name_scheme = 1 /\ name.ext = "clip")

(* mlvfs_resolve_path: the first name on the path that is a clip's.        *)
InClip(path) == \E k \in DOMAIN path : IsClip(path[k])
ClipAt(path) ==
  CHOOSE k \in DOMAIN path : IsClip(path[k]) /\ \A j \in 1..k - 1 : ~IsClip(path[j])

mlv_file(path) == Named(SubSeq(path, 1, ClipAt(path)), "MLV")
path_in_mlv(path) == SubSeq(path, ClipAt(path) + 1, Len(path))

(* mlvfs_resolve_virtual answers NULL: a frame, on no disk. *)
IsVirtual(path) ==
  InClip(path) /\ Len(path_in_mlv(path)) = 1 /\ Last(path).ext \in {"dng", "wav"}

(* Slip: clips of one name in two directories share a .MLD directory. *)
SharedMld(path) ==
  IF ~InClip(path) THEN path
  ELSE IF path_in_mlv(path) = <<>> THEN mlv_file(path)
  ELSE <<Last(Named(mlv_file(path), "MLD"))>> \o path_in_mlv(path)

(* mlvfs_resolve_virtual, for all other paths. *)
Real(path) ==
  IF ~InClip(path) THEN path
  ELSE IF path_in_mlv(path) = <<>> THEN mlv_file(path)
  ELSE Named(mlv_file(path), "MLD") \o path_in_mlv(path)

(* mlv_get_frame_headers finds a frame. *)
IsReadable(p) == IsFileOn(disk, p) /\ disk[p] \in Recordings

(* Slip: clips of one name in two directories share their attributes. *)
AttrName(path) == <<Last(mlv_file(path))>>

(* What lookup_dng_attr and register_dng_attr are asked for. *)
AttrPath(path) == mlv_file(path)

(* A frame that is told of without looking at the clip. *)
IsRegistered(path) == Last(path).ext = "dng" /\ AttrPath(path) \in DOMAIN attrs

IsFrame(path) == IsRegistered(path) \/ IsReadable(mlv_file(path))

(* Slip: a clip is shown as the file it is. *)
StatOnly(path) ==
  IF path = <<>> THEN "dir"
  ELSE IF IsVirtual(path) THEN IF IsFrame(path) THEN "file" ELSE "none"
  ELSE IF Real(path) \notin DOMAIN disk THEN "none"
  ELSE IF IsDirOn(disk, Real(path)) THEN "dir" ELSE "file"

(* mlvfs_getattr: what is at a path. *)
getattr(path) ==
  IF path = <<>> THEN "dir"
  ELSE IF IsVirtual(path) THEN IF IsFrame(path) THEN "file" ELSE "none"
  ELSE IF Real(path) \notin DOMAIN disk THEN "none"
  ELSE IF IsMlv(Last(Real(path))) \/ IsDirOn(disk, Real(path)) THEN "dir" ELSE "file"

(* The kernel asks for each directory on the way. *)
Lookup(path) ==
  IF \A k \in 0..Len(path) - 1 : getattr(SubSeq(path, 1, k)) = "dir"
  THEN getattr(path) ELSE "none"

-----------------------------------------------------------------------------
(* mlvfs_readdir                                                           *)

(* get_mlv_basename, of a recording in the directory p. *)
ShownAs(p, name) ==
  IF name_scheme = 0 \/ ~IsMlv(name) THEN name
  ELSE [stem |-> name.stem,
        ext  |-> IF IsReadable(Append(p, name)) THEN "clip" ELSE "other"]

(* Names that end in .MLD are not shown and have no listing. *)
IsMld(name) == name.ext = "MLD"

(* Names in a directory of the disk; plain files only for a clip. *)
Entries(p, is_mld_dir) ==
  {ShownAs(p, name) : name \in
     {Last(q) : q \in {q \in DOMAIN disk :
        /\ Above(q) = p
        /\ ~IsMld(Last(q))
        /\ is_mld_dir \/ IsMlv(Last(q)) \/ IsDirOn(disk, q)}}}

IsClipDir(path) == path # <<>> /\ InClip(path) /\ path_in_mlv(path) = <<>>

(* The directory of the disk whose names are listed at path. *)
ListedDir(path) ==
  IF path = <<>> THEN path
  ELSE IF IsClipDir(path) THEN Named(mlv_file(path), "MLD") ELSE Real(path)

readdir(path) ==
  IF path # <<>> /\ IsMld(Last(path)) THEN {}
  ELSE IF IsClipDir(path)
  THEN [stem : {Last(path).stem}, ext : {"dng", "wav"}] \cup Entries(ListedDir(path), TRUE)
  ELSE IF path # <<>> /\ IsVirtual(path) THEN {}
  ELSE Entries(ListedDir(path), FALSE)

-----------------------------------------------------------------------------
(* What users have saved.                                                  *)

(* The name of a path that every naming scheme knows. *)
Plain(path) ==
  IF InClip(path) THEN mlv_file(path) \o path_in_mlv(path) ELSE path

(* A hidden name on the path makes it another path of what is in a clip. *)
IsHidden(path) == \E k \in DOMAIN path : path[k].ext = "MLD"

(* Paths of what is followed: no frame, nothing that is hidden or that one *)
(* of the naming schemes takes for a clip.                                 *)
IsKept(path) ==
  /\ Last(path).ext \in {"other", "dng", "wav"}
  /\ ~IsVirtual(path)
  /\ ~IsHidden(path)
  /\ \A k \in DOMAIN path : Plain(path)[k].ext # "clip"

Save(path, content) ==
  [p \in DOMAIN saved \cup (IF IsKept(path) THEN {Plain(path)} ELSE {}) |->
     IF p = Plain(path) \/ (IsHidden(path) /\ Real(p) = Real(path)) THEN content
     ELSE saved[p]]

(* What is given up with path: it and what is below it. *)
GivenUp(path) ==
  {p \in DOMAIN saved : AtOrBelow(Plain(path), p)
                        \/ (IsHidden(path) /\ AtOrBelow(Real(path), Real(p)))}

GiveUp(path) == Without(saved, GivenUp(path))

(* A directory or file takes along what is below it.  The files of a clip  *)
(* that is renamed stay in the .MLD directory of the old name, and those   *)
(* of a clip that goes into a clip are not found there.                    *)
TakeAlong(from, to) ==
  LET moving == {p \in DOMAIN saved :
                   /\ AtOrBelow(Plain(from), p)
                   /\ ~IsClip(Last(from)) /\ ~IsClip(Last(to))
                   /\ IsKept(MovedPath(p, Plain(from), Plain(to)))
                   /\ \A k \in Len(Plain(from)) + 1..Len(p) : ~IsClip(p[k])}
      along  == [q \in {MovedPath(p, Plain(from), Plain(to)) : p \in moving} |->
                   saved[MovedPath(q, Plain(to), Plain(from))]]
  IN  Over(along, Without(saved, GivenUp(from) \cup GivenUp(to)))

-----------------------------------------------------------------------------
(* Requests.  The kernel has looked the paths up and lets through what     *)
(* fits what it has been told.                                             *)

Step == steps < MaxSteps /\ steps' = steps + 1

(* check_mld_exists *)
check_mld_exists(D, p) ==
  IF ~\E k \in DOMAIN p : p[k].ext = "MLD" THEN D
  ELSE LET k == CHOOSE k \in DOMAIN p :
                  p[k].ext = "MLD" /\ \A j \in 1..k - 1 : p[j].ext # "MLD"
       IN  mkdir(D, SubSeq(p, 1, k))

IsNew(path) == Lookup(Above(path)) = "dir" /\ Lookup(path) = "none"

(* mlvfs_create; EPERM for a frame *)
Create(path) ==
  /\ Step
  /\ IsNew(path)
  /\ ~IsVirtual(path)
  /\ disk' = creat(check_mld_exists(disk, Real(path)), Real(path))
  /\ saved' = IF IsFileOn(disk', Real(path)) THEN Save(path, Empty) ELSE saved
  /\ UNCHANGED <<name_scheme, attrs>>

(* mlvfs_mkdir *)
Mkdir(path) ==
  /\ Step
  /\ IsNew(path)
  /\ ~IsVirtual(path)
  /\ disk' = mkdir(check_mld_exists(disk, Real(path)), Real(path))
  /\ UNCHANGED <<name_scheme, attrs, saved>>

(* mlvfs_open, mlvfs_write, mlvfs_truncate: nothing is written to a frame. *)
Write(path) ==
  /\ Step
  /\ Lookup(path) = "file"
  /\ ~IsVirtual(path)
  /\ \E content \in Notes \cup {Empty} :
       /\ disk' = [disk EXCEPT ![Real(path)] = content]
       /\ saved' = Save(path, content)
  /\ UNCHANGED <<name_scheme, attrs>>

(* mlvfs_unlink; EPERM for a frame *)
Unlink(path) ==
  /\ Step
  /\ Lookup(path) = "file"
  /\ ~IsVirtual(path)
  /\ disk' = unlink(disk, Real(path))
  /\ saved' = GiveUp(path)
  /\ UNCHANGED <<name_scheme, attrs>>

(* mlvfs_rmdir, which answers 0 in any case.  Who made a directory with a  *)
(* clip's name and removes it has given up the files kept under that name. *)
Rmdir(path) ==
  /\ Step
  /\ Lookup(path) = "dir"
  /\ disk' = rmdir(disk, Real(path))
  /\ saved' = IF IsClip(Last(path)) /\ disk' # disk THEN GiveUp(path) ELSE saved
  /\ UNCHANGED <<name_scheme, attrs>>

(* mlvfs_rename, which answers 0 when both paths are on the disk. *)
Rename(from, to) ==
  /\ Step
  /\ Lookup(from) # "none"
  /\ Lookup(Above(to)) = "dir"
  /\ Lookup(to) \in {"none", Lookup(from)}
  /\ ~AtOrBelow(from, to) /\ ~AtOrBelow(to, from)
  /\ ~IsVirtual(from) /\ ~IsVirtual(to)
  /\ disk' = rename(disk, Real(from), Real(to))
  /\ saved' = IF Renames(disk, Real(from), Real(to)) THEN TakeAlong(from, to)
              ELSE saved
  /\ UNCHANGED <<name_scheme, attrs>>

(* Slip: the schemes are counted and not switched. *)
NextNameScheme ==
  /\ Step
  /\ name_scheme' = name_scheme + 1
  /\ UNCHANGED <<disk, attrs, saved>>

(* The web page changes the names of clips. *)
SetNameScheme ==
  /\ Step
  /\ name_scheme' = 1 - name_scheme
  /\ UNCHANGED <<disk, attrs, saved>>

(* mlvfs_getattr of a frame, for the first time of all frames of a clip:   *)
(* the attributes are kept for the others, and for ever.                   *)
Stat(path) ==
  /\ IsVirtual(path) /\ Last(path).ext = "dng"
  /\ Lookup(path) = "file"
  /\ ~IsRegistered(path)
  /\ attrs' = With(attrs, AttrPath(path), disk[mlv_file(path)])
  /\ UNCHANGED <<disk, name_scheme, saved, steps>>

(* Somebody copies a recording into --mlv_dir. *)
CopyIn(path) ==
  /\ Step
  /\ Len(path) = 1 /\ IsMlv(Last(path)) /\ path \notin DOMAIN disk
  /\ \E r \in Recordings : disk' = With(disk, path, r)
  /\ UNCHANGED <<name_scheme, attrs, saved>>

(* What users have saved by then, under the names that every scheme knows. *)
FirstSaved ==
  [p \in {p \in UserPaths : /\ IsKept(p) /\ Plain(p) = p /\ Lookup(p) = "file"
                           /\ disk[Real(p)] \in Notes \cup {Empty}} |-> disk[Real(p)]]

Init ==
  /\ disk = FirstDisk
  /\ name_scheme \in {0, 1}
  /\ attrs = [p \in {} |-> Empty]
  /\ saved = FirstSaved
  /\ steps = 0

Next ==
  \/ \E path \in UserPaths :
       \/ Create(path)
       \/ Mkdir(path)
       \/ Write(path)
       \/ Unlink(path)
       \/ Rmdir(path)
       \/ Stat(path)
       \/ CopyIn(path)
  \/ \E move \in Moves : Rename(move[1], move[2])
  \/ SetNameScheme

Spec == Init /\ [][Next]_vars

-----------------------------------------------------------------------------
(* Properties.                                                             *)

(* What a user finds who lists the directories dirs. *)
Shown(dirs) == UNION {{Append(p, name) : name \in readdir(p)} : p \in dirs}

(* Directories that a user finds who lists the mount and what is in it. *)
ShownDirs[depth \in Nat] ==
  IF depth = 0 THEN {<<>>}
  ELSE LET above == ShownDirs[depth - 1]
       IN  above \cup {p \in Shown(above) : Lookup(p) = "dir"}

Depth == 2

(* Names in the listing of p that the code itself does not find again:     *)
(* frames of a file without any, and with the long names a clip that is    *)
(* kept in a clip, a folder that is named like a clip and a .MLV file      *)
(* without frames.                                                         *)
IsOddName(p, name) ==
  \/ IsClipDir(p) /\ name.ext \in {"dng", "wav"} /\ ~IsReadable(mlv_file(p))
  \/ /\ name_scheme = 1
     /\ name.ext = "clip"
     /\ InClip(p) \/ Append(ListedDir(p), name) \in DOMAIN disk
  \/ /\ name_scheme = 1
     /\ LET mlv == Named(Append(ListedDir(p), name), "MLV")
        IN  mlv \in DOMAIN disk /\ ~IsReadable(mlv)

(* Every name in a listing (mlvfs_readdir) is there when it is asked for   *)
(* (mlvfs_getattr), in both naming schemes: each of the two makes up names *)
(* and takes them apart in its own code.  And no file of the disk is shown *)
(* under two paths (mlvfs_resolve_virtual and what mlvfs_readdir passes    *)
(* over).                                                                  *)
ListedResolves ==
  LET shown == Shown(ShownDirs[Depth])
      there == {p \in shown : Lookup(p) # "none"}
      stored == {p \in there : ~IsVirtual(p)}
  IN  /\ \A p \in shown \ there : IsOddName(Above(p), Last(p))
      /\ Cardinality({Real(p) : p \in stored}) = Cardinality(stored)

(* What a user has written is there, as it was written last, until the     *)
(* user removes it or a directory above it is renamed; a file kept in a    *)
(* clip is also in its listing.  The other requests, on this path or       *)
(* another, in clips, folders or hidden .MLD directories, and a change of  *)
(* the naming scheme leave it alone.                                       *)
SavedStays ==
  \A p \in DOMAIN saved :
    /\ Lookup(p) = "file"
    /\ disk[Real(p)] = saved[p]
    /\ InClip(p) /\ Len(path_in_mlv(p)) = 1 => Last(p) \in readdir(Above(p))

Clips(D) == {D[p] : p \in {q \in DOMAIN D : IsMlv(Last(q))}} \cap Recordings

(* No request destroys a recording: it can only be renamed to something    *)
(* that is no clip, or be replaced by another that is renamed to its name. *)
(* The handlers do not look; what protects it is that mlvfs_getattr shows  *)
(* it as a directory.                                                      *)
ClipsSurvive ==
  [][\A r \in Clips(disk) \ Clips(disk') :
       \E move \in Moves :
         /\ Rename(move[1], move[2])
         /\ \E p \in {Real(move[1]), Real(move[2])} : p \in DOMAIN disk /\ disk[p] = r]_vars

WhatIsAt(D, p) == IF p \in DOMAIN D THEN D[p] ELSE Dir

(* The attributes that are kept for the frames of a clip, in whichever     *)
(* directory it is and by whichever of its names it was asked for first,   *)
(* are those of the recording at its path; they are of another one only if *)
(* another has been put at that very path since, never by a change of a    *)
(* clip elsewhere or of the naming scheme.                                 *)
AttrsOfClip ==
  [][\A p \in DOMAIN attrs' :
       \/ attrs'[p] = WhatIsAt(disk', p)
       \/ WhatIsAt(disk', p) # WhatIsAt(disk, p)
       \/ p \in DOMAIN attrs /\ attrs[p] # WhatIsAt(disk, p)]_vars
=============================================================================
