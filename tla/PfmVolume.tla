------------------------------ MODULE PfmVolume ------------------------------
(***************************************************************************)
(* The volume of the Windows file system (win/mlvfs-pfm.cpp): a tree of    *)
(* File objects in memory, the list of the open ones, and the iterators of *)
(* directories that are being listed.  One thread serves the requests of   *)
(* the file system driver, one after the other.                            *)
(*                                                                         *)
(* What can go wrong is in the pointers.  The children of a folder are     *)
(* linked through sibNext and sibPrev, where sibPrev points at the pointer *)
(* that points at the file: a slot, either the firstChild of the folder or *)
(* the sibNext of the previous child.  An iterator keeps such a slot from  *)
(* one request to the next.  A file that is deleted while it is open stays *)
(* in memory, unlinked, until it is closed.  The open list is searched by  *)
(* openId, which is never given twice, and is kept here as a flag.         *)
(***************************************************************************)
EXTENDS Integers, FiniteSets

CONSTANTS
  Names,         (* names of files and folders                              *)
  XmpNames,      (* those that are mapped to a file of the .MLD directory   *)
  VirtualName,   (* the name of the virtual file made by Volume::Init       *)
  ListIds,       (* ids the driver gives to its enumerations of a folder    *)
  MaxFiles,      (* bound: files ever created, with the root                *)
  MaxLists,      (* bound: enumerations at once                             *)
  MaxClosing,    (* bound: closes on their way at once                      *)
  CyclicMoves,   (* does the driver ask to move a folder into its subtree   *)
  None

ASSUME ConstantsAssumption ==
  /\ XmpNames \subseteq Names
  /\ VirtualName \in Names \ XmpNames
  /\ MaxFiles \in Nat /\ MaxFiles >= 2
  /\ {MaxLists, MaxClosing} \subseteq Nat
  /\ CyclicMoves \in BOOLEAN
  /\ None \notin Names

VARIABLES
  file,        (* the File objects in memory, by fileId                     *)
  lastFileId,
  lists,       (* the FileList objects, by folder and listId                *)
  driver       (* what the driver wants of a file that is in memory         *)

vars == <<file, lastFileId, lists, driver>>

NULL == 0
root == 1
NoSlot == <<"none", NULL>>
Slots == {"first", "next"} \X (1..MaxFiles)

(* Of openSequence only the comparison with that of a close on its way     *)
(* matters: ahead is the difference, 1 standing for any number of opens.   *)
File == [type : {"TEMPORARY", "VIRTUAL", "MAPPED"}, folder : BOOLEAN,
         name : Names \cup {None}, parent : 0..MaxFiles,
         sibPrev : Slots \cup {NoSlot}, sibNext : 0..MaxFiles,
         firstChild : 0..MaxFiles, open : BOOLEAN,
         ahead : 0..1]

(* due, done and again are history: of the children that have been in the  *)
(* folder since the list was begun, those it has not delivered yet, those  *)
(* it has, and whether one was delivered twice.                            *)
FileList == [position : Slots, due : SUBSET (1..MaxFiles),
             done : SUBSET (1..MaxFiles), again : BOOLEAN]

live == DOMAIN file

VolumeTypeOK ==
  /\ lastFileId \in 2..MaxFiles
  /\ live \subseteq 1..lastFileId
  /\ root \in live
  /\ file \in [live -> File]
  /\ DOMAIN lists \subseteq live \X ListIds
  /\ lists \in [DOMAIN lists -> FileList]
  /\ driver \in [live -> [wants : BOOLEAN, closing : BOOLEAN]]

NewFile(type, folder, name) ==
  [type |-> type, folder |-> folder, name |-> name, parent |-> NULL,
   sibPrev |-> NoSlot, sibNext |-> NULL, firstChild |-> NULL,
   open |-> FALSE, ahead |-> 0]

(* Volume::Init, for a clip of one frame. *)
Init ==
  /\ file = [f \in {1, 2} |->
               IF f = root
               THEN [NewFile("TEMPORARY", TRUE, None) EXCEPT !.firstChild = 2]
               ELSE [NewFile("VIRTUAL", FALSE, VirtualName) EXCEPT
                       !.parent = root, !.sibPrev = <<"first", root>>]]
  /\ lastFileId = 2
  /\ lists = [l \in {} |-> 0]
  /\ driver = [f \in {1, 2} |-> [wants |-> FALSE, closing |-> FALSE]]

-----------------------------------------------------------------------------
(* Following the pointers of a heap F.                                     *)

(* The file a slot points at. *)
Deref(F, slot) ==
  IF slot[1] = "first" THEN F[slot[2]].firstChild ELSE F[slot[2]].sibNext

SetSlot(F, slot, f) ==
  IF slot[1] = "first" THEN [F EXCEPT ![slot[2]].firstChild = f]
                       ELSE [F EXCEPT ![slot[2]].sibNext = f]

(* The slots of folder d, as far as they are linked to memory in use. *)
SlotsOf(F, d) ==
  LET S[k \in Nat] ==
        IF k = 0 THEN {<<"first", d>>}
        ELSE LET slots == S[k - 1]
             IN  slots \cup {<<"next", f>> :
                              f \in {Deref(F, s) : s \in slots} \cap DOMAIN F}
  IN  S[Cardinality(DOMAIN F) - 1]

ChildrenOf(F, d) == {Deref(F, s) : s \in SlotsOf(F, d)} \cap DOMAIN F

FoldersOf(F) == {f \in DOMAIN F : F[f].folder}

(* Files below and including those of S. *)
Below(F, S) ==
  LET B[k \in Nat] ==
        IF k = 0 THEN S
        ELSE LET above == B[k - 1]
             IN  above \cup UNION {ChildrenOf(F, d) : d \in above \cap FoldersOf(F)}
  IN  B[Cardinality(DOMAIN F)]

Tree(F) == Below(F, {root})

(* Volume::FindFile: the child of d with this name, and the slot of a name *)
(* that is not there, at the end.                                          *)
Found(d, n) == {f \in ChildrenOf(file, d) : file[f].name = n}

EndSlot(d) == CHOOSE s \in SlotsOf(file, d) : Deref(file, s) = NULL

-----------------------------------------------------------------------------
(* Changing the pointers.                                                  *)

(* Slip: the next sibling's sibPrev still points at the old slot. *)
LinkForward(F, f, d, slot, n) ==
  SetSlot([F EXCEPT ![f].parent = d, ![f].sibPrev = slot,
                    ![f].sibNext = Deref(F, slot), ![f].name = n], slot, f)

(* File::Init and File::Move: put f at a slot of folder d. *)
Link(F, f, d, slot, n) ==
  LET next == Deref(F, slot)
      G == [F EXCEPT ![f].parent = d, ![f].sibPrev = slot, ![f].sibNext = next,
                     ![f].name = n]
      H == SetSlot(G, slot, f)
  IN  IF next = NULL THEN H ELSE [H EXCEPT ![next].sibPrev = <<"next", f>>]

(* File::Delete, for the file itself.  Its sibNext, which nothing reads any *)
(* more, is cleared here.                                                  *)
Unlink(F, f) ==
  LET next == F[f].sibNext
      G == SetSlot(F, F[f].sibPrev, next)
      H == IF next = NULL THEN G ELSE [G EXCEPT ![next].sibPrev = F[f].sibPrev]
  IN  [H EXCEPT ![f].parent = NULL, ![f].sibPrev = NoSlot, ![f].sibNext = NULL,
                ![f].name = None]

(* Slip: an iterator behind the file starts again. *)
StepBackToStart(L, F, f) ==
  [l \in DOMAIN L |->
     IF l[1] # F[f].parent THEN L[l]
     ELSE [L[l] EXCEPT
             !.position = IF @ = <<"next", f>> THEN <<"first", l[1]>> ELSE @,
             !.due = @ \ {f}, !.done = @ \ {f}]]

(* "Make sure no list iterators are referencing this file." *)
StepBack(L, F, f) ==
  [l \in DOMAIN L |->
     IF l[1] # F[f].parent THEN L[l]
     ELSE [L[l] EXCEPT
             !.position = IF @ = <<"next", f>> THEN F[f].sibPrev ELSE @,
             !.due = @ \ {f}, !.done = @ \ {f}]]

(* File::Delete of the children of a folder and of theirs. *)
Prune(F, f) ==
  LET pruned == Below(F, {f}) \ {f}
  IN  [g \in DOMAIN F |->
         IF g \in pruned
         THEN [F[g] EXCEPT !.parent = NULL, !.sibPrev = NoSlot, !.sibNext = NULL,
                           !.name = None, !.firstChild = NULL]
         ELSE IF g = f THEN [F[g] EXCEPT !.firstChild = NULL] ELSE F[g]]

PruneLists(L, F, f) ==
  [l \in DOMAIN L |->
     IF l[1] \in Below(F, {f})
     THEN [L[l] EXCEPT !.position = <<"first", l[1]>>, !.due = {}, !.done = {}]
     ELSE L[l]]

(* "if(!sibPrev && !openPrev && this != root) delete this" *)
IsGarbage(F, f) == F[f].sibPrev = NoSlot /\ ~F[f].open /\ f # root

(* Slip: the iterators of a folder outlive it. *)
BecomeWithLists(F, L, D) ==
  LET kept == {f \in DOMAIN F : ~IsGarbage(F, f)}
  IN  /\ file' = [f \in kept |-> F[f]]
      /\ lists' = L
      /\ driver' = [f \in kept |-> D[f]]

(* The memory after a request: ~File ends the iterators of a folder. *)
Become(F, L, D) ==
  LET kept == {f \in DOMAIN F : ~IsGarbage(F, f)}
  IN  /\ file' = [f \in kept |-> F[f]]
      /\ lists' = [l \in {m \in DOMAIN L : m[1] \in kept} |-> L[l]]
      /\ driver' = [f \in kept |-> D[f]]

(* File::Open and File::Opened. *)
Opened(F, f) ==
  [F EXCEPT ![f].open = TRUE,
            ![f].ahead = IF f \in live /\ driver[f].closing THEN 1 ELSE 0]

(* The driver gets an answer that says f is open. *)
Wants(f) ==
  [g \in live \cup {f} |->
     IF g # f THEN driver[g]
     ELSE [wants |-> TRUE, closing |-> f \in live /\ driver[f].closing]]

(* Neither virtual nor mapped: the volume may rename and replace it. *)
IsTemporary(f) == file[f].type = "TEMPORARY"

-----------------------------------------------------------------------------
(* Requests.                                                               *)

(* Volume::Open of a path that is there: FindFile finds any file of the    *)
(* tree, names being unique in their folder.                               *)
OpenExisting ==
  /\ \E f \in Tree(file) : file' = Opened(file, f) /\ driver' = Wants(f)
  /\ UNCHANGED <<lastFileId, lists>>

(* The folders a path can lead to. *)
Places == Tree(file) \cap FoldersOf(file)

NotFound(d, n) == Found(d, n) = {}

(* Volume::Open of a name that is not there. *)
Create(n, folder) ==
  /\ lastFileId < MaxFiles
  /\ lastFileId' = lastFileId + 1
  /\ \E d \in Places :
       LET id   == lastFileId + 1
           type == IF n \in XmpNames THEN "MAPPED" ELSE "TEMPORARY"
           F    == [f \in live \cup {id} |->
                      IF f = id THEN NewFile(type, folder, None) ELSE file[f]]
       IN  /\ NotFound(d, n)
           /\ Become(Opened(Link(F, id, d, EndSlot(d), n), id), lists, Wants(id))

(* Volume::Access, Volume::FlushFile with pfmFlushFlagOpen. *)
OpenAgain(f) ==
  /\ f \in live
  /\ file[f].open
  /\ file' = Opened(file, f)
  /\ driver' = Wants(f)
  /\ UNCHANGED <<lastFileId, lists>>

(* Volume::Delete, of a file that has a name, is not virtual and is not a  *)
(* folder with children; a mapped one goes whatever it is.                 *)
Delete(f) ==
  /\ f \in live
  /\ file[f].open
  /\ f # root
  /\ file[f].name # None
  /\ file[f].type # "VIRTUAL"
  /\ file[f].type = "MAPPED" \/ ~file[f].folder \/ file[f].firstChild = NULL
  /\ Become(Unlink(Prune(file, f), f),
            PruneLists(StepBack(lists, file, f), file, f), driver)
  /\ UNCHANGED lastFileId

(* Volume::Replace: a new file takes the slot and the name of the target,  *)
(* which is deleted with all that is below it.                             *)
Replace(f) ==
  /\ f \in live
  /\ lastFileId < MaxFiles
  /\ file[f].open
  /\ f # root
  /\ file[f].name # None
  /\ IsTemporary(f)
  /\ LET id == lastFileId + 1
         E  == [g \in live \cup {id} |->
                  IF g = id THEN NewFile("TEMPORARY", file[f].folder, None)
                  ELSE file[g]]
         F  == Link(E, id, file[f].parent, file[f].sibPrev, file[f].name)
     IN  /\ lastFileId' = id
         /\ Become(Opened(Unlink(Prune(F, f), f), id),
                   PruneLists(StepBack(lists, F, f), F, f), Wants(id))

(* File::Move of f to a slot of folder d: in its own folder a file only    *)
(* gets another name.  The check for a folder that is moved into itself    *)
(* looks at the parents of the file, not at those of its destination.      *)
Ancestors(F, f) ==
  LET A[k \in Nat] == IF k = 0 THEN F[f].parent
                      ELSE LET above == A[k - 1]
                           IN  IF above \in DOMAIN F THEN F[above].parent ELSE NULL
  IN  {A[k] : k \in 0..Cardinality(DOMAIN F)}

RefusedMove(f, d) == f \in Ancestors(file, f)

Moved(F, f, d, slot, n) ==
  IF d = F[f].parent THEN [F EXCEPT ![f].name = n]
  ELSE LET G == IF F[f].sibPrev = NoSlot THEN F ELSE Unlink(F, f)
       IN  Link(G, f, d, slot, n)

MovedLists(L, F, f, d) ==
  IF d = F[f].parent \/ F[f].sibPrev = NoSlot THEN L ELSE StepBack(L, F, f)

(* The driver does not ask to move the root, nor, unless CyclicMoves, a    *)
(* folder into what is below it.                                           *)
DriverMoves(f, d) == f # root /\ (CyclicMoves \/ d \notin Below(file, {f}))

(* Volume::Move: f goes to name n of folder d, which is not there or is f  *)
(* itself.  A file in the tree is moved only with deleteSource.            *)
Move(f, n) ==
  /\ f \in live
  /\ file[f].open
  /\ IsTemporary(f)
  /\ \E d \in Places :
       /\ Found(d, n) \subseteq {f}
       /\ DriverMoves(f, d)
       /\ ~RefusedMove(f, d)
       /\ Become(Opened(Moved(file, f, d, EndSlot(d), n), f),
                 MovedLists(lists, file, f, d), Wants(f))
  /\ UNCHANGED lastFileId

(* Volume::Move onto a name that is there only opens what has the name. *)
MoveOpens(f, n) ==
  /\ f \in live
  /\ file[f].open
  /\ IsTemporary(f)
  /\ \E d \in Places : \E g \in Found(d, n) \ {f} :
       /\ IsTemporary(g)
       /\ file' = Opened(file, g)
       /\ driver' = Wants(g)
  /\ UNCHANGED <<lastFileId, lists>>

(* Volume::MoveReplace: f takes the slot and the name of the target, which *)
(* is then deleted with all that is below it.                              *)
MoveReplace(f, target) ==
  /\ {f, target} \subseteq live
  /\ file[f].open
  /\ file[target].open
  /\ IsTemporary(f) /\ IsTemporary(target)
  /\ target # root
  /\ file[target].name # None
  /\ f # target
  /\ DriverMoves(f, file[target].parent)
  /\ ~RefusedMove(f, file[target].parent)
  /\ LET d == file[target].parent
         F == Moved(file, f, d, file[target].sibPrev, file[target].name)
         L == MovedLists(lists, file, f, d)
     IN  Become(Unlink(Prune(F, target), target),
                PruneLists(StepBack(L, F, target), F, target), driver)
  /\ UNCHANGED lastFileId

(* The last handle on f is closed: the driver will say so, with the last   *)
(* openSequence it has been told.                                          *)
DecideClose(f) ==
  /\ f \in live
  /\ driver[f].wants
  /\ Cardinality({g \in live \ {f} : driver[g].closing}) < MaxClosing
  /\ driver' = [driver EXCEPT ![f] = [wants |-> FALSE, closing |-> TRUE]]
  /\ file' = [file EXCEPT ![f].ahead = 0]
  /\ UNCHANGED <<lastFileId, lists>>

(* Slip: the sequence of the request is not compared. *)
IsLastCloseAlways(f) == TRUE

(* checkOpenSequence >= openSequence *)
IsLastClose(f) == file[f].ahead = 0

AfterClose(f) == [file EXCEPT ![f].open = ~IsLastClose(f), ![f].ahead = 0]

Closed(f) == [driver EXCEPT ![f].closing = FALSE]

(* Volume::Close arrives; the file may have been opened since. *)
Close(f) ==
  /\ f \in live
  /\ driver[f].closing
  /\ file[f].open
  /\ Become(AfterClose(f), lists, Closed(f))
  /\ UNCHANGED lastFileId

-----------------------------------------------------------------------------
(* Enumerations.                                                           *)

(* Volume::List with a new listId. *)
ListBegin(d, i) ==
  /\ d \in live
  /\ file[d].open /\ file[d].folder
  /\ <<d, i>> \notin DOMAIN lists
  /\ Cardinality(DOMAIN lists) < MaxLists
  /\ lists' = [l \in DOMAIN lists \cup {<<d, i>>} |->
                 IF l \in DOMAIN lists THEN lists[l]
                 ELSE [position |-> <<"first", d>>, due |-> ChildrenOf(file, d),
                       done |-> {}, again |-> FALSE]]
  /\ UNCHANGED <<file, lastFileId, driver>>

(* FileList::Iterate: one file is added to the result. *)
ListNext(d, i) ==
  /\ <<d, i>> \in DOMAIN lists
  /\ file[d].open
  /\ LET f == Deref(file, lists[<<d, i>>].position)
     IN  /\ f # NULL
         /\ lists' = [lists EXCEPT ![<<d, i>>] =
                        [position |-> <<"next", f>>,
                         due      |-> @.due \ {f},
                         done     |-> @.done \cup (@.due \cap {f}),
                         again    |-> @.again \/ f \in @.done]]
  /\ UNCHANGED <<file, lastFileId, driver>>

(* Volume::ListEnd. *)
ListEnd(d, i) ==
  /\ <<d, i>> \in DOMAIN lists
  /\ file[d].open
  /\ lists' = [l \in DOMAIN lists \ {<<d, i>>} |-> lists[l]]
  /\ UNCHANGED <<file, lastFileId, driver>>

-----------------------------------------------------------------------------
FileIds == 1..MaxFiles

Next ==
  \/ OpenExisting
  \/ \E n \in Names, folder \in BOOLEAN : Create(n, folder)
  \/ \E f \in FileIds : OpenAgain(f) \/ DecideClose(f) \/ Close(f)
  \/ \E f \in FileIds : Delete(f) \/ Replace(f)
  \/ \E f \in FileIds, n \in Names : Move(f, n) \/ MoveOpens(f, n)
  \/ \E f, target \in FileIds : MoveReplace(f, target)
  \/ \E d \in FileIds, i \in ListIds : ListBegin(d, i) \/ ListNext(d, i) \/ ListEnd(d, i)

Spec == Init /\ [][Next]_vars

-----------------------------------------------------------------------------
(* What the debug build asserts after every change (CheckConsistency), for *)
(* every file of the tree: sibPrev points at the pointer that points at    *)
(* the file, the next sibling's sibPrev at its sibNext, and parent at the  *)
(* folder whose child it is; and two files of a folder never have one      *)
(* name, whatever replaces and moves took over from their targets.         *)
Consistent ==
  /\ file[root].sibPrev = NoSlot
  /\ \A d \in Tree(file) \cap FoldersOf(file) :
       \A s \in SlotsOf(file, d) :
         LET f == Deref(file, s)
         IN  f # NULL => f \in live /\ file[f].sibPrev = s /\ file[f].parent = d
  /\ \A d \in Tree(file) \cap FoldersOf(file) : \A f, g \in ChildrenOf(file, d) :
       file[f].name # None /\ (file[f].name = file[g].name => f = g)

(* An enumeration that has reached the end has delivered every file that   *)
(* was in the folder all the time, and none of them twice, whatever was    *)
(* created, deleted, replaced and moved between its requests: its iterator *)
(* always points at a slot of its own folder, never into a file that has   *)
(* left it.                                                                *)
ListingComplete ==
  \A l \in DOMAIN lists :
    /\ lists[l].position \in SlotsOf(file, l[1])
    /\ ~lists[l].again
    /\ Deref(file, lists[l].position) = NULL => lists[l].due = {}

(* A file lives as long as it is needed: one that the driver has been told *)
(* is open stays in memory and in the open list, a close that was on its   *)
(* way when it was opened again doing nothing to it; and nothing is leaked, *)
(* a file in memory being in the tree or one that can still be closed.     *)
LivesWhileNeeded ==
  \A f \in live : /\ driver[f].wants => file[f].open
                  /\ f \in Tree(file) \/ file[f].open

(* "Can't move a folder into itself." *)
NotUnderItself == \A f \in live : f \notin Ancestors(file, f)
=============================================================================
