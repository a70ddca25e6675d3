------------------------------- MODULE Stripes -------------------------------
(***************************************************************************)
(* The vertical stripe corrections of stripes.c and the part of            *)
(* process_frame (main.c) that uses them.  There is one correction per     *)
(* clip, in a linked list that FUSE threads read and extend with no lock.  *)
(*                                                                         *)
(* stripes_new_correction links a node before it fills it in, so the model *)
(* keeps the pointers of the list and the fields of a node one by one;     *)
(* memory that malloc returned and nothing has written yet is Garbage.     *)
(* Following a garbage pointer is undefined behaviour, after which nothing *)
(* is claimed.                                                             *)
(***************************************************************************)
EXTENDS Integers, Sequences

CONSTANTS
  Threads,       (* FUSE worker threads                                     *)
  Clips,         (* .MLV files with stripes_correction enabled              *)
  Frames,        (* frame numbers                                           *)
  DarkFrames,    (* frames with too few usable pixels for some channel      *)
  MaxDeveloped,  (* bound: number of frames developed                       *)
  AllocMayFail,  (* can the malloc of the file name return NULL             *)
  OddClips,      (* clips whose width is not a multiple of 8                *)
  None

NULL == 0
Garbage == -1

Jobs == [clip : Clips, frame : Frames]

ASSUME ConstantsAssumption ==
  /\ DarkFrames \subseteq Frames
  /\ MaxDeveloped \in Nat
  /\ AllocMayFail \in BOOLEAN
  /\ OddClips \subseteq Clips
  /\ None \notin Clips \cup Jobs \cup BOOLEAN

VARIABLES
  head,       (* corrections                                                *)
  node,       (* the struct stripes_correction allocated so far             *)
  pc,         (* what each thread does next                                 *)
  job,        (* the clip and the frame a thread develops                   *)
  ptr,        (* its correction, or the tail it has found                   *)
  developed,  (* finished frames, and the frame their correction came from  *)
  begun,      (* number of frames begun, for the bound                      *)
  undefined

vars == <<head, node, pc, job, ptr, developed, begun, undefined>>

TypeOK ==
  /\ head \in 0..Len(node)
  /\ node \in Seq([clip : Clips \cup {None}, next : Garbage..Len(node),
                   needed : BOOLEAN \cup {None}, from : Jobs \cup {None}])
  /\ pc \in [Threads -> {"idle", "get", "append", "link", "name", "init",
                         "compute", "apply"}]
  /\ job \in [Threads -> Jobs \cup {None}]
  /\ ptr \in [Threads -> 0..Len(node)]
  /\ developed \subseteq [job : Jobs, by : Jobs \cup {None}]
  /\ begun \in Nat
  /\ undefined \in BOOLEAN

Init ==
  /\ head = NULL
  /\ node = <<>>
  /\ pc = [t \in Threads |-> "idle"]
  /\ job = [t \in Threads |-> None]
  /\ ptr = [t \in Threads |-> NULL]
  /\ developed = {}
  /\ begun = 0
  /\ undefined = FALSE

At(t, l) == pc[t] = l /\ ~undefined

Goto(t, l) == pc' = [pc EXCEPT ![t] = l]

-----------------------------------------------------------------------------
(* Walking the list.  Walk[k] is the pointer after k steps.                *)

Walk[k \in Nat] ==
  IF k = 0 THEN head
  ELSE IF Walk[k - 1] > NULL THEN node[Walk[k - 1]].next ELSE Walk[k - 1]

(* The steps a walk can make before it meets its end or a cycle. *)
Steps == 0..Len(node)

Reachable == {n \in 1..Len(node) : \E k \in Steps : Walk[k] = n}

(* stripes_get_correction: where the walk that looks for c stops, having   *)
(* found c, the end of the list or a name or link not written yet.         *)
StopsAt(c, n) ==
  \E k \in Steps :
    /\ n = Walk[k]
    /\ n > NULL => node[n].clip \in {c, None}
    /\ \A j \in 0..(k - 1) : Walk[j] > NULL /\ node[Walk[j]].clip \notin {c, None}

IsGarbage(n) == n = Garbage \/ (n > NULL /\ node[n].clip = None)

-----------------------------------------------------------------------------
(* process_frame reaches the stripe correction of frame f of clip c. *)
Begin(t, c, f) ==
  /\ At(t, "idle")
  /\ begun < MaxDeveloped
  /\ begun' = begun + 1
  /\ job' = [job EXCEPT ![t] = [clip |-> c, frame |-> f]]
  /\ Goto(t, "get")
  /\ UNCHANGED <<head, node, ptr, developed, undefined>>

(* Slip: the name of the clip is not compared. *)
GetFoundFirst(t) ==
  /\ At(t, "get")
  /\ head # NULL
  /\ ptr' = [ptr EXCEPT ![t] = head]
  /\ Goto(t, "apply")
  /\ UNCHANGED <<head, node, job, developed, begun, undefined>>

GetFound(t) ==
  /\ At(t, "get")
  /\ \E n \in 1..Len(node) :
       /\ StopsAt(job[t].clip, n)
       /\ ~IsGarbage(n)
       /\ ptr' = [ptr EXCEPT ![t] = n]
  /\ Goto(t, "apply")
  /\ UNCHANGED <<head, node, job, developed, begun, undefined>>

GetMissing(t) ==
  /\ At(t, "get")
  /\ StopsAt(job[t].clip, NULL)
  /\ Goto(t, "append")
  /\ UNCHANGED <<head, node, job, ptr, developed, begun, undefined>>

(* Either walk, for a clip or for the tail, meets a name or a link that    *)
(* has not been written, or a node that has been freed.                    *)
WalkGarbage(t) ==
  /\ ~undefined
  /\ IF pc[t] = "get"
     THEN \E n \in Garbage..Len(node) : StopsAt(job[t].clip, n) /\ IsGarbage(n)
     ELSE pc[t] = "append" /\ \E n \in Reachable : node[n].next = Garbage
  /\ undefined' = TRUE
  /\ UNCHANGED <<head, node, pc, job, ptr, developed, begun>>

(* malloc of a struct stripes_correction: no field has a value. *)
FreshNode == [clip |-> None, next |-> Garbage, needed |-> None, from |-> None]

(* Slip: the head is set from the new node's next, not written yet. *)
AppendHeadNext(t) ==
  /\ At(t, "append")
  /\ head = NULL
  /\ node' = Append(node, FreshNode)
  /\ head' = FreshNode.next
  /\ ptr' = [ptr EXCEPT ![t] = Len(node) + 1]
  /\ Goto(t, "name")
  /\ UNCHANGED <<job, developed, begun, undefined>>

(* stripes_new_correction, empty list: the new node is the head. *)
AppendHead(t) ==
  /\ At(t, "append")
  /\ head = NULL
  /\ node' = Append(node, FreshNode)
  /\ head' = Len(node) + 1
  /\ ptr' = [ptr EXCEPT ![t] = Len(node) + 1]
  /\ Goto(t, "name")
  /\ UNCHANGED <<job, developed, begun, undefined>>

(* ... otherwise the tail is searched ... *)
FindTail(t) ==
  /\ At(t, "append")
  /\ head # NULL
  /\ \E n \in Reachable : node[n].next = NULL /\ ptr' = [ptr EXCEPT ![t] = n]
  /\ Goto(t, "link")
  /\ UNCHANGED <<head, node, job, developed, begun, undefined>>

(* ... and its next is written, whatever it has become meanwhile. *)
Link(t) ==
  /\ At(t, "link")
  /\ node' = Append([node EXCEPT ![ptr[t]].next = Len(node) + 1], FreshNode)
  /\ ptr' = [ptr EXCEPT ![t] = Len(node) + 1]
  /\ Goto(t, "name")
  /\ UNCHANGED <<head, job, developed, begun, undefined>>

Name(t) ==
  /\ At(t, "name")
  /\ node' = [node EXCEPT ![ptr[t]].clip = job[t].clip]
  /\ Goto(t, "init")
  /\ UNCHANGED <<head, job, ptr, developed, begun, undefined>>

(* The name cannot be allocated: the node is freed, still linked, and the  *)
(* frame goes on without a correction.                                     *)
NameFails(t) ==
  /\ AllocMayFail
  /\ At(t, "name")
  /\ node' = [node EXCEPT ![ptr[t]] = FreshNode]
  /\ ptr' = [ptr EXCEPT ![t] = NULL]
  /\ Goto(t, "apply")
  /\ UNCHANGED <<head, job, developed, begun, undefined>>

Initialise(t) ==
  /\ At(t, "init")
  /\ node' = [node EXCEPT ![ptr[t]].needed = FALSE, ![ptr[t]].next = NULL]
  /\ Goto(t, "compute")
  /\ UNCHANGED <<head, job, ptr, developed, begun, undefined>>

(* stripes_compute_correction, for a camera whose channels differ: the     *)
(* factors come from this frame.  A channel of a dark frame keeps what     *)
(* malloc left in its coefficient, and that decides whether the correction *)
(* is needed.                                                              *)
Compute(t) ==
  /\ At(t, "compute")
  /\ \E needed \in BOOLEAN :
       /\ job[t].frame \notin DarkFrames => needed
       /\ node' = [node EXCEPT ![ptr[t]].needed = needed, ![ptr[t]].from = job[t]]
  /\ Goto(t, "apply")
  /\ UNCHANGED <<head, job, ptr, developed, begun, undefined>>

(* stripes_apply_correction: nothing without a correction that is needed,  *)
(* nor for a width that the eight columns do not divide.  A field not      *)
(* written yet may read as anything.                                       *)
Apply(t) ==
  /\ At(t, "apply")
  /\ \E needed \in BOOLEAN, by \in Jobs \cup {None} :
       /\ ptr[t] = NULL => ~needed
       /\ (ptr[t] # NULL /\ node[ptr[t]].needed # None) => needed = node[ptr[t]].needed
       /\ by = IF needed /\ job[t].clip \notin OddClips THEN node[ptr[t]].from ELSE None
       /\ developed' = developed \cup {[job |-> job[t], by |-> by]}
  /\ job' = [job EXCEPT ![t] = None]
  /\ ptr' = [ptr EXCEPT ![t] = NULL]
  /\ Goto(t, "idle")
  /\ UNCHANGED <<head, node, begun, undefined>>

Finished ==
  /\ undefined \/ (begun = MaxDeveloped /\ \A t \in Threads : pc[t] = "idle")
  /\ UNCHANGED vars

Develop(t) ==
  \/ GetFound(t) \/ GetMissing(t) \/ WalkGarbage(t)
  \/ AppendHead(t) \/ FindTail(t) \/ Link(t)
  \/ Name(t) \/ NameFails(t) \/ Initialise(t) \/ Compute(t) \/ Apply(t)

Next ==
  \/ \E t \in Threads, c \in Clips, f \in Frames : Begin(t, c, f)
  \/ \E t \in Threads : Develop(t)
  \/ Finished

Spec == Init /\ [][Next]_vars

FairSpec == Spec /\ \A t \in Threads : WF_vars(Develop(t))

-----------------------------------------------------------------------------
(* "Correction factors are computed from the first frame only": all frames *)
(* of a clip are developed with one correction, their own clip's.  Two     *)
(* threads that both miss the correction of a new clip break it; it holds  *)
(* as long as no two threads race (ProcessFrame).                          *)
OneCorrection ==
  \A d, e \in developed :
    d.job.clip = e.job.clip => /\ d.by = e.by
                               /\ d.by # None => d.by.clip = d.job.clip
=============================================================================
