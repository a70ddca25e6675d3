----------------------------- MODULE FrameCache -----------------------------
(***************************************************************************)
(* What the image buffers of resource_manager.c promise to the file system *)
(* and to the web server: a bounded cache, keyed by virtual path, whose    *)
(* entries hold one whole frame or nothing yet.                            *)
(***************************************************************************)
EXTENDS Integers, FiniteSets

CONSTANTS Threads, Paths, MaxUnused, MaxTotal, None

VARIABLES
  cached,   (* paths that have an entry                                     *)
  ready,    (* those whose frame is complete                                *)
  waiting,  (* the path each thread is waiting for                          *)
  answer    (* what each thread was last answered                           *)

cacheVars == <<cached, ready, waiting, answer>>

Init ==
  /\ cached = {}
  /\ ready = {}
  /\ waiting = [t \in Threads |-> None]
  /\ answer = [t \in Threads |-> "empty"]

Request(t, p) ==
  /\ waiting[t] = None
  /\ waiting' = [waiting EXCEPT ![t] = p]
  /\ UNCHANGED <<cached, ready, answer>>

Missing == \E t \in Threads : waiting[t] \in Paths \ cached

(* An entry is dropped to make room, never from the last MaxUnused ones. *)
Evict(p) ==
  /\ Missing
  /\ p \in cached
  /\ Cardinality(cached) > MaxUnused
  /\ cached' = cached \ {p}
  /\ ready' = ready \ {p}
  /\ UNCHANGED <<waiting, answer>>

Insert(p) ==
  /\ \E t \in Threads : waiting[t] = p
  /\ p \notin cached
  /\ Cardinality(cached) <= MaxTotal
  /\ cached' = cached \cup {p}
  /\ UNCHANGED <<ready, waiting, answer>>

Complete(p) ==
  /\ p \in cached \ ready
  /\ ready' = ready \cup {p}
  /\ UNCHANGED <<cached, waiting, answer>>

(* Only an entry answers: with the frame, or with nothing if it has none. *)
Answer(t) ==
  /\ waiting[t] \in cached
  /\ answer' = [answer EXCEPT ![t] = IF waiting[t] \in ready THEN "frame" ELSE "empty"]
  /\ waiting' = [waiting EXCEPT ![t] = None]
  /\ UNCHANGED <<cached, ready>>

Next ==
  \/ \E t \in Threads : Answer(t) \/ \E p \in Paths : Request(t, p)
  \/ \E p \in Paths : Evict(p) \/ Insert(p) \/ Complete(p)

Spec == Init /\ [][Next]_cacheVars
=============================================================================
