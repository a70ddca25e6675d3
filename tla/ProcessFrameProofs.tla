-------------------------- MODULE ProcessFrameProofs --------------------------
(***************************************************************************)
(* Proofs about ProcessFrame, whatever the number of threads, clips,       *)
(* frames, cameras and slots of the ring, whatever the page changes and    *)
(* when, and whichever file names cannot be allocated.  First about what a *)
(* thread has for itself: the header has the levels of the samples, and    *)
(* samples are converted by tables of their own black level.  Then about   *)
(* the structures that threads share without a lock: as long as no two     *)
(* threads race in one of them, every frame is repaired along maps that    *)
(* are complete and its own, and all frames of a clip are developed with   *)
(* one stripe correction.  The walks along the list of corrections are a   *)
(* recursive function, and what they meet is proved by induction.          *)
(***************************************************************************)
EXTENDS ProcessFrame, SequenceTheorems, Recursion

(* The stages after the second pass of full dual ISO. *)
Late == {"curve", "fill curve", "pass", "in pass", "converted", "stripes", "in stripes"}

(* What is true of the frame of a thread at each stage: before it is       *)
(* converted it has 14 bits, only full dual ISO has passes, and the third  *)
(* comes after the others.                                                 *)
Consistent(w) ==
  /\ w.stage # "idle" => w.job \in Jobs
  /\ w.mode = "full" => w.pass \in Passes
  /\ w.stage \in {"pass", "in pass", "curve", "fill curve", "alias map"} => w.mode = "full"
  /\ w.stage \in {"curve", "fill curve"} => w.pass \in {2, 3}
  /\ w.stage = "alias map" => w.pass = 2
  /\ w.pass = 3 => w.stage \in Late
  /\ w.stage \notin {"converted", "stripes", "in stripes"} =>
       w.bits = 14 /\ w.levels = 14 /\ w.header = 14
  /\ w.stage = "converted" => w.bits = 16 /\ w.levels = 16
  /\ w.stage \in {"stripes", "in stripes"} => w.header = w.bits

WorkInv ==
  /\ mlvfs \in Options
  /\ requested \in Options
  /\ work \in [Threads -> Work]
  /\ \A t \in Threads : Consistent(work[t])

(* The options stay options while they are written one by one. *)
LEMMA OptionsWritten ==
  ASSUME WorkInv, WriteOption
  PROVE  mlvfs' \in Options /\ requested' \in Options
<1>1. PICK k \in DOMAIN Order :
        mlvfs' = [mlvfs EXCEPT ![Order[k]] = requested[Order[k]]]
  BY DEF WriteOption
<1>2. DOMAIN Order = 1..3
  BY DEF Order
<1>3. CASE k = 1
  BY <1>1, <1>3 DEF Order, WorkInv, Options, WriteOption
<1>4. CASE k = 2
  BY <1>1, <1>4 DEF Order, WorkInv, Options, WriteOption
<1>5. CASE k = 3
  BY <1>1, <1>5 DEF Order, WorkInv, Options, WriteOption
<1> QED BY <1>2, <1>3, <1>4, <1>5

(* A stage that asks nothing new of a frame. *)
LEMMA OnlyStage ==
  ASSUME NEW w \in Work, Consistent(w), NEW s \in Stages,
         w.stage \notin {"idle", "converted", "stripes", "in stripes"},
         s \notin {"idle", "converted"},
         s \in {"pass", "in pass", "curve", "fill curve", "alias map"} => w.mode = "full",
         s \in {"curve", "fill curve"} => w.pass \in {2, 3},
         s = "alias map" => w.pass = 2,
         w.pass = 3 => s \in Late
  PROVE  /\ [w EXCEPT !.stage = s] \in Work
         /\ Consistent([w EXCEPT !.stage = s])
<1>1. [w EXCEPT !.stage = s] \in Work
  BY DEF Work
<1>2. Consistent([w EXCEPT !.stage = s])
  BY DEF Work, Consistent, Late
<1> QED BY <1>1, <1>2

(* There are three passes. *)
LEMMA PassesAre == 1 \in Passes /\ 2 \in Passes /\ 3 \in Passes
BY DEF Passes

(* After the second pass comes the curve, and after the third the frame is *)
(* converted; both belong to full dual ISO.                                *)
LEMMA NextPass ==
  ASSUME NEW w \in Work, Consistent(w), w.stage \in {"in pass", "alias map"}
  PROVE  /\ LET v == [w EXCEPT !.stage = "pass", !.pass = 2]
            IN  v \in Work /\ Consistent(v)
         /\ LET v == [w EXCEPT !.stage = "curve", !.pass = 3]
            IN  v \in Work /\ Consistent(v)
         /\ LET v == [w EXCEPT !.stage = "converted", !.bits = 16, !.levels = 16]
            IN  v \in Work /\ Consistent(v)
<1>1. "pass" \in Stages /\ "curve" \in Stages /\ "converted" \in Stages
  BY DEF Stages
<1>2. w.mode = "full" /\ w.pass \in Passes
  BY DEF Consistent
<1>3. [w EXCEPT !.stage = "pass", !.pass = 2] \in Work
  BY PassesAre, <1>1 DEF Work
<1>4. [w EXCEPT !.stage = "curve", !.pass = 3] \in Work
  BY PassesAre, <1>1 DEF Work
<1>5. [w EXCEPT !.stage = "converted", !.bits = 16, !.levels = 16] \in Work
  BY <1>1 DEF Work
<1>6. Consistent([w EXCEPT !.stage = "pass", !.pass = 2])
  BY PassesAre, <1>2 DEF Work, Consistent, Late
<1>7. Consistent([w EXCEPT !.stage = "curve", !.pass = 3])
  BY PassesAre, <1>2 DEF Work, Consistent, Late
<1>8. Consistent([w EXCEPT !.stage = "converted", !.bits = 16, !.levels = 16])
  BY <1>2 DEF Work, Consistent, Late
<1> QED BY <1>3, <1>4, <1>5, <1>6, <1>7, <1>8

(* A step of a thread leaves its frame consistent, and the others alone.   *)
LEMMA FrameConsistent ==
  ASSUME WorkInv, NEW t \in Threads, process_frame(t)
  PROVE  \/ UNCHANGED work
         \/ \E w \in Work : Consistent(w) /\ work' = [work EXCEPT ![t] = w]
<1>1. work[t] \in Work /\ Consistent(work[t])
  BY DEF WorkInv
<1>2. mlvfs.fix_bad_pixels \in 0..2
  BY DEF WorkInv, Options
<1>3. CASE PreviewDualIso(t)
  <2>1. PICK mode \in {"off", "preview"} :
          work' = [work EXCEPT ![t] = [work[t] EXCEPT !.stage = "focus", !.mode = mode]]
    BY <1>3 DEF PreviewDualIso, Become
  <2> DEFINE w == [work[t] EXCEPT !.stage = "focus", !.mode = mode]
  <2>2. w \in Work
    BY <1>1 DEF Work, Stages
  <2>3. work[t].stage = "dual_iso"
    BY <1>3 DEF PreviewDualIso, Is, Stage
  <2>4. Consistent(w)
    BY <1>1, <2>3 DEF Work, Consistent, Late
  <2> QED BY <2>1, <2>2, <2>4
<1>4. CASE NoPreview(t)
  <2>1. PICK s \in Stages :
          /\ work' = [work EXCEPT ![t] = [work[t] EXCEPT !.stage = s]]
          /\ s \notin {"idle", "converted"}
          /\ s \in {"pass", "in pass", "curve", "fill curve", "alias map"} => work[t].mode = "full"
          /\ s \in {"curve", "fill curve"} => work[t].pass \in {2, 3}
          /\ s = "alias map" => work[t].pass = 2
          /\ work[t].pass = 3 => s \in Late
    BY <1>1, <1>4 DEF NoPreview, GoTo, Become, Is, Stage, Stages, Work, Consistent, Late
  <2>2. work[t].stage \notin {"idle", "converted", "stripes", "in stripes"}
    BY <1>4 DEF NoPreview, Is, Stage
  <2> QED BY <1>1, <2>1, <2>2, OnlyStage
<1>5. CASE NoDualIso(t)
  <2>1. PICK s \in Stages :
          /\ work' = [work EXCEPT ![t] = [work[t] EXCEPT !.stage = s]]
          /\ s \notin {"idle", "converted"}
          /\ s \in {"pass", "in pass", "curve", "fill curve", "alias map"} => work[t].mode = "full"
          /\ s \in {"curve", "fill curve"} => work[t].pass \in {2, 3}
          /\ s = "alias map" => work[t].pass = 2
          /\ work[t].pass = 3 => s \in Late
    BY <1>1, <1>5 DEF NoDualIso, GoTo, Become, Is, Stage, Stages, Work, Consistent, Late
  <2>2. work[t].stage \notin {"idle", "converted", "stripes", "in stripes"}
    BY <1>5 DEF NoDualIso, Is, Stage
  <2> QED BY <1>1, <2>1, <2>2, OnlyStage
<1>6. CASE FullDualIso(t)
  <2>1. PICK mode \in {"off", "full"}, pass \in {0, 1} :
          /\ work' = [work EXCEPT ![t] =
                [work[t] EXCEPT !.stage = "focus", !.mode = mode, !.pass = pass,
                                !.fix_bad_pixels = mlvfs.fix_bad_pixels]]
          /\ pass = IF mode = "full" THEN 1 ELSE 0
    BY <1>6, Zenon DEF FullDualIso, Become
  <2> DEFINE w == [work[t] EXCEPT !.stage = "focus", !.mode = mode, !.pass = pass,
                                  !.fix_bad_pixels = mlvfs.fix_bad_pixels]
  <2>a. pass \in {0} \cup Passes /\ pass # 3 /\ (mode = "full" => pass \in Passes)
    BY <2>1 DEF Passes
  <2>2. w \in Work
    BY <1>1, <1>2, <2>a DEF Work, Stages
  <2>3. work[t].stage = "dual_iso again"
    BY <1>6 DEF FullDualIso, Is, Stage
  <2>4. Consistent(w)
    BY <1>1, <2>a, <2>3 DEF Work, Consistent, Late
  <2> QED BY <2>1, <2>2, <2>4
<1>7. CASE FindFocusMap(t)
  <2>1. PICK s \in Stages :
          /\ work' = [work EXCEPT ![t] = [work[t] EXCEPT !.stage = s]]
          /\ s \notin {"idle", "converted"}
          /\ s \in {"pass", "in pass", "curve", "fill curve", "alias map"} => work[t].mode = "full"
          /\ s \in {"curve", "fill curve"} => work[t].pass \in {2, 3}
          /\ s = "alias map" => work[t].pass = 2
          /\ work[t].pass = 3 => s \in Late
    BY <1>1, <1>7 DEF FindFocusMap, GoTo, Become, Is, Stage, Stages, Work, Consistent, Late,
       RepairOrSkip, AfterFocus
  <2>2. work[t].stage \notin {"idle", "converted", "stripes", "in stripes"}
    BY <1>7 DEF FindFocusMap, Is, Stage
  <2> QED BY <1>1, <2>1, <2>2, OnlyStage
<1>8. CASE LoadFocusMap(t)
  <2>1. PICK s \in Stages :
          /\ work' = [work EXCEPT ![t] = [work[t] EXCEPT !.stage = s]]
          /\ s \notin {"idle", "converted"}
          /\ s \in {"pass", "in pass", "curve", "fill curve", "alias map"} => work[t].mode = "full"
          /\ s \in {"curve", "fill curve"} => work[t].pass \in {2, 3}
          /\ s = "alias map" => work[t].pass = 2
          /\ work[t].pass = 3 => s \in Late
    BY <1>1, <1>8 DEF LoadFocusMap, GoTo, Become, Is, Stage, Stages, Work, Consistent, Late,
       RepairOrSkip, AfterFocus
  <2>2. work[t].stage \notin {"idle", "converted", "stripes", "in stripes"}
    BY <1>8 DEF LoadFocusMap, Is, Stage
  <2> QED BY <1>1, <2>1, <2>2, OnlyStage
<1>9. CASE RepairFocusPixels(t)
  <2>1. PICK s \in Stages :
          /\ work' = [work EXCEPT ![t] = [work[t] EXCEPT !.stage = s]]
          /\ s \notin {"idle", "converted"}
          /\ s \in {"pass", "in pass", "curve", "fill curve", "alias map"} => work[t].mode = "full"
          /\ s \in {"curve", "fill curve"} => work[t].pass \in {2, 3}
          /\ s = "alias map" => work[t].pass = 2
          /\ work[t].pass = 3 => s \in Late
    BY <1>1, <1>9 DEF RepairFocusPixels, GoTo, Become, Is, Stage, Stages, Work, Consistent,
       Late, AfterFocus
  <2>2. work[t].stage \notin {"idle", "converted", "stripes", "in stripes"}
    BY <1>9 DEF RepairFocusPixels, Is, Stage
  <2> QED BY <1>1, <2>1, <2>2, OnlyStage
<1>10. CASE AskBadPixels(t)
  <2>1. PICK s \in Stages :
          /\ work' = [work EXCEPT ![t] = [work[t] EXCEPT !.stage = s]]
          /\ s \notin {"idle", "converted"}
          /\ s \in {"pass", "in pass", "curve", "fill curve", "alias map"} => work[t].mode = "full"
          /\ s \in {"curve", "fill curve"} => work[t].pass \in {2, 3}
          /\ s = "alias map" => work[t].pass = 2
          /\ work[t].pass = 3 => s \in Late
    BY <1>1, <1>10 DEF AskBadPixels, GoTo, Become, Is, Stage, Stages, Work, Consistent, Late
  <2>2. work[t].stage \notin {"idle", "converted", "stripes", "in stripes"}
    BY <1>10 DEF AskBadPixels, Is, Stage
  <2> QED BY <1>1, <2>1, <2>2, OnlyStage
<1>11. CASE AskAggressive(t)
  <2>1. work' = [work EXCEPT ![t] = [work[t] EXCEPT !.stage = "bad", !.fix_bad_pixels = mlvfs.fix_bad_pixels]]
    BY <1>11 DEF AskAggressive, Become, GoTo
  <2> DEFINE w == [work[t] EXCEPT !.stage = "bad", !.fix_bad_pixels = mlvfs.fix_bad_pixels]
  <2>2. w \in Work
    BY <1>1, <1>2 DEF Work, Stages
  <2>3. work[t].stage = "aggressive"
    BY <1>11 DEF AskAggressive, Is, Stage
  <2>4. Consistent(w)
    BY <1>1, <2>3 DEF Work, Consistent, Late
  <2> QED BY <2>1, <2>2, <2>4
<1>12. CASE FindBadMap(t)
  <2>1. PICK s \in Stages :
          /\ work' = [work EXCEPT ![t] = [work[t] EXCEPT !.stage = s]]
          /\ s \notin {"idle", "converted"}
          /\ s \in {"pass", "in pass", "curve", "fill curve", "alias map"} => work[t].mode = "full"
          /\ s \in {"curve", "fill curve"} => work[t].pass \in {2, 3}
          /\ s = "alias map" => work[t].pass = 2
          /\ work[t].pass = 3 => s \in Late
    BY <1>1, <1>12 DEF FindBadMap, GoTo, Become, Is, Stage, Stages, Work, Consistent, Late
  <2>2. work[t].stage \notin {"idle", "converted", "stripes", "in stripes"}
    BY <1>12 DEF FindBadMap, Is, Stage
  <2> QED BY <1>1, <2>1, <2>2, OnlyStage
<1>13. CASE FillBadMap(t)
  <2>1. PICK s \in Stages :
          /\ work' = [work EXCEPT ![t] = [work[t] EXCEPT !.stage = s]]
          /\ s \notin {"idle", "converted"}
          /\ s \in {"pass", "in pass", "curve", "fill curve", "alias map"} => work[t].mode = "full"
          /\ s \in {"curve", "fill curve"} => work[t].pass \in {2, 3}
          /\ s = "alias map" => work[t].pass = 2
          /\ work[t].pass = 3 => s \in Late
    BY <1>1, <1>13 DEF FillBadMap, GoTo, Become, Is, Stage, Stages, Work, Consistent, Late
  <2>2. work[t].stage \notin {"idle", "converted", "stripes", "in stripes"}
    BY <1>13 DEF FillBadMap, Is, Stage
  <2> QED BY <1>1, <2>1, <2>2, OnlyStage
<1>14. CASE RepairBadPixels(t)
  <2>1. PICK s \in Stages :
          /\ work' = [work EXCEPT ![t] = [work[t] EXCEPT !.stage = s]]
          /\ s \notin {"idle", "converted"}
          /\ s \in {"pass", "in pass", "curve", "fill curve", "alias map"} => work[t].mode = "full"
          /\ s \in {"curve", "fill curve"} => work[t].pass \in {2, 3}
          /\ s = "alias map" => work[t].pass = 2
          /\ work[t].pass = 3 => s \in Late
    BY <1>1, <1>14 DEF RepairBadPixels, GoTo, Become, Is, Stage, Stages, Work, Consistent, Late
  <2>2. work[t].stage \notin {"idle", "converted", "stripes", "in stripes"}
    BY <1>14 DEF RepairBadPixels, Is, Stage
  <2> QED BY <1>1, <2>1, <2>2, OnlyStage
<1>15. CASE ConvertPreview(t)
  <2>1. work' = [work EXCEPT ![t] = [work[t] EXCEPT !.stage = "converted", !.bits = 16, !.levels = 16]]
    BY <1>15 DEF ConvertPreview, Become, GoTo
  <2> DEFINE w == [work[t] EXCEPT !.stage = "converted", !.bits = 16, !.levels = 16]
  <2>2. w \in Work
    BY <1>1, <1>2 DEF Work, Stages
  <2>3. work[t].stage = "convert"
    BY <1>15 DEF ConvertPreview, Is, Stage
  <2>4. Consistent(w)
    BY <1>1, <2>3 DEF Work, Consistent, Late
  <2> QED BY <2>1, <2>2, <2>4
<1>16. CASE DualIsoFails(t)
  <2> DEFINE w == [work[t] EXCEPT !.stage = "focus", !.mode = "off", !.pass = 0]
  <2>1. work' = [work EXCEPT ![t] = w]
    BY <1>16 DEF DualIsoFails, Become, GoTo
  <2>2. w \in Work
    BY <1>1 DEF Work, Stages
  <2>3. work[t].stage = "pass"
    BY <1>16 DEF DualIsoFails, Is, Stage
  <2>4. w.pass = 0 /\ w.mode = "off" /\ w.stage = "focus"
        /\ w.job = work[t].job /\ w.bits = work[t].bits
        /\ w.levels = work[t].levels /\ w.header = work[t].header
    BY <1>1 DEF Work
  <2>5. Consistent(w)
    BY <1>1, <2>3, <2>4 DEF Consistent
  <2> QED BY <2>1, <2>2, <2>5
<1>17. CASE AskCurve(t)
  <2>1. work[t].stage = "curve"
    BY <1>17 DEF AskCurve, Is, Stage
  <2>2. work[t].mode = "full" /\ work[t].pass \in {2, 3}
    BY <1>1, <2>1 DEF Consistent
  <2>3. PICK s : /\ work' = [work EXCEPT ![t] = [work[t] EXCEPT !.stage = s]]
                 /\ s = "fill curve" \/ s = WithCurve(t)
    BY <1>17, Zenon DEF AskCurve, GoTo, Become
  <2>4. s = "fill curve" \/ s = "pass" \/ (s = "alias map" /\ work[t].pass = 2)
    BY <2>3 DEF WithCurve
  <2>5. work[t].pass = 3 => s \in Late
    <3>1. CASE s = "fill curve" \/ s = "pass"
      BY <3>1 DEF Late
    <3>2. CASE work[t].pass = 2
      BY <3>2
    <3> QED BY <2>4, <3>1, <3>2
  <2>6. s \in Stages
    BY <2>4 DEF Stages
  <2>7. work[t].stage \notin {"idle", "converted", "stripes", "in stripes"}
    BY <2>1
  <2>8. s \notin {"idle", "converted"} /\ s # "in pass" /\ (s \in {"curve", "fill curve"} => work[t].pass \in {2, 3})
    BY <2>2, <2>4
  <2>9. [work[t] EXCEPT !.stage = s] \in Work /\ Consistent([work[t] EXCEPT !.stage = s])
    BY <1>1, <2>2, <2>4, <2>5, <2>6, <2>7, <2>8, OnlyStage
  <2> QED BY <2>3, <2>9
<1>18. CASE FillCurve(t)
  <2>1. work[t].stage = "fill curve"
    BY <1>18 DEF FillCurve, Is, Stage
  <2>2. work[t].mode = "full" /\ work[t].pass \in {2, 3}
    BY <1>1, <2>1 DEF Consistent
  <2>3. PICK s : /\ work' = [work EXCEPT ![t] = [work[t] EXCEPT !.stage = s]]
                 /\ s = "fill curve" \/ s = WithCurve(t)
    BY <1>18, Zenon DEF FillCurve, GoTo, Become
  <2>4. s = "fill curve" \/ s = "pass" \/ (s = "alias map" /\ work[t].pass = 2)
    BY <2>3 DEF WithCurve
  <2>5. work[t].pass = 3 => s \in Late
    <3>1. CASE s = "fill curve" \/ s = "pass"
      BY <3>1 DEF Late
    <3>2. CASE work[t].pass = 2
      BY <3>2
    <3> QED BY <2>4, <3>1, <3>2
  <2>6. s \in Stages
    BY <2>4 DEF Stages
  <2>7. work[t].stage \notin {"idle", "converted", "stripes", "in stripes"}
    BY <2>1
  <2>8. s \notin {"idle", "converted"} /\ s # "in pass" /\ (s \in {"curve", "fill curve"} => work[t].pass \in {2, 3})
    BY <2>2, <2>4
  <2>9. [work[t] EXCEPT !.stage = s] \in Work /\ Consistent([work[t] EXCEPT !.stage = s])
    BY <1>1, <2>2, <2>4, <2>5, <2>6, <2>7, <2>8, OnlyStage
  <2> QED BY <2>3, <2>9
<1>19. CASE BuildTables(t)
  <2>1. PICK s \in Stages :
          /\ work' = [work EXCEPT ![t] = [work[t] EXCEPT !.stage = s]]
          /\ s \notin {"idle", "converted"}
          /\ s \in {"pass", "in pass", "curve", "fill curve", "alias map"} => work[t].mode = "full"
          /\ s \in {"curve", "fill curve"} => work[t].pass \in {2, 3}
          /\ s = "alias map" => work[t].pass = 2
          /\ work[t].pass = 3 => s \in Late
    BY <1>1, <1>19 DEF BuildTables, GoTo, Become, Is, Stage, Stages, Work, Consistent, Late
  <2>2. work[t].stage \notin {"idle", "converted", "stripes", "in stripes"}
    BY <1>19 DEF BuildTables, Is, Stage
  <2> QED BY <1>1, <2>1, <2>2, OnlyStage
<1>20. CASE HeaderAgain(t)
  <2>1. work' = [work EXCEPT ![t] = [work[t] EXCEPT !.stage = "stripes", !.header = work[t].levels]]
    BY <1>20 DEF HeaderAgain, Become, GoTo
  <2> DEFINE w == [work[t] EXCEPT !.stage = "stripes", !.header = work[t].levels]
  <2>2. w \in Work
    BY <1>1, <1>2 DEF Work, Stages
  <2>3. work[t].stage = "converted"
    BY <1>20 DEF HeaderAgain, Is, Stage
  <2>4. Consistent(w)
    BY <1>1, <2>3 DEF Work, Consistent, Late
  <2> QED BY <2>1, <2>2, <2>4
<1>26. CASE StartAliasMap(t)
  <2>1. PICK s \in Stages :
          /\ work' = [work EXCEPT ![t] = [work[t] EXCEPT !.stage = s]]
          /\ s \notin {"idle", "converted"}
          /\ s \in {"pass", "in pass", "curve", "fill curve", "alias map"} => work[t].mode = "full"
          /\ s \in {"curve", "fill curve"} => work[t].pass \in {2, 3}
          /\ s = "alias map" => work[t].pass = 2
          /\ work[t].pass = 3 => s \in Late
    BY <1>1, <1>26 DEF StartAliasMap, GoTo, Become, Is, Stage, Stages, Work, Consistent, Late
  <2>2. work[t].stage \notin {"idle", "converted", "stripes", "in stripes"}
    BY <1>26 DEF StartAliasMap, Is, Stage
  <2> QED BY <1>1, <2>1, <2>2, OnlyStage
<1>21. CASE EndPass(t)
  <2>1. work[t].stage \in {"in pass", "alias map"} /\ work[t].pass \in Passes
    BY <1>1, <1>21 DEF EndPass, Stage, Consistent
  <2>2. PICK w :
          /\ work' = [work EXCEPT ![t] = w]
          /\ w = CASE work[t].pass = 1 -> [work[t] EXCEPT !.stage = "pass", !.pass = 2]
                   [] work[t].pass = 2 -> [work[t] EXCEPT !.stage = "curve", !.pass = 3]
                   [] work[t].pass = 3 -> [work[t] EXCEPT !.stage = "converted",
                                                         !.bits = 16, !.levels = 16]
    BY <1>21, Zenon DEF EndPass, Become
  <2>3. CASE work[t].pass = 1
    BY <1>1, <2>1, <2>2, <2>3, NextPass
  <2>4. CASE work[t].pass = 2
    <3>1. work[t].pass # 1
      BY <2>4
    <3> QED BY <1>1, <2>1, <2>2, <2>4, <3>1, NextPass
  <2>5. CASE work[t].pass = 3
    <3>1. work[t].pass # 1 /\ work[t].pass # 2
      BY <2>5
    <3> QED BY <1>1, <2>1, <2>2, <2>5, <3>1, NextPass
  <2>6. \A p \in Passes : p = 1 \/ p = 2 \/ p = 3
    BY DEF Passes
  <2> QED BY <2>1, <2>3, <2>4, <2>5, <2>6
<1>22. CASE FixStripes(t)
  <2>1. work' = [work EXCEPT ![t] = [work[t] EXCEPT !.stage = "in stripes"]]
    BY <1>22 DEF FixStripes, Become, GoTo
  <2> DEFINE w == [work[t] EXCEPT !.stage = "in stripes"]
  <2>2. w \in Work
    BY <1>1, <1>2 DEF Work, Stages
  <2>3. work[t].stage = "stripes"
    BY <1>22 DEF FixStripes, Is, Stage
  <2>4. Consistent(w)
    BY <1>1, <2>3 DEF Work, Consistent, Late
  <2> QED BY <2>1, <2>2, <2>4
<1>23. NoWork \in Work /\ Consistent(NoWork)
  BY DEF NoWork, Work, Stages, Passes, Consistent, Late
<1>24. CASE NoStripes(t)
  BY <1>23, <1>24 DEF NoStripes, Become
<1>25. CASE CorrectStripes(t)
  BY <1>23, <1>25 DEF CorrectStripes, Become
<1> QED
  BY <1>3, <1>4, <1>5, <1>6, <1>7, <1>8, <1>9, <1>10, <1>11, <1>12, <1>13,
     <1>14, <1>15, <1>16, <1>17, <1>18, <1>19, <1>20, <1>21, <1>22, <1>23,
     <1>24, <1>25, <1>26 DEF process_frame

(* No thread has begun a frame, and the options are some the page sends. *)
LEMMA WorkInit == FrameInit => WorkInv
<1> SUFFICES ASSUME FrameInit PROVE WorkInv
  OBVIOUS
<1>1. mlvfs \in Options /\ requested \in Options
  BY ProcessFrameAssumption DEF FrameInit
<1>2. NoWork \in Work /\ Consistent(NoWork)
  BY DEF NoWork, Work, Stages, Passes, Consistent, Late
<1>3. work = [t \in Threads |-> NoWork]
  BY DEF FrameInit
<1> QED BY <1>1, <1>2, <1>3 DEF WorkInv

(* What one thread does to its frame is all that a step does to work. *)
LEMMA WorkOfOne ==
  ASSUME WorkInv, NEW t \in Threads, NEW w \in Work, Consistent(w),
         work' = [work EXCEPT ![t] = w],
         mlvfs' \in Options, requested' \in Options
  PROVE  WorkInv'
<1>1. work' \in [Threads -> Work]
  BY DEF WorkInv
<1>2. \A u \in Threads : work'[u] = IF u = t THEN w ELSE work[u]
  BY DEF WorkInv
<1>3. \A u \in Threads : Consistent(work'[u])
  BY <1>2 DEF WorkInv
<1> QED BY <1>1, <1>3 DEF WorkInv

(* A frame that has just been begun. *)
LEMMA BegunFrame ==
  ASSUME NEW own \in Jobs
  PROVE  LET w == [NoWork EXCEPT !.job = own, !.stage = "dual_iso"]
         IN  w \in Work /\ Consistent(w)
<1> DEFINE w == [NoWork EXCEPT !.job = own, !.stage = "dual_iso"]
<1>1. NoWork \in Work
  BY DEF NoWork, Work, Stages, Passes
<1>2. "dual_iso" \in Stages
  BY DEF Stages
<1>3. w \in Work
  BY <1>1, <1>2 DEF Work
<1>4. NoWork.pass = 0 /\ NoWork.mode = "off" /\ NoWork.bits = 14 /\ NoWork.levels = 14 /\ NoWork.header = 14
  BY DEF NoWork
<1>5. Consistent(w)
  BY <1>1, <1>4 DEF Work, Consistent, Late
<1> QED BY <1>3, <1>5

(* Every step keeps the frames of all threads consistent. *)
LEMMA WorkNext == WorkInv /\ [FrameNext]_frameVars => WorkInv'
<1> SUFFICES ASSUME WorkInv, [FrameNext]_frameVars PROVE WorkInv'
  OBVIOUS
<1>1. mlvfs \in Options /\ requested \in Options
  BY DEF WorkInv
<1>2. ASSUME UNCHANGED work, mlvfs' \in Options, requested' \in Options
      PROVE  WorkInv'
  BY <1>2 DEF WorkInv
<1>3. CASE SetValue
  <2>1. UNCHANGED <<work, mlvfs>> /\ requested' \in Options
    BY <1>3, ProcessFrameAssumption DEF SetValue
  <2> QED BY <1>1, <1>2, <2>1
<1>4. CASE WriteOption
  <2>1. UNCHANGED work
    BY <1>4 DEF WriteOption
  <2>2. mlvfs' \in Options /\ requested' \in Options
    BY <1>4, OptionsWritten
  <2> QED BY <1>2, <2>1, <2>2
<1>5. ASSUME NEW t \in Threads, NEW c \in Clips, NEW f \in Frames, BeginFrame(t, c, f)
      PROVE  WorkInv'
  <2> DEFINE w == [NoWork EXCEPT !.job = [clip |-> c, frame |-> f], !.stage = "dual_iso"]
  <2>3. [clip |-> c, frame |-> f] \in Jobs
    BY DEF Jobs
  <2>1. w \in Work /\ Consistent(w)
    BY <2>3, BegunFrame
  <2>2. work' = [work EXCEPT ![t] = w] /\ UNCHANGED <<mlvfs, requested>>
    BY <1>5 DEF BeginFrame, Become, optionVars
  <2> QED BY <1>1, <2>1, <2>2, WorkOfOne
<1>6. ASSUME NEW t \in Threads, process_frame(t)
      PROVE  WorkInv'
  <2>1. UNCHANGED <<mlvfs, requested>>
    BY <1>6 DEF process_frame, PreviewDualIso, NoPreview, FullDualIso, NoDualIso,
       FindFocusMap, LoadFocusMap, RepairFocusPixels, AskBadPixels, AskAggressive,
       FindBadMap, FillBadMap, RepairBadPixels, ConvertPreview, DualIsoFails,
       AskCurve, FillCurve, BuildTables, StartAliasMap, EndPass, HeaderAgain, NoStripes,
       FixStripes, CorrectStripes, OnlyWork, OnlyMaps, optionVars
  <2>2. \/ UNCHANGED work
        \/ \E w \in Work : Consistent(w) /\ work' = [work EXCEPT ![t] = w]
    BY <1>6, FrameConsistent
  <2> QED BY <1>1, <1>2, <2>1, <2>2, WorkOfOne
<1>7. CASE UNCHANGED frameVars
  <2>1. UNCHANGED <<work, mlvfs, requested>>
    BY <1>7 DEF frameVars, optionVars
  <2> QED BY <1>1, <1>2, <2>1
<1> QED
  BY <1>3, <1>4, <1>5, <1>6, <1>7 DEF FrameNext, Over

(* Whatever the page changes in the middle of a frame, and whether dual    *)
(* ISO can be converted or not, the levels in the header of a developed    *)
(* frame are those of its samples, and pixels are repaired while samples   *)
(* and levels have 14 bits.                                                *)
THEOREM LevelsAlwaysMatch == FrameSpec => []LevelsMatch
<1>1. WorkInv => LevelsMatch
  BY DEF WorkInv, Consistent, LevelsMatch, Stage
<1> QED BY <1>1, WorkInit, WorkNext, PTL DEF FrameSpec

-----------------------------------------------------------------------------
(* Nobody has the mutex of a pass that another has, and the tables of the  *)
(* pass are those of its owner.                                            *)
MutexInv ==
  /\ \A t, u \in Threads :
       Holds(work[t]) /\ Holds(work[u]) /\ work[t].pass = work[u].pass => t = u
  /\ \A t \in Threads : Holds(work[t]) => table[work[t].pass] = BlackFor(t)

(* A curve that is not filled is one nobody asked for, or one that a       *)
(* thread is filling; and unless threads race, one who blends has his own. *)
TableInv ==
  /\ WorkInv
  /\ table \in [Passes -> Nat \cup {None}]
  /\ curve \in [black : Nat \cup {None}, filled : BOOLEAN]
  /\ MutexInv
  /\ ~curve.filled => curve.black = None \/ \E t \in Threads : Stage(t) = "fill curve"
  /\ ~Stopped =>
       \A t \in Threads : Blends(work[t]) => curve = [black |-> BlackFor(t), filled |-> TRUE]

(* Neither in a pass with its tables, nor going by the curve. *)
Quiet(w) == ~Holds(w) /\ ~Blends(w)

(* Who has a mutex in w had it in v. *)
Stays(w, v) == Holds(w) => Holds(v) /\ w.pass = v.pass /\ w.job = v.job

(* A frame of a clip has a black level. *)
LEMMA BlackIsNat ==
  ASSUME NEW t \in Threads, WorkInv, Stage(t) # "idle"
  PROVE  BlackFor(t) \in Nat
BY ProcessFrameAssumption DEF WorkInv, Consistent, Stage, BlackFor, Jobs

(* Two threads at the curve race when one of them fills it. *)
LEMMA CurveRace ==
  ASSUME NEW t \in Threads, NEW u \in Threads, t # u,
         Stage(t) = "fill curve", Stage(u) = "fill curve" \/ Blends(work[u])
  PROVE  Stopped
<1>1. StructureOf(t) = "curve"
  BY DEF StructureOf, Stage
<1>2. StructureOf(u) = "curve"
  BY DEF StructureOf, Stage, Blends
<1>3. Extends(t)
  BY DEF Extends, Stage
<1> QED BY <1>1, <1>2, <1>3 DEF Stopped, Racing

(* The same after a step. *)
LEMMA CurveRacePrimed ==
  ASSUME NEW t \in Threads, NEW u \in Threads, t # u,
         Stage(t)' = "fill curve", Stage(u)' = "fill curve" \/ Blends(work'[u])
  PROVE  Stopped'
<1>1. StructureOf(t)' = "curve"
  BY DEF StructureOf, Stage
<1>2. StructureOf(u)' = "curve"
  BY DEF StructureOf, Stage, Blends
<1>3. Extends(t)'
  BY DEF Extends, Stage
<1> QED BY <1>1, <1>2, <1>3 DEF Stopped, Racing

(* The step neither touches tables nor lets the thread near others. *)
Settled(t) ==
  /\ UNCHANGED <<table, curve>>
  /\ work[t].stage # "fill curve"
  /\ \E w : ~Blends(w) /\ Stays(w, work[t]) /\ work' = [work EXCEPT ![t] = w]

(* Only the steps of hdr_interpolate use the tables. *)
LEMMA OthersSettled ==
  ASSUME WorkInv, NEW t \in Threads, process_frame(t)
  PROVE  \/ AskCurve(t) \/ FillCurve(t) \/ BuildTables(t) \/ EndPass(t)
         \/ UNCHANGED <<table, curve, work>>
         \/ Settled(t)
<1>1. work[t] \in Work /\ Consistent(work[t]) /\ work \in [Threads -> Work]
  BY DEF WorkInv
<1>2. CASE NoPreview(t)
  <2>1. PICK s :
          /\ work' = [work EXCEPT ![t] = [work[t] EXCEPT !.stage = s]]
          /\ s # "in pass" /\ s # "curve" /\ s # "fill curve" /\ s # "alias map"
          /\ s = "pass" => work[t].pass # 3
    BY <1>1, <1>2 DEF NoPreview, GoTo, Become, Is, Stage, Work, Consistent, Late
  <2>2. UNCHANGED <<table, curve>> /\ work[t].stage # "fill curve"
    BY <1>2 DEF NoPreview, OnlyWork, OnlyMaps, tableVars, Is, Stage
  <2>3. Quiet([work[t] EXCEPT !.stage = s])
    BY <1>1, <2>1 DEF Work, Quiet, Holds, Blends
  <2> QED BY <2>1, <2>2, <2>3 DEF Settled, Quiet, Stays
<1>3. CASE NoDualIso(t)
  <2>1. PICK s :
          /\ work' = [work EXCEPT ![t] = [work[t] EXCEPT !.stage = s]]
          /\ s # "in pass" /\ s # "curve" /\ s # "fill curve" /\ s # "alias map"
          /\ s = "pass" => work[t].pass # 3
    BY <1>1, <1>3 DEF NoDualIso, GoTo, Become, Is, Stage, Work, Consistent, Late
  <2>2. UNCHANGED <<table, curve>> /\ work[t].stage # "fill curve"
    BY <1>3 DEF NoDualIso, OnlyWork, OnlyMaps, tableVars, Is, Stage
  <2>3. Quiet([work[t] EXCEPT !.stage = s])
    BY <1>1, <2>1 DEF Work, Quiet, Holds, Blends
  <2> QED BY <2>1, <2>2, <2>3 DEF Settled, Quiet, Stays
<1>4. CASE FindFocusMap(t)
  <2>1. PICK s :
          /\ work' = [work EXCEPT ![t] = [work[t] EXCEPT !.stage = s]]
          /\ s # "in pass" /\ s # "curve" /\ s # "fill curve" /\ s # "alias map"
          /\ s = "pass" => work[t].pass # 3
    BY <1>1, <1>4 DEF FindFocusMap, GoTo, Become, Is, Stage, Work, Consistent, Late,
       RepairOrSkip, AfterFocus
  <2>2. UNCHANGED <<table, curve>> /\ work[t].stage # "fill curve"
    BY <1>4 DEF FindFocusMap, OnlyWork, OnlyMaps, tableVars, Is, Stage
  <2>3. Quiet([work[t] EXCEPT !.stage = s])
    BY <1>1, <2>1 DEF Work, Quiet, Holds, Blends
  <2> QED BY <2>1, <2>2, <2>3 DEF Settled, Quiet, Stays
<1>5. CASE LoadFocusMap(t)
  <2>1. PICK s :
          /\ work' = [work EXCEPT ![t] = [work[t] EXCEPT !.stage = s]]
          /\ s # "in pass" /\ s # "curve" /\ s # "fill curve" /\ s # "alias map"
          /\ s = "pass" => work[t].pass # 3
    BY <1>1, <1>5 DEF LoadFocusMap, GoTo, Become, Is, Stage, Work, Consistent, Late,
       RepairOrSkip, AfterFocus
  <2>2. UNCHANGED <<table, curve>> /\ work[t].stage # "fill curve"
    BY <1>5 DEF LoadFocusMap, OnlyWork, OnlyMaps, tableVars, Is, Stage
  <2>3. Quiet([work[t] EXCEPT !.stage = s])
    BY <1>1, <2>1 DEF Work, Quiet, Holds, Blends
  <2> QED BY <2>1, <2>2, <2>3 DEF Settled, Quiet, Stays
<1>6. CASE RepairFocusPixels(t)
  <2>1. PICK s :
          /\ work' = [work EXCEPT ![t] = [work[t] EXCEPT !.stage = s]]
          /\ s # "in pass" /\ s # "curve" /\ s # "fill curve" /\ s # "alias map"
          /\ s = "pass" => work[t].pass # 3
    BY <1>1, <1>6 DEF RepairFocusPixels, GoTo, Become, Is, Stage, Work, Consistent, Late,
       AfterFocus
  <2>2. UNCHANGED <<table, curve>> /\ work[t].stage # "fill curve"
    BY <1>6 DEF RepairFocusPixels, OnlyWork, OnlyMaps, tableVars, Is, Stage
  <2>3. Quiet([work[t] EXCEPT !.stage = s])
    BY <1>1, <2>1 DEF Work, Quiet, Holds, Blends
  <2> QED BY <2>1, <2>2, <2>3 DEF Settled, Quiet, Stays
<1>7. CASE AskBadPixels(t)
  <2>1. PICK s :
          /\ work' = [work EXCEPT ![t] = [work[t] EXCEPT !.stage = s]]
          /\ s # "in pass" /\ s # "curve" /\ s # "fill curve" /\ s # "alias map"
          /\ s = "pass" => work[t].pass # 3
    BY <1>1, <1>7 DEF AskBadPixels, GoTo, Become, Is, Stage, Work, Consistent, Late
  <2>2. UNCHANGED <<table, curve>> /\ work[t].stage # "fill curve"
    BY <1>7 DEF AskBadPixels, OnlyWork, OnlyMaps, tableVars, Is, Stage
  <2>3. Quiet([work[t] EXCEPT !.stage = s])
    BY <1>1, <2>1 DEF Work, Quiet, Holds, Blends
  <2> QED BY <2>1, <2>2, <2>3 DEF Settled, Quiet, Stays
<1>8. CASE FindBadMap(t)
  <2>1. PICK s :
          /\ work' = [work EXCEPT ![t] = [work[t] EXCEPT !.stage = s]]
          /\ s # "in pass" /\ s # "curve" /\ s # "fill curve" /\ s # "alias map"
          /\ s = "pass" => work[t].pass # 3
    BY <1>1, <1>8 DEF FindBadMap, GoTo, Become, Is, Stage, Work, Consistent, Late
  <2>2. UNCHANGED <<table, curve>> /\ work[t].stage # "fill curve"
    BY <1>8 DEF FindBadMap, OnlyWork, OnlyMaps, tableVars, Is, Stage
  <2>3. Quiet([work[t] EXCEPT !.stage = s])
    BY <1>1, <2>1 DEF Work, Quiet, Holds, Blends
  <2> QED BY <2>1, <2>2, <2>3 DEF Settled, Quiet, Stays
<1>9. CASE FillBadMap(t)
  <2>1. PICK s :
          /\ work' = [work EXCEPT ![t] = [work[t] EXCEPT !.stage = s]]
          /\ s # "in pass" /\ s # "curve" /\ s # "fill curve" /\ s # "alias map"
          /\ s = "pass" => work[t].pass # 3
    BY <1>1, <1>9 DEF FillBadMap, GoTo, Become, Is, Stage, Work, Consistent, Late
  <2>2. UNCHANGED <<table, curve>> /\ work[t].stage # "fill curve"
    BY <1>9 DEF FillBadMap, OnlyWork, OnlyMaps, tableVars, Is, Stage
  <2>3. Quiet([work[t] EXCEPT !.stage = s])
    BY <1>1, <2>1 DEF Work, Quiet, Holds, Blends
  <2> QED BY <2>1, <2>2, <2>3 DEF Settled, Quiet, Stays
<1>10. CASE RepairBadPixels(t)
  <2>1. PICK s :
          /\ work' = [work EXCEPT ![t] = [work[t] EXCEPT !.stage = s]]
          /\ s # "in pass" /\ s # "curve" /\ s # "fill curve" /\ s # "alias map"
          /\ s = "pass" => work[t].pass # 3
    BY <1>1, <1>10 DEF RepairBadPixels, GoTo, Become, Is, Stage, Work, Consistent, Late
  <2>2. UNCHANGED <<table, curve>> /\ work[t].stage # "fill curve"
    BY <1>10 DEF RepairBadPixels, OnlyWork, OnlyMaps, tableVars, Is, Stage
  <2>3. Quiet([work[t] EXCEPT !.stage = s])
    BY <1>1, <2>1 DEF Work, Quiet, Holds, Blends
  <2> QED BY <2>1, <2>2, <2>3 DEF Settled, Quiet, Stays
<1>11. CASE PreviewDualIso(t)
  <2>1. PICK mode :
          work' = [work EXCEPT ![t] = [work[t] EXCEPT !.stage = "focus", !.mode = mode]]
    BY <1>11, Zenon DEF PreviewDualIso, Become
  <2> DEFINE w == [work[t] EXCEPT !.stage = "focus", !.mode = mode]
  <2>2. UNCHANGED <<table, curve>> /\ work[t].stage # "fill curve"
    BY <1>11 DEF PreviewDualIso, OnlyWork, OnlyMaps, tableVars, Is, Stage
  <2>3. Quiet(w)
    BY <1>1 DEF Work, Quiet, Holds, Blends
  <2> QED BY <2>1, <2>2, <2>3 DEF Settled, Quiet, Stays
<1>12. CASE FullDualIso(t)
  <2>1. PICK mode, pass :
          work' = [work EXCEPT ![t] = [work[t] EXCEPT !.stage = "focus", !.mode = mode, !.pass = pass,
                                  !.fix_bad_pixels = mlvfs.fix_bad_pixels]]
    BY <1>12, Zenon DEF FullDualIso, Become
  <2> DEFINE w == [work[t] EXCEPT !.stage = "focus", !.mode = mode, !.pass = pass,
                                  !.fix_bad_pixels = mlvfs.fix_bad_pixels]
  <2>2. UNCHANGED <<table, curve>> /\ work[t].stage # "fill curve"
    BY <1>12 DEF FullDualIso, OnlyWork, OnlyMaps, tableVars, Is, Stage
  <2>3. Quiet(w)
    BY <1>1 DEF Work, Quiet, Holds, Blends
  <2> QED BY <2>1, <2>2, <2>3 DEF Settled, Quiet, Stays
<1>13. CASE AskAggressive(t)
  <2> DEFINE w == [work[t] EXCEPT !.stage = "bad", !.fix_bad_pixels = mlvfs.fix_bad_pixels]
  <2>1. work' = [work EXCEPT ![t] = w]
    BY <1>13 DEF AskAggressive, Become, GoTo
  <2>2. UNCHANGED <<table, curve>> /\ work[t].stage # "fill curve"
    BY <1>13 DEF AskAggressive, OnlyWork, OnlyMaps, tableVars, Is, Stage
  <2>3. Quiet(w)
    BY <1>1 DEF Work, Quiet, Holds, Blends
  <2> QED BY <2>1, <2>2, <2>3 DEF Settled, Quiet, Stays
<1>14. CASE ConvertPreview(t)
  <2> DEFINE w == [work[t] EXCEPT !.stage = "converted", !.bits = 16, !.levels = 16]
  <2>1. work' = [work EXCEPT ![t] = w]
    BY <1>14 DEF ConvertPreview, Become, GoTo
  <2>2. UNCHANGED <<table, curve>> /\ work[t].stage # "fill curve"
    BY <1>14 DEF ConvertPreview, OnlyWork, OnlyMaps, tableVars, Is, Stage
  <2>3. Quiet(w)
    BY <1>1 DEF Work, Quiet, Holds, Blends
  <2> QED BY <2>1, <2>2, <2>3 DEF Settled, Quiet, Stays
<1>15. CASE DualIsoFails(t)
  <2> DEFINE w == [work[t] EXCEPT !.stage = "focus", !.mode = "off", !.pass = 0]
  <2>1. work' = [work EXCEPT ![t] = w]
    BY <1>15 DEF DualIsoFails, Become, GoTo
  <2>2. UNCHANGED <<table, curve>> /\ work[t].stage # "fill curve"
    BY <1>15 DEF DualIsoFails, OnlyWork, OnlyMaps, tableVars, Is, Stage
  <2>3. Quiet(w)
    BY <1>1 DEF Work, Quiet, Holds, Blends
  <2> QED BY <2>1, <2>2, <2>3 DEF Settled, Quiet, Stays
<1>16. CASE HeaderAgain(t)
  <2> DEFINE w == [work[t] EXCEPT !.stage = "stripes", !.header = work[t].levels]
  <2>1. work' = [work EXCEPT ![t] = w]
    BY <1>16 DEF HeaderAgain, Become, GoTo
  <2>2. UNCHANGED <<table, curve>> /\ work[t].stage # "fill curve"
    BY <1>16 DEF HeaderAgain, OnlyWork, OnlyMaps, tableVars, Is, Stage
  <2>3. Quiet(w)
    BY <1>1 DEF Work, Quiet, Holds, Blends
  <2> QED BY <2>1, <2>2, <2>3 DEF Settled, Quiet, Stays
<1>17. CASE FixStripes(t)
  <2> DEFINE w == [work[t] EXCEPT !.stage = "in stripes"]
  <2>1. work' = [work EXCEPT ![t] = w]
    BY <1>17 DEF FixStripes, Become, GoTo
  <2>2. UNCHANGED <<table, curve>> /\ work[t].stage # "fill curve"
    BY <1>17 DEF FixStripes, OnlyWork, OnlyMaps, tableVars, Is, Stage
  <2>3. Quiet(w)
    BY <1>1 DEF Work, Quiet, Holds, Blends
  <2> QED BY <2>1, <2>2, <2>3 DEF Settled, Quiet, Stays
<1>21. CASE StartAliasMap(t)
  <2> DEFINE w == [work[t] EXCEPT !.stage = "curve"]
  <2>1. work' = [work EXCEPT ![t] = w] /\ work[t].stage = "in pass" /\ work[t].pass = 2
    BY <1>21 DEF StartAliasMap, Become, GoTo, Is, Stage
  <2>2. UNCHANGED <<table, curve>>
    BY <1>21 DEF StartAliasMap, OnlyWork, tableVars
  <2>3. Stays(w, work[t]) /\ ~Blends(w)
    BY <1>1, <2>1 DEF Work, Stays, Holds, Blends
  <2> QED BY <2>1, <2>2, <2>3 DEF Settled
<1>18. Quiet(NoWork)
  BY DEF NoWork, Quiet, Holds, Blends
<1>19. CASE NoStripes(t)
  BY <1>18, <1>19 DEF NoStripes, Become, OnlyWork, tableVars, Is, Stage, Settled, Quiet, Stays
<1>20. CASE CorrectStripes(t)
  <2>1. UNCHANGED <<table, curve>>
    BY <1>20 DEF CorrectStripes, tableVars
  <2>2. work[t].stage # "fill curve" \/ UNCHANGED work
    BY <1>20 DEF CorrectStripes, Is, Stage
  <2> QED BY <1>18, <1>20, <2>1, <2>2 DEF CorrectStripes, Become, Settled, Quiet, Stays
<1> QED
  BY <1>2, <1>3, <1>4, <1>5, <1>6, <1>7, <1>8, <1>9, <1>10, <1>11, <1>12, <1>13, <1>14, <1>15,
     <1>16, <1>17, <1>19, <1>20, <1>21 DEF process_frame

(* A step on the frame of one thread leaves the others what they are. *)
LEMMA Others ==
  ASSUME WorkInv, NEW t \in Threads, NEW w, work' = [work EXCEPT ![t] = w]
  PROVE  /\ work'[t] = w
         /\ \A u \in Threads \ {t} : work'[u] = work[u]
BY DEF WorkInv

(* While a thread gets no mutex, those that are held stay with their       *)
(* owners, and so do the tables.                                           *)
LEMMA MutexKept ==
  ASSUME WorkInv, MutexInv, table' = table, NEW t \in Threads, NEW w,
         work' = [work EXCEPT ![t] = w], Stays(w, work[t])
  PROVE  MutexInv'
<1>1. \A u \in Threads : Holds(work'[u]) =>
        Holds(work[u]) /\ work'[u].pass = work[u].pass /\ work'[u].job = work[u].job
  BY Others DEF Stays
<1> QED BY <1>1 DEF MutexInv, BlackFor

(* The levels and curves of threads when one of them is not near them. *)
LEMMA SettledStep ==
  ASSUME TableInv, WorkInv', ~Stopped, NEW t \in Threads, Settled(t)
  PROVE  TableInv'
<1>1. WorkInv /\ MutexInv /\ UNCHANGED <<table, curve>>
  BY DEF TableInv, Settled
<1>2. PICK w : ~Blends(w) /\ Stays(w, work[t]) /\ work' = [work EXCEPT ![t] = w]
  BY DEF Settled
<1>3. work'[t] = w /\ \A u \in Threads \ {t} : work'[u] = work[u]
  BY <1>1, <1>2, Others
<1>4. MutexInv'
  BY <1>1, <1>2, MutexKept
<1>5. ~curve'.filled =>
        curve'.black = None \/ \E u \in Threads : Stage(u)' = "fill curve"
  <2> SUFFICES ASSUME ~curve'.filled, curve'.black # None
               PROVE  \E u \in Threads : Stage(u)' = "fill curve"
    OBVIOUS
  <2>1. PICK u \in Threads : Stage(u) = "fill curve"
    BY <1>1 DEF TableInv
  <2>2. u # t
    BY <2>1 DEF Settled, Stage
  <2> QED BY <1>3, <2>1, <2>2 DEF Stage
<1>6. \A u \in Threads : Blends(work'[u]) =>
        curve' = [black |-> BlackFor(u)', filled |-> TRUE]
  BY <1>1, <1>2, <1>3 DEF TableInv, BlackFor
<1> QED BY <1>1, <1>4, <1>5, <1>6 DEF TableInv

(* The mutex of a pass keeps its tables for the thread that built them. *)
LEMMA BuildTablesStep ==
  ASSUME TableInv, WorkInv', ~Stopped, NEW t \in Threads, BuildTables(t)
  PROVE  TableInv'
<1> DEFINE w == [work[t] EXCEPT !.stage = "in pass"]
<1>1. /\ WorkInv /\ MutexInv
      /\ work[t] \in Work
      /\ Stage(t) = "pass" /\ ~Locked(work[t].pass)
      /\ table' = [table EXCEPT ![work[t].pass] = BlackFor(t)]
      /\ curve' = curve
      /\ work' = [work EXCEPT ![t] = w]
  BY DEF TableInv, WorkInv, BuildTables, Is, GoTo, Become
<1>2. work'[t] = w /\ \A u \in Threads \ {t} : work'[u] = work[u]
  BY <1>1, Others
<1>3. w.stage = "in pass" /\ w.pass = work[t].pass /\ w.job = work[t].job
  BY <1>1 DEF Work
<1>4. work[t].pass \in Passes /\ BlackFor(t) \in Nat
  BY <1>1, BlackIsNat DEF WorkInv, Consistent, Stage
<1>5. \A u \in Threads \ {t} :
        Holds(work'[u]) => Holds(work[u]) /\ work[u].pass # work[t].pass
  BY <1>1, <1>2 DEF Locked
<1>6. table' \in [Passes -> Nat \cup {None}]
  BY <1>1, <1>4 DEF TableInv
<1>7. ASSUME NEW u \in Threads, NEW v \in Threads,
             Holds(work'[u]), Holds(work'[v]), work'[u].pass = work'[v].pass
      PROVE  u = v
  <2>1. CASE u # t /\ v # t
    <3>1. Holds(work[u]) /\ Holds(work[v]) /\ work[u].pass = work[v].pass
      BY <1>2, <1>5, <1>7, <2>1
    <3> QED BY <1>1, <3>1 DEF MutexInv
  <2>2. ASSUME NEW x \in Threads \ {t}, Holds(work'[x])
        PROVE  work'[x].pass # work'[t].pass
    <3>1. work[x].pass # work[t].pass
      BY <1>5, <2>2
    <3> QED BY <1>2, <1>3, <3>1
  <2> QED BY <1>7, <2>1, <2>2
<1>8. ASSUME NEW u \in Threads, Holds(work'[u])
      PROVE  table'[work'[u].pass] = BlackFor(u)'
  <2>1. CASE u = t
    <3>1. work'[u].pass = work[t].pass /\ BlackFor(u)' = BlackFor(t)
      BY <1>2, <1>3, <2>1 DEF BlackFor
    <3>2. table'[work[t].pass] = BlackFor(t)
      BY <1>1, <1>4 DEF TableInv
    <3> QED BY <3>1, <3>2
  <2>2. CASE u # t
    <3>1. Holds(work[u]) /\ work[u].pass # work[t].pass /\ work'[u] = work[u]
      BY <1>2, <1>5, <1>8, <2>2
    <3>2. table[work[u].pass] = BlackFor(u) /\ BlackFor(u)' = BlackFor(u)
      BY <1>1, <3>1 DEF MutexInv, BlackFor
    <3>3. work[u].pass \in Passes
      BY <1>1, <3>1 DEF WorkInv, Consistent, Holds
    <3>4. table'[work[u].pass] = table[work[u].pass]
      BY <1>1, <3>1, <3>3 DEF TableInv
    <3> QED BY <3>1, <3>2, <3>4
  <2> QED BY <2>1, <2>2
<1>9. MutexInv'
  BY <1>7, <1>8 DEF MutexInv
<1>10. ~curve'.filled =>
         curve'.black = None \/ \E u \in Threads : Stage(u)' = "fill curve"
  BY <1>1, <1>2 DEF TableInv, Stage
<1>11. ASSUME NEW u \in Threads, Blends(work'[u])
       PROVE  curve' = [black |-> BlackFor(u)', filled |-> TRUE]
  <2>1. Blends(work[u]) /\ BlackFor(u)' = BlackFor(u)
    <3>1. CASE u = t
      <4>1. work'[t].pass = 3 /\ work'[t].job = work[t].job
        BY <1>2, <1>3, <1>11, <3>1 DEF Blends
      <4>2. work[t].pass = 3 /\ work[t].stage = "pass"
        BY <1>1, <1>2, <1>3, <4>1 DEF Stage
      <4> QED BY <3>1, <4>1, <4>2 DEF Blends, BlackFor
    <3>2. CASE u # t
      BY <1>2, <1>11, <3>2 DEF BlackFor
    <3> QED BY <3>1, <3>2
  <2> QED BY <1>1, <2>1 DEF TableInv
<1> QED BY <1>1, <1>6, <1>9, <1>10, <1>11 DEF TableInv

(* The end of a pass gives up its mutex, and its tables. *)
LEMMA EndPassStep ==
  ASSUME TableInv, WorkInv', ~Stopped, NEW t \in Threads, EndPass(t)
  PROVE  TableInv'
<1>1. /\ WorkInv /\ UNCHANGED <<table, curve>> /\ work[t] \in Work
      /\ work[t].stage \in {"in pass", "alias map"}
  BY DEF TableInv, WorkInv, EndPass, OnlyWork, tableVars, Stage
<1>2. PICK w :
        /\ work' = [work EXCEPT ![t] = w]
        /\ w = CASE work[t].pass = 1 -> [work[t] EXCEPT !.stage = "pass", !.pass = 2]
                 [] work[t].pass = 2 -> [work[t] EXCEPT !.stage = "curve", !.pass = 3]
                 [] work[t].pass = 3 -> [work[t] EXCEPT !.stage = "converted",
                                                       !.bits = 16, !.levels = 16]
  BY Zenon DEF EndPass, Become
<1>3. work[t].pass = 1 \/ work[t].pass = 2 \/ work[t].pass = 3
  <2>1. work[t].pass \in Passes
    BY <1>1 DEF WorkInv, Consistent
  <2>2. \A p \in Passes : p = 1 \/ p = 2 \/ p = 3
    BY DEF Passes
  <2> QED BY <2>1, <2>2
<1>4. Quiet(w)
  <2>1. CASE work[t].pass = 1
    <3>1. w = [work[t] EXCEPT !.stage = "pass", !.pass = 2]
      BY <1>2, <2>1
    <3>2. w.stage = "pass" /\ w.pass = 2
      BY <1>1, <3>1 DEF Work
    <3> QED BY <3>2 DEF Quiet, Holds, Blends
  <2>2. CASE work[t].pass = 2
    <3>1. w = [work[t] EXCEPT !.stage = "curve", !.pass = 3]
      BY <1>2, <2>2
    <3>2. w.stage = "curve" /\ w.pass = 3
      BY PassesAre, <1>1, <3>1 DEF Work
    <3> QED BY <3>2 DEF Quiet, Holds, Blends
  <2>3. CASE work[t].pass = 3
    <3>1. work[t].pass # 1 /\ work[t].pass # 2
      BY <2>3
    <3> QED BY <1>1, <1>2, <2>3, <3>1 DEF Work, Quiet, Holds, Blends
  <2> QED BY <1>3, <2>1, <2>2, <2>3
<1>5. Settled(t)
  BY <1>1, <1>2, <1>4 DEF Settled, Quiet, Stays
<1> QED BY <1>5, SettledStep

(* Who asks for the curve goes by it when it is ready. *)
LEMMA WithCurveBlends ==
  ASSUME WorkInv, NEW t \in Threads, Stage(t) \in {"curve", "fill curve"}
  PROVE  LET w == [work[t] EXCEPT !.stage = WithCurve(t)]
         IN  Blends(w) /\ w.job = work[t].job /\ w.stage # "fill curve" /\ Stays(w, work[t])
<1>1. work[t] \in Work /\ work[t].pass \in {2, 3}
  BY DEF WorkInv, Consistent, Stage
<1> QED BY <1>1 DEF Work, WithCurve, Blends, Holds, Stays, Stage

(* Who finds the black level of the curve his own goes by it: it has been  *)
(* filled, or it is being filled, and then the two race.                   *)
LEMMA AskCurveStep ==
  ASSUME TableInv, WorkInv', ~Stopped, NEW t \in Threads, AskCurve(t)
  PROVE  TableInv'
<1> DEFINE black == BlackFor(t)
           fill  == [work[t] EXCEPT !.stage = "fill curve"]
           go    == [work[t] EXCEPT !.stage = WithCurve(t)]
<1>1. /\ WorkInv /\ MutexInv
      /\ work[t] \in Work
      /\ Stage(t) = "curve"
      /\ curve' = [black |-> black, filled |-> curve.filled /\ curve.black = black]
      /\ table' = table
  BY DEF TableInv, WorkInv, AskCurve, Is
<1>2. PICK w : /\ w = IF curve.black = black THEN go ELSE fill
               /\ work' = [work EXCEPT ![t] = w]
  BY DEF AskCurve, GoTo, Become
<1>3. work'[t] = w /\ \A u \in Threads \ {t} : work'[u] = work[u]
  BY <1>1, <1>2, Others
<1>4. Blends(go) /\ go.job = work[t].job /\ Stays(go, work[t])
  BY <1>1, WithCurveBlends
<1>5. /\ fill.stage = "fill curve" /\ fill.job = work[t].job /\ ~Blends(fill)
      /\ Stays(fill, work[t])
  BY <1>1 DEF Work, Blends, Holds, Stays, Stage
<1>6. black \in Nat
  BY <1>1, BlackIsNat
<1>7. curve' \in [black : Nat \cup {None}, filled : BOOLEAN]
  BY <1>1, <1>6 DEF TableInv
<1>8. MutexInv'
  BY <1>1, <1>2, <1>4, <1>5, MutexKept
<1>9. BlackFor(t)' = black
  BY <1>2, <1>3, <1>4, <1>5 DEF BlackFor
<1>10. CASE curve.black = black /\ curve.filled
  <2>1. curve' = [black |-> black, filled |-> TRUE] /\ curve' = curve
    BY <1>1, <1>10 DEF TableInv
  <2>2. ASSUME NEW u \in Threads, u # t, Blends(work'[u])
        PROVE  curve' = [black |-> BlackFor(u)', filled |-> TRUE]
    <3>1. Blends(work[u]) /\ BlackFor(u)' = BlackFor(u)
      BY <1>3, <2>2 DEF BlackFor
    <3> QED BY <2>1, <3>1 DEF TableInv
  <2>3. \A u \in Threads : Blends(work'[u]) =>
          curve' = [black |-> BlackFor(u)', filled |-> TRUE]
    BY <1>9, <2>1, <2>2
  <2>4. curve'.filled
    BY <2>1
  <2> QED BY <1>1, <1>7, <1>8, <2>3, <2>4 DEF TableInv
<1>11. CASE curve.black = black /\ ~curve.filled
  <2>1. PICK u \in Threads : Stage(u) = "fill curve"
    BY <1>6, <1>11, ProcessFrameAssumption DEF TableInv
  <2>2. u # t
    BY <1>1, <2>1
  <2>3. Stage(u)' = "fill curve"
    BY <1>3, <2>1, <2>2 DEF Stage
  <2>4. Blends(work'[t])
    BY <1>2, <1>3, <1>4, <1>11
  <2>5. Stopped'
    BY <2>2, <2>3, <2>4, CurveRacePrimed
  <2> QED BY <1>1, <1>7, <1>8, <2>3, <2>5 DEF TableInv
<1>12. CASE curve.black # black
  <2>1. Stage(t)' = "fill curve" /\ ~Blends(work'[t])
    BY <1>2, <1>3, <1>5, <1>12 DEF Stage
  <2>2. ASSUME NEW u \in Threads, Blends(work'[u])
        PROVE  Stopped'
    BY <2>1, <2>2, CurveRacePrimed
  <2> QED BY <1>1, <1>7, <1>8, <2>1, <2>2 DEF TableInv
<1> QED BY <1>10, <1>11, <1>12

(* Unless threads race, nobody else is at the curve while it is filled.    *)
LEMMA FillCurveStep ==
  ASSUME TableInv, WorkInv', ~Stopped, NEW t \in Threads, FillCurve(t)
  PROVE  TableInv'
<1> DEFINE w == [work[t] EXCEPT !.stage = WithCurve(t)]
<1>1. /\ WorkInv /\ MutexInv
      /\ Stage(t) = "fill curve"
      /\ curve' = [black |-> BlackFor(t), filled |-> TRUE]
      /\ table' = table
      /\ work' = [work EXCEPT ![t] = w]
  BY DEF TableInv, FillCurve, Is, GoTo, Become
<1>2. work'[t] = w /\ \A u \in Threads \ {t} : work'[u] = work[u]
  BY <1>1, Others
<1>3. w.job = work[t].job /\ Stays(w, work[t])
  BY <1>1, WithCurveBlends
<1>4. BlackFor(t) \in Nat /\ BlackFor(t)' = BlackFor(t)
  BY <1>1, <1>2, <1>3, BlackIsNat DEF BlackFor
<1>5. MutexInv'
  BY <1>1, <1>3, MutexKept
<1>6. ASSUME NEW u \in Threads, Blends(work'[u])
      PROVE  curve' = [black |-> BlackFor(u)', filled |-> TRUE]
  <2>1. CASE u = t
    BY <1>1, <1>4, <2>1
  <2>2. CASE u # t
    <3>1. Blends(work[u])
      BY <1>2, <1>6, <2>2
    <3> QED BY <1>1, <2>2, <3>1, CurveRace
  <2> QED BY <2>1, <2>2
<1>7. curve' \in [black : Nat \cup {None}, filled : BOOLEAN] /\ curve'.filled
  BY <1>1, <1>4
<1>8. table' \in [Passes -> Nat \cup {None}]
  BY <1>1 DEF TableInv
<1> QED BY <1>1, <1>5, <1>6, <1>7, <1>8 DEF TableInv

(* Before the first frame nothing has been built. *)
LEMMA TableInit == FrameInit => TableInv
<1> SUFFICES ASSUME FrameInit PROVE TableInv
  OBVIOUS
<1>1. WorkInv
  BY WorkInit
<1>2. table = [p \in Passes |-> None] /\ curve = [black |-> None, filled |-> FALSE]
  BY DEF FrameInit
<1>3. \A t \in Threads : Stage(t) = "idle"
  BY DEF FrameInit, NoWork, Stage
<1>4. \A t \in Threads : ~Blends(work[t]) /\ ~Holds(work[t])
  BY <1>3 DEF Stage, Blends, Holds
<1>5. /\ table \in [Passes -> Nat \cup {None}]
      /\ curve \in [black : Nat \cup {None}, filled : BOOLEAN]
      /\ curve.black = None
  BY <1>2
<1> QED BY <1>1, <1>4, <1>5 DEF TableInv, MutexInv

(* A step that leaves the frames, their tables and the race as they are. *)
LEMMA TableKept ==
  ASSUME TableInv, WorkInv', ~Stopped \/ (Stopped' <=> Stopped), UNCHANGED <<work, table, curve>>
  PROVE  TableInv'
BY DEF TableInv, MutexInv, Stage, BlackFor

(* Every step keeps the tables their owners'. *)
LEMMA TableNext == TableInv /\ [FrameNext]_frameVars => TableInv'
<1> SUFFICES ASSUME TableInv, [FrameNext]_frameVars PROVE TableInv'
  OBVIOUS
<1>1. WorkInv /\ WorkInv'
  BY WorkNext DEF TableInv
<1>2. CASE UNCHANGED frameVars
  <2>1. UNCHANGED <<work, table, curve, pc, undefined>>
    BY <1>2 DEF frameVars, tableVars, vars
  <2>2. Stopped' <=> Stopped
    BY <2>1 DEF Stopped, Racing, Extends, StructureOf, Stage, Blends
  <2> QED BY <1>1, <2>1, <2>2, TableKept
<1>3. CASE Over
  BY <1>2, <1>3 DEF Over
<1>4. CASE ~Stopped /\ (SetValue \/ WriteOption)
  <2>1. UNCHANGED <<work, table, curve>>
    BY <1>4 DEF SetValue, WriteOption, tableVars
  <2> QED BY <1>1, <1>4, <2>1, TableKept
<1>5. ASSUME ~Stopped, NEW t \in Threads, NEW c \in Clips, NEW f \in Frames,
             BeginFrame(t, c, f)
      PROVE  TableInv'
  <2> DEFINE w == [NoWork EXCEPT !.job = [clip |-> c, frame |-> f], !.stage = "dual_iso"]
  <2>1. work' = [work EXCEPT ![t] = w] /\ UNCHANGED <<table, curve>>
        /\ work[t].stage # "fill curve"
    BY <1>5 DEF BeginFrame, Become, tableVars, Is, Stage
  <2>2. Quiet(w)
    BY DEF Quiet, Holds, Blends, NoWork
  <2>3. Settled(t)
    BY <2>1, <2>2 DEF Settled, Quiet, Stays
  <2> QED BY <1>1, <1>5, <2>3, SettledStep
<1>6. ASSUME ~Stopped, NEW t \in Threads, process_frame(t)
      PROVE  TableInv'
  <2>1. CASE UNCHANGED <<table, curve, work>>
    BY <1>1, <1>6, <2>1, TableKept
  <2>2. CASE Settled(t)
    BY <1>1, <1>6, <2>2, SettledStep
  <2>3. CASE AskCurve(t)
    BY <1>1, <1>6, <2>3, AskCurveStep
  <2>4. CASE FillCurve(t)
    BY <1>1, <1>6, <2>4, FillCurveStep
  <2>5. CASE BuildTables(t)
    BY <1>1, <1>6, <2>5, BuildTablesStep
  <2>6. CASE EndPass(t)
    BY <1>1, <1>6, <2>6, EndPassStep
  <2> QED BY <1>1, <1>6, <2>1, <2>2, <2>3, <2>4, <2>5, <2>6, OthersSettled
<1> QED
  BY <1>2, <1>3, <1>4, <1>5, <1>6 DEF FrameNext

(* In every pass of full dual ISO a thread converts samples by tables of   *)
(* the black level of its own frame, which is kept by the mutex of the     *)
(* pass, and unless threads race makes its alias map and blends along a    *)
(* curve of that level, which the code builds without one.                 *)
THEOREM TablesAlwaysOwn == FrameSpec => []OwnTables
<1>1. TableInv => OwnTables
  BY DEF TableInv, MutexInv, OwnTables
<1> QED BY <1>1, TableInit, TableNext, PTL DEF FrameSpec

-----------------------------------------------------------------------------
(* The maps of pixels.                                                     *)

(* The stages at which a thread uses a map of pixels. *)
MapStages == {"load focus", "repair focus", "find bad", "repair bad"}

(* A step of t that has to do neither with maps nor with stripes. *)
Elsewhere(t) ==
  /\ UNCHANGED <<vars, mapVars>>
  /\ Stage(t) \notin MapStages \cup {"in stripes"}
  /\ \E w : w.stage \notin MapStages \cup {"in stripes"} /\ work' = [work EXCEPT ![t] = w]

(* What follows the focus pixels has nothing to do with them. *)
LEMMA AfterFocusElsewhere ==
  ASSUME WorkInv, NEW t \in Threads
  PROVE  AfterFocus(t) \notin MapStages \cup {"in stripes"}
<1>1. work[t].mode \in {"off", "preview", "full"}
  BY DEF WorkInv, Work
<1> QED BY <1>1 DEF AfterFocus, MapStages

(* A step of t to another stage of its frame. *)
LEMMA StageOfOne ==
  ASSUME WorkInv, NEW t \in Threads, NEW s, GoTo(t, s)
  PROVE  /\ Stage(t)' = s
         /\ work'[t].job = work[t].job
         /\ work'[t].fix_bad_pixels = work[t].fix_bad_pixels
         /\ \A u \in Threads \ {t} : work'[u] = work[u]
<1>1. work' = [work EXCEPT ![t] = [work[t] EXCEPT !.stage = s]]
  BY DEF GoTo, Become
<1>2. work'[t] = [work[t] EXCEPT !.stage = s] /\ \A u \in Threads \ {t} : work'[u] = work[u]
  BY <1>1, Others
<1>3. work[t] \in Work
  BY DEF WorkInv
<1> QED BY <1>2, <1>3 DEF Work, Stage

(* The other steps of process_frame are elsewhere. *)
LEMMA OthersElsewhere ==
  ASSUME WorkInv, NEW t \in Threads, process_frame(t)
  PROVE  \/ FindFocusMap(t) \/ LoadFocusMap(t) \/ RepairFocusPixels(t)
         \/ FindBadMap(t) \/ FillBadMap(t) \/ RepairBadPixels(t)
         \/ FixStripes(t) \/ CorrectStripes(t)
         \/ Elsewhere(t)
<1>1. work[t] \in Work
  BY DEF WorkInv
<1>2. ASSUME NEW s, GoTo(t, s), s \notin MapStages \cup {"in stripes"},
             UNCHANGED <<vars, mapVars>>, Stage(t) \notin MapStages \cup {"in stripes"}
      PROVE  Elsewhere(t)
  <2>1. [work[t] EXCEPT !.stage = s].stage = s
    BY <1>1 DEF Work
  <2> QED BY <1>2, <2>1 DEF Elsewhere, GoTo, Become
<1>3. CASE NoPreview(t)
  <2>1. PICK s \in Stages : GoTo(t, s) /\ s \notin MapStages \cup {"in stripes"}
    BY <1>3 DEF NoPreview, MapStages, Stages, GoTo, Become
  <2>2. UNCHANGED <<vars, mapVars>> /\ Stage(t) \notin MapStages \cup {"in stripes"}
    BY <1>3 DEF NoPreview, OnlyWork, Is, MapStages
  <2> QED BY <1>2, <2>1, <2>2
<1>4. CASE NoDualIso(t)
  <2>1. PICK s \in Stages : GoTo(t, s) /\ s \notin MapStages \cup {"in stripes"}
    BY <1>4 DEF NoDualIso, MapStages, Stages, GoTo, Become
  <2>2. UNCHANGED <<vars, mapVars>> /\ Stage(t) \notin MapStages \cup {"in stripes"}
    BY <1>4 DEF NoDualIso, OnlyWork, Is, MapStages
  <2> QED BY <1>2, <2>1, <2>2
<1>5. CASE AskBadPixels(t)
  <2>1. PICK s \in Stages : GoTo(t, s) /\ s \notin MapStages \cup {"in stripes"}
    BY <1>5 DEF AskBadPixels, MapStages, Stages, GoTo, Become
  <2>2. UNCHANGED <<vars, mapVars>> /\ Stage(t) \notin MapStages \cup {"in stripes"}
    BY <1>5 DEF AskBadPixels, OnlyWork, Is, MapStages
  <2> QED BY <1>2, <2>1, <2>2
<1>6. CASE AskCurve(t)
  <2>1. PICK s \in Stages : GoTo(t, s) /\ s \notin MapStages \cup {"in stripes"}
    BY <1>6 DEF AskCurve, WithCurve, MapStages, Stages, GoTo, Become
  <2>2. UNCHANGED <<vars, mapVars>> /\ Stage(t) \notin MapStages \cup {"in stripes"}
    BY <1>6 DEF AskCurve, OnlyWork, Is, MapStages
  <2> QED BY <1>2, <2>1, <2>2
<1>7. CASE FillCurve(t)
  <2>1. PICK s \in Stages : GoTo(t, s) /\ s \notin MapStages \cup {"in stripes"}
    BY <1>7 DEF FillCurve, WithCurve, MapStages, Stages, GoTo, Become
  <2>2. UNCHANGED <<vars, mapVars>> /\ Stage(t) \notin MapStages \cup {"in stripes"}
    BY <1>7 DEF FillCurve, OnlyWork, Is, MapStages
  <2> QED BY <1>2, <2>1, <2>2
<1>8. CASE BuildTables(t)
  <2>1. PICK s \in Stages : GoTo(t, s) /\ s \notin MapStages \cup {"in stripes"}
    BY <1>8 DEF BuildTables, MapStages, Stages, GoTo, Become
  <2>2. UNCHANGED <<vars, mapVars>> /\ Stage(t) \notin MapStages \cup {"in stripes"}
    BY <1>8 DEF BuildTables, OnlyWork, Is, MapStages
  <2> QED BY <1>2, <2>1, <2>2
<1>9. CASE PreviewDualIso(t)
  <2>1. PICK mode : work' = [work EXCEPT ![t] = [work[t] EXCEPT !.stage = "focus", !.mode = mode]]
    BY <1>9, Zenon DEF PreviewDualIso, Become
  <2> DEFINE w == [work[t] EXCEPT !.stage = "focus", !.mode = mode]
  <2>2. UNCHANGED <<vars, mapVars>> /\ Stage(t) \notin MapStages \cup {"in stripes"}
    BY <1>9 DEF PreviewDualIso, OnlyWork, Is, MapStages
  <2>3. w.stage \notin MapStages \cup {"in stripes"}
    BY <1>1 DEF Work, MapStages, NoWork
  <2> QED BY <2>1, <2>2, <2>3 DEF Elsewhere
<1>10. CASE FullDualIso(t)
  <2>1. PICK mode, pass : work' = [work EXCEPT ![t] = [work[t] EXCEPT !.stage = "focus", !.mode = mode, !.pass = pass,
                                  !.fix_bad_pixels = mlvfs.fix_bad_pixels]]
    BY <1>10, Zenon DEF FullDualIso, Become
  <2> DEFINE w == [work[t] EXCEPT !.stage = "focus", !.mode = mode, !.pass = pass,
                                  !.fix_bad_pixels = mlvfs.fix_bad_pixels]
  <2>2. UNCHANGED <<vars, mapVars>> /\ Stage(t) \notin MapStages \cup {"in stripes"}
    BY <1>10 DEF FullDualIso, OnlyWork, Is, MapStages
  <2>3. w.stage \notin MapStages \cup {"in stripes"}
    BY <1>1 DEF Work, MapStages, NoWork
  <2> QED BY <2>1, <2>2, <2>3 DEF Elsewhere
<1>11. CASE AskAggressive(t)
  <2> DEFINE w == [work[t] EXCEPT !.stage = "bad", !.fix_bad_pixels = mlvfs.fix_bad_pixels]
  <2>1. work' = [work EXCEPT ![t] = w]
    BY <1>11 DEF AskAggressive, Become
  <2>2. UNCHANGED <<vars, mapVars>> /\ Stage(t) \notin MapStages \cup {"in stripes"}
    BY <1>11 DEF AskAggressive, OnlyWork, Is, MapStages
  <2>3. w.stage \notin MapStages \cup {"in stripes"}
    BY <1>1 DEF Work, MapStages, NoWork
  <2> QED BY <2>1, <2>2, <2>3 DEF Elsewhere
<1>12. CASE ConvertPreview(t)
  <2> DEFINE w == [work[t] EXCEPT !.stage = "converted", !.bits = 16, !.levels = 16]
  <2>1. work' = [work EXCEPT ![t] = w]
    BY <1>12 DEF ConvertPreview, Become
  <2>2. UNCHANGED <<vars, mapVars>> /\ Stage(t) \notin MapStages \cup {"in stripes"}
    BY <1>12 DEF ConvertPreview, OnlyWork, Is, MapStages
  <2>3. w.stage \notin MapStages \cup {"in stripes"}
    BY <1>1 DEF Work, MapStages, NoWork
  <2> QED BY <2>1, <2>2, <2>3 DEF Elsewhere
<1>13. CASE DualIsoFails(t)
  <2> DEFINE w == [work[t] EXCEPT !.stage = "focus", !.mode = "off", !.pass = 0]
  <2>1. work' = [work EXCEPT ![t] = w]
    BY <1>13 DEF DualIsoFails, Become
  <2>2. UNCHANGED <<vars, mapVars>> /\ Stage(t) \notin MapStages \cup {"in stripes"}
    BY <1>13 DEF DualIsoFails, OnlyWork, Is, MapStages
  <2>3. w.stage \notin MapStages \cup {"in stripes"}
    BY <1>1 DEF Work, MapStages, NoWork
  <2> QED BY <2>1, <2>2, <2>3 DEF Elsewhere
<1>14. CASE HeaderAgain(t)
  <2> DEFINE w == [work[t] EXCEPT !.stage = "stripes", !.header = work[t].levels]
  <2>1. work' = [work EXCEPT ![t] = w]
    BY <1>14 DEF HeaderAgain, Become
  <2>2. UNCHANGED <<vars, mapVars>> /\ Stage(t) \notin MapStages \cup {"in stripes"}
    BY <1>14 DEF HeaderAgain, OnlyWork, Is, MapStages
  <2>3. w.stage \notin MapStages \cup {"in stripes"}
    BY <1>1 DEF Work, MapStages, NoWork
  <2> QED BY <2>1, <2>2, <2>3 DEF Elsewhere
<1>15. CASE NoStripes(t)
  <2> DEFINE w == NoWork
  <2>1. work' = [work EXCEPT ![t] = w]
    BY <1>15 DEF NoStripes, Become
  <2>2. UNCHANGED <<vars, mapVars>> /\ Stage(t) \notin MapStages \cup {"in stripes"}
    BY <1>15 DEF NoStripes, OnlyWork, Is, MapStages
  <2>3. w.stage \notin MapStages \cup {"in stripes"}
    BY <1>1 DEF Work, MapStages, NoWork
  <2> QED BY <2>1, <2>2, <2>3 DEF Elsewhere
<1>18. CASE StartAliasMap(t)
  <2>1. PICK s \in Stages : GoTo(t, s) /\ s \notin MapStages \cup {"in stripes"}
    BY <1>18 DEF StartAliasMap, MapStages, Stages, GoTo, Become
  <2>2. UNCHANGED <<vars, mapVars>> /\ Stage(t) \notin MapStages \cup {"in stripes"}
    BY <1>18 DEF StartAliasMap, OnlyWork, Is, MapStages
  <2> QED BY <1>2, <2>1, <2>2
<1>16. CASE EndPass(t)
  <2>1. PICK w :
          /\ work' = [work EXCEPT ![t] = w]
          /\ w = CASE work[t].pass = 1 -> [work[t] EXCEPT !.stage = "pass", !.pass = 2]
                   [] work[t].pass = 2 -> [work[t] EXCEPT !.stage = "curve", !.pass = 3]
                   [] work[t].pass = 3 -> [work[t] EXCEPT !.stage = "converted",
                                                         !.bits = 16, !.levels = 16]
    BY <1>16, Zenon DEF EndPass, Become
  <2>2. UNCHANGED <<vars, mapVars>> /\ Stage(t) \in {"in pass", "alias map"}
    BY <1>16 DEF EndPass, OnlyWork
  <2>3. work[t].pass \in Passes
    BY <2>2 DEF WorkInv, Consistent, Stage
  <2>4. w.stage \in {"pass", "curve", "converted"}
    <3>1. CASE work[t].pass = 1
      BY <1>1, <2>1, <3>1 DEF Work
    <3>2. CASE work[t].pass = 2
      <4>1. work[t].pass # 1
        BY <3>2
      <4> QED BY <1>1, <2>1, <3>2, <4>1 DEF Work
    <3>3. CASE work[t].pass = 3
      <4>1. work[t].pass # 1 /\ work[t].pass # 2
        BY <3>3
      <4> QED BY <1>1, <2>1, <3>3, <4>1 DEF Work
    <3>4. \A p \in Passes : p = 1 \/ p = 2 \/ p = 3
      BY DEF Passes
    <3> QED BY <2>3, <3>1, <3>2, <3>3, <3>4
  <2>5. w.stage \notin MapStages \cup {"in stripes"} /\ Stage(t) \notin MapStages \cup {"in stripes"}
    BY <2>2, <2>4 DEF MapStages
  <2> QED BY <2>1, <2>2, <2>5 DEF Elsewhere
<1> QED
  BY <1>3, <1>4, <1>5, <1>6, <1>7, <1>8, <1>9, <1>10, <1>11, <1>12, <1>13, <1>14, <1>15,
     <1>16, <1>18 DEF process_frame

(* A thread that begins a frame is not yet near the maps. *)
LEMMA BeginElsewhere ==
  ASSUME NEW t \in Threads, NEW c, NEW f, BeginFrame(t, c, f)
  PROVE  Elsewhere(t)
<1> DEFINE w == [NoWork EXCEPT !.job = [clip |-> c, frame |-> f], !.stage = "dual_iso"]
<1>1. work' = [work EXCEPT ![t] = w] /\ UNCHANGED <<vars, mapVars>> /\ Stage(t) = "idle"
  BY DEF BeginFrame, Become, Is
<1>2. w.stage = "dual_iso"
  BY DEF NoWork
<1> QED BY <1>1, <1>2 DEF Elsewhere, MapStages

-----------------------------------------------------------------------------
(* The list of stripe corrections.                                         *)

(* A thread has a correction to look for exactly while it is at the        *)
(* stripes of its frame, and then for this frame.                          *)
JobInv ==
  \A t \in Threads :
    /\ Stage(t) = "in stripes" <=> pc[t] # "idle"
    /\ pc[t] # "idle" => job[t] = work[t].job

(* Who extends the list has a node, of which he is the only one to write;  *)
(* a correction that is applied has been computed, and for its own clip;   *)
(* and one that has a name but no factors yet is being computed.           *)
Sound ==
  /\ \A t \in Threads :
       pc[t] \in {"link", "name", "init", "compute"} => ptr[t] \in 1..Len(node)
  /\ \A t \in Threads :
       pc[t] \in {"init", "compute"} \/ (pc[t] = "apply" /\ ptr[t] # NULL) =>
         node[ptr[t]].clip = job[t].clip
  /\ \A t \in Threads : pc[t] = "apply" /\ ptr[t] # NULL => node[ptr[t]].from # None
  /\ \A n \in 1..Len(node) :
       node[n].clip # None /\ node[n].from = None =>
         \E u \in Threads : pc[u] \in {"init", "compute"} /\ ptr[u] = n

StripesInv == ~Stopped => Sound

Needed == BOOLEAN \cup {None}

(* A struct stripes_correction, in a list of at most m. *)
Correction(m) ==
  [clip : Clips \cup {None}, next : Garbage..m, needed : Needed, from : Jobs \cup {None}]

(* The fields of a node. *)
LEMMA FieldsOf ==
  ASSUME NEW m, NEW c \in Correction(m)
  PROVE  /\ c.clip \in Clips \cup {None} /\ c.next \in Garbage..m
         /\ c.needed \in Needed /\ c.from \in Jobs \cup {None}
BY DEF Correction

(* Linking a node to the next keeps its clip and where its factors come    *)
(* from.                                                                   *)
LEMMA FieldsLinked ==
  ASSUME NEW m \in Nat, NEW c \in Correction(m), NEW k \in Nat, NEW next \in Garbage..k
  PROVE  /\ [c EXCEPT !.next = next] \in Correction(k)
         /\ [c EXCEPT !.next = next].clip = c.clip
         /\ [c EXCEPT !.next = next].from = c.from
<1>1. /\ c.clip \in Clips \cup {None} /\ c.from \in Jobs \cup {None}
      /\ c.needed \in Needed
  BY FieldsOf
<1>2. /\ [c EXCEPT !.next = next].clip = c.clip
      /\ [c EXCEPT !.next = next].from = c.from
  BY DEF Correction
<1>3. [c EXCEPT !.next = next] \in Correction(k)
  BY <1>1 DEF Correction
<1> QED BY <1>2, <1>3

(* An entry of an array changes. *)
LEMMA EntryChanged ==
  ASSUME NEW S, NEW s \in Seq(S), NEW i \in 1..Len(s), NEW r \in S
  PROVE  /\ [s EXCEPT ![i] = r] \in Seq(S)
         /\ Len([s EXCEPT ![i] = r]) = Len(s)
         /\ [s EXCEPT ![i] = r][i] = r
         /\ \A j \in 1..Len(s) : j # i => [s EXCEPT ![i] = r][j] = s[j]
<1> DEFINE e == [s EXCEPT ![i] = r]
<1>1. Len(s) \in Nat /\ s \in [1..Len(s) -> S]
  BY LenProperties
<1>2. e \in [1..Len(s) -> S]
  BY <1>1
<1>3. e \in Seq(S)
  BY <1>1, <1>2, SeqDef
<1>4. Len(e) = Len(s)
  BY <1>1, <1>2, <1>3, LenProperties
<1> QED BY <1>1, <1>3, <1>4

(* Nobody else has looked something up in the list while one extends it:   *)
(* that is a race.                                                         *)
LEMMA StripesRace ==
  ASSUME JobInv, NEW t \in Threads, NEW u \in Threads, t # u,
         pc[t] \in {"append", "link", "name", "init", "compute"},
         pc[u] \notin {"idle", "get"}
  PROVE  Stopped
<1>1. Stage(t) = "in stripes" /\ Stage(u) = "in stripes"
  BY DEF JobInv
<1>2. StructureOf(t) = "stripes" /\ StructureOf(u) = "stripes"
  BY <1>1 DEF StructureOf, Blends, Stage
<1>3. Extends(t)
  BY <1>1 DEF Extends, Stage
<1> QED BY <1>2, <1>3 DEF Stopped, Racing

(* The same after a step. *)
LEMMA StripesRacePrimed ==
  ASSUME JobInv', NEW t \in Threads, NEW u \in Threads, t # u,
         pc'[t] \in {"append", "link", "name", "init", "compute"},
         pc'[u] \notin {"idle", "get"}
  PROVE  Stopped'
<1>1. Stage(t)' = "in stripes" /\ Stage(u)' = "in stripes"
  BY DEF JobInv
<1>2. StructureOf(t)' = "stripes" /\ StructureOf(u)' = "stripes"
  BY <1>1 DEF StructureOf, Blends, Stage
<1>3. Extends(t)'
  BY <1>1 DEF Extends, Stage
<1> QED BY <1>2, <1>3 DEF Stopped, Racing

(* The nodes and who points to them, in the terms of this module. *)
LEMMA NodesAre ==
  ASSUME TypeOK
  PROVE  /\ node \in Seq(Correction(Len(node)))
         /\ Len(node) \in Nat
         /\ \A n \in 1..Len(node) : node[n] \in Correction(Len(node))
         /\ pc \in [Threads -> {"idle", "get", "append", "link", "name", "init",
                                "compute", "apply"}]
         /\ job \in [Threads -> Jobs \cup {None}]
         /\ ptr \in [Threads -> 0..Len(node)]
<1>1. node \in Seq(Correction(Len(node)))
  BY DEF TypeOK, Correction, Needed
<1>2. Len(node) \in Nat /\ node \in [1..Len(node) -> Correction(Len(node))]
  BY <1>1, LenProperties
<1>3. \A n \in 1..Len(node) : node[n] \in Correction(Len(node))
  BY <1>2
<1>4. /\ pc \in [Threads -> {"idle", "get", "append", "link", "name", "init", "compute", "apply"}]
      /\ job \in [Threads -> Jobs \cup {None}]
      /\ ptr \in [Threads -> 0..Len(node)]
  BY DEF TypeOK
<1> QED BY <1>1, <1>2, <1>3, <1>4

(* Name, NameFails, Initialise and Compute write the node of their thread. *)
LEMMA RewriteStep ==
  ASSUME TypeOK, JobInv, Sound, ~Stopped, NEW t \in Threads,
         pc[t] \in {"name", "init", "compute"},
         NEW r \in Correction(Len(node)),
         NEW l \in {"init", "compute", "apply"}, NEW q \in {ptr[t], NULL},
         node' = [node EXCEPT ![ptr[t]] = r],
         pc' = [pc EXCEPT ![t] = l], ptr' = [ptr EXCEPT ![t] = q],
         UNCHANGED <<head, job, developed, begun, undefined>>,
         \/ l # "apply" /\ q = ptr[t] /\ r.clip = job[t].clip
         \/ l = "apply" /\ q = ptr[t] /\ r.clip = job[t].clip /\ r.from # None
         \/ l = "apply" /\ q = NULL /\ r.clip = None
  PROVE  TypeOK' /\ Sound'
<1> DEFINE p == ptr[t]
<1>1. /\ Len(node) \in Nat /\ node \in Seq(Correction(Len(node)))
      /\ ptr \in [Threads -> 0..Len(node)]
      /\ pc \in [Threads -> {"idle", "get", "append", "link", "name", "init", "compute", "apply"}]
  BY NodesAre
<1>2. p \in 1..Len(node)
  BY DEF Sound
<1>3. /\ node' \in Seq(Correction(Len(node)))
      /\ Len(node') = Len(node)
      /\ node'[p] = r
      /\ \A j \in 1..Len(node) : j # p => node'[j] = node[j]
  BY <1>1, <1>2, EntryChanged
<1>4. /\ pc'[t] = l /\ ptr'[t] = q
      /\ \A u \in Threads \ {t} : pc'[u] = pc[u] /\ ptr'[u] = ptr[u]
  BY <1>1
<1>5. \A u \in Threads \ {t} : pc[u] \in {"idle", "get"}
  BY <1>1, StripesRace
<1>6. q \in 0..Len(node)
  BY <1>1 DEF NULL
<1>7. TypeOK'
  <2>1. /\ head' \in 0..Len(node') /\ developed' \subseteq [job : Jobs, by : Jobs \cup {None}]
        /\ begun' \in Nat /\ job' \in [Threads -> Jobs \cup {None}]
    BY <1>3 DEF TypeOK
  <2>2. node' \in Seq(Correction(Len(node')))
    BY <1>3
  <2>3. ptr' \in [Threads -> 0..Len(node')]
    BY <1>1, <1>3, <1>6
  <2>4. pc' \in [Threads -> {"idle", "get", "append", "link", "name", "init", "compute", "apply"}]
    BY <1>1
  <2>5. undefined' \in BOOLEAN
    BY Zenon DEF TypeOK
  <2> QED BY <2>1, <2>2, <2>3, <2>4, <2>5 DEF TypeOK, Correction, Needed
<1>8. Sound'
  <2>1. ASSUME NEW u \in Threads, pc'[u] \in {"link", "name", "init", "compute"}
        PROVE  ptr'[u] \in 1..Len(node')
    BY <1>2, <1>3, <1>4, <1>5, <2>1
  <2>2. ASSUME NEW u \in Threads,
               pc'[u] \in {"init", "compute"} \/ (pc'[u] = "apply" /\ ptr'[u] # NULL)
        PROVE  node'[ptr'[u]].clip = job'[u].clip
    BY <1>2, <1>3, <1>4, <1>5, <2>2
  <2>3. ASSUME NEW u \in Threads, pc'[u] = "apply" /\ ptr'[u] # NULL
        PROVE  node'[ptr'[u]].from # None
    BY <1>2, <1>3, <1>4, <1>5, <2>3
  <2>4. ASSUME NEW n \in 1..Len(node'), node'[n].clip # None, node'[n].from = None
        PROVE  \E u \in Threads : pc'[u] \in {"init", "compute"} /\ ptr'[u] = n
    <3>1. CASE n = p
      <4>1. l # "apply" /\ q = p
        BY <1>3, <2>4, <3>1
      <4> QED BY <1>4, <3>1, <4>1
    <3>2. CASE n # p
      <4>1. n \in 1..Len(node) /\ node[n].clip # None /\ node[n].from = None
        BY <1>3, <2>4, <3>2
      <4>2. PICK u \in Threads : pc[u] \in {"init", "compute"} /\ ptr[u] = n
        BY <4>1 DEF Sound
      <4> QED BY <1>5, <3>2, <4>2
    <3> QED BY <3>1, <3>2
  <2> QED BY <2>1, <2>2, <2>3, <2>4 DEF Sound
<1> QED BY <1>7, <1>8

(* AppendHead and Link add a node without a name. *)
LEMMA AppendStep ==
  ASSUME TypeOK, JobInv, Sound, ~Stopped, NEW t \in Threads,
         pc[t] \in {"append", "link"},
         NEW s \in Seq(Correction(Len(node) + 1)), Len(s) = Len(node),
         \A n \in 1..Len(node) : s[n].clip = node[n].clip /\ s[n].from = node[n].from,
         node' = Append(s, FreshNode),
         pc' = [pc EXCEPT ![t] = "name"], ptr' = [ptr EXCEPT ![t] = Len(node) + 1],
         head' \in {head, Len(node) + 1},
         UNCHANGED <<job, developed, begun, undefined>>
  PROVE  TypeOK' /\ Sound'
<1> DEFINE m == Len(node) + 1
<1>1. /\ Len(node) \in Nat
      /\ ptr \in [Threads -> 0..Len(node)]
      /\ pc \in [Threads -> {"idle", "get", "append", "link", "name", "init", "compute", "apply"}]
  BY NodesAre
<1>2. m \in Nat /\ FreshNode \in Correction(m)
  BY <1>1 DEF FreshNode, Correction, Needed, Garbage
<1>3. /\ node' \in Seq(Correction(m))
      /\ Len(node') = m
      /\ \A j \in 1..Len(node) : node'[j] = s[j]
      /\ node'[m] = FreshNode
  <2>1. s \in Seq(Correction(m))
    OBVIOUS
  <2> QED BY <1>2, <2>1, AppendProperties
<1>4. /\ pc'[t] = "name" /\ ptr'[t] = m
      /\ \A u \in Threads \ {t} : pc'[u] = pc[u] /\ ptr'[u] = ptr[u]
  BY <1>1
<1>5. \A u \in Threads \ {t} : pc[u] \in {"idle", "get"}
  BY <1>1, StripesRace
<1>6. \A u \in Threads : pc[u] \notin {"init", "compute"}
  BY <1>5
<1>7. TypeOK'
  <2>1. /\ developed' \subseteq [job : Jobs, by : Jobs \cup {None}]
        /\ begun' \in Nat /\ job' \in [Threads -> Jobs \cup {None}]
    BY DEF TypeOK
  <2>2. node' \in Seq(Correction(Len(node')))
    BY <1>3
  <2>3. ptr' \in [Threads -> 0..Len(node')]
    BY <1>1, <1>3
  <2>4. pc' \in [Threads -> {"idle", "get", "append", "link", "name", "init", "compute", "apply"}]
    BY <1>1
  <2>5. undefined' \in BOOLEAN
    BY Zenon DEF TypeOK
  <2>6. head' \in 0..Len(node')
    BY <1>1, <1>3 DEF TypeOK
  <2> QED BY <2>1, <2>2, <2>3, <2>4, <2>5, <2>6 DEF TypeOK, Correction, Needed
<1>8. Sound'
  <2>1. ASSUME NEW u \in Threads, pc'[u] \in {"link", "name", "init", "compute"}
        PROVE  ptr'[u] \in 1..Len(node')
    <3>1. u = t
      BY <1>4, <1>5, <2>1
    <3> QED BY <1>1, <1>3, <1>4, <3>1
  <2>2. \A u \in Threads : pc'[u] \notin {"init", "compute", "apply"}
    BY <1>4, <1>5
  <2>3. ASSUME NEW n \in 1..Len(node')
        PROVE  node'[n].clip = None \/ node'[n].from # None
    <3>1. CASE n = m
      BY <1>3, <3>1 DEF FreshNode
    <3>2. CASE n # m
      <4>1. n \in 1..Len(node)
        BY <1>1, <1>3, <2>3, <3>2
      <4>2. node'[n].clip = node[n].clip /\ node'[n].from = node[n].from
        BY <1>3, <4>1
      <4> QED BY <1>6, <4>1, <4>2 DEF Sound
    <3> QED BY <3>1, <3>2
  <2> QED BY <2>1, <2>2, <2>3 DEF Sound
<1> QED BY <1>7, <1>8

(* A step of t within stripes.c that leaves the nodes as they are. *)
LEMMA NodesKept ==
  ASSUME TypeOK, Sound, NEW t \in Threads,
         NEW l \in {"get", "append", "link", "idle"}, NEW q \in 0..Len(node),
         l = "link" => q \in 1..Len(node),
         pc[t] \notin {"init", "compute"},
         pc' = [pc EXCEPT ![t] = l], ptr' = [ptr EXCEPT ![t] = q],
         \A u \in Threads \ {t} : job'[u] = job[u],
         job' \in [Threads -> Jobs \cup {None}],
         developed' \subseteq [job : Jobs, by : Jobs \cup {None}],
         begun' \in Nat,
         UNCHANGED <<head, node, undefined>>
  PROVE  TypeOK' /\ Sound'
<1>1. /\ Len(node) \in Nat
      /\ ptr \in [Threads -> 0..Len(node)]
      /\ pc \in [Threads -> {"idle", "get", "append", "link", "name", "init", "compute", "apply"}]
  BY NodesAre
<1>2. /\ pc'[t] = l /\ ptr'[t] = q
      /\ \A u \in Threads \ {t} : pc'[u] = pc[u] /\ ptr'[u] = ptr[u]
  BY <1>1
<1>3. TypeOK'
  <2>1. ptr' \in [Threads -> 0..Len(node')]
    BY <1>1
  <2>2. pc' \in [Threads -> {"idle", "get", "append", "link", "name", "init", "compute", "apply"}]
    BY <1>1
  <2>3. undefined' \in BOOLEAN
    BY Zenon DEF TypeOK
  <2>4. head' \in 0..Len(node') /\ node' \in Seq(Correction(Len(node')))
    BY DEF TypeOK, Correction, Needed
  <2> QED BY <2>1, <2>2, <2>3, <2>4 DEF TypeOK, Correction, Needed
<1>4. Sound'
  <2>1. \A u \in Threads : pc'[u] \in {"link", "name", "init", "compute"} => ptr'[u] \in 1..Len(node')
    BY <1>2 DEF Sound
  <2>2. \A u \in Threads :
          pc'[u] \in {"init", "compute"} \/ (pc'[u] = "apply" /\ ptr'[u] # NULL) =>
            node'[ptr'[u]].clip = job'[u].clip
    BY <1>2 DEF Sound
  <2>3. \A u \in Threads : pc'[u] = "apply" /\ ptr'[u] # NULL => node'[ptr'[u]].from # None
    BY <1>2 DEF Sound
  <2>4. ASSUME NEW n \in 1..Len(node'), node'[n].clip # None, node'[n].from = None
        PROVE  \E u \in Threads : pc'[u] \in {"init", "compute"} /\ ptr'[u] = n
    <3>1. PICK u \in Threads : pc[u] \in {"init", "compute"} /\ ptr[u] = n
      BY <2>4 DEF Sound
    <3> QED BY <1>2, <3>1
  <2> QED BY <2>1, <2>2, <2>3, <2>4 DEF Sound
<1> QED BY <1>3, <1>4

(* Who finds a correction finds its own clip's, since the names are        *)
(* compared; if its factors are still being computed, the two race.        *)
LEMMA GetFoundStep ==
  ASSUME TypeOK, JobInv', Sound, NEW t \in Threads, GetFound(t), job[t] \in Jobs
  PROVE  TypeOK' /\ StripesInv'
<1>1. /\ Len(node) \in Nat
      /\ ptr \in [Threads -> 0..Len(node)]
      /\ pc \in [Threads -> {"idle", "get", "append", "link", "name", "init", "compute", "apply"}]
      /\ node \in Seq(Correction(Len(node)))
  BY NodesAre
<1>2. /\ pc' = [pc EXCEPT ![t] = "apply"] /\ pc[t] = "get"
      /\ UNCHANGED <<head, node, job, developed, begun, undefined>>
  BY DEF GetFound, At, Goto
<1>3. PICK n \in 1..Len(node) :
        StopsAt(job[t].clip, n) /\ ~IsGarbage(n) /\ ptr' = [ptr EXCEPT ![t] = n]
  BY DEF GetFound
<1>4. node[n].clip = job[t].clip
  <2>1. n > NULL
    BY <1>1 DEF NULL
  <2>2. node[n].clip \in {job[t].clip, None}
    BY <1>3, <2>1 DEF StopsAt
  <2>3. node[n].clip # None
    BY <1>3, <2>1 DEF IsGarbage
  <2> QED BY <2>2, <2>3
<1>5. /\ pc'[t] = "apply" /\ ptr'[t] = n
      /\ \A u \in Threads \ {t} : pc'[u] = pc[u] /\ ptr'[u] = ptr[u]
  BY <1>1, <1>2, <1>3
<1>6. TypeOK'
  <2>1. ptr' \in [Threads -> 0..Len(node')]
    BY <1>1, <1>2, <1>3
  <2>2. pc' \in [Threads -> {"idle", "get", "append", "link", "name", "init", "compute", "apply"}]
    BY <1>1, <1>2
  <2> QED BY <1>2, <2>1, <2>2 DEF TypeOK
<1>7. node[n].clip # None
  BY <1>4, ConstantsAssumption DEF Jobs
<1>8. ASSUME node[n].from = None PROVE Stopped'
  <2>1. PICK u \in Threads : pc[u] \in {"init", "compute"} /\ ptr[u] = n
    BY <1>3, <1>7, <1>8 DEF Sound
  <2>2. u # t
    BY <1>2, <2>1
  <2> QED BY <1>5, <2>1, <2>2, StripesRacePrimed
<1>9. ASSUME node[n].from # None PROVE Sound'
  <2>1. \A u \in Threads : pc'[u] \in {"link", "name", "init", "compute"} => ptr'[u] \in 1..Len(node')
    BY <1>2, <1>5 DEF Sound
  <2>2. \A u \in Threads :
          pc'[u] \in {"init", "compute"} \/ (pc'[u] = "apply" /\ ptr'[u] # NULL) =>
            node'[ptr'[u]].clip = job'[u].clip
    BY <1>2, <1>4, <1>5 DEF Sound
  <2>3. \A u \in Threads : pc'[u] = "apply" /\ ptr'[u] # NULL => node'[ptr'[u]].from # None
    BY <1>2, <1>5, <1>9 DEF Sound
  <2>4. ASSUME NEW i \in 1..Len(node'), node'[i].clip # None, node'[i].from = None
        PROVE  \E u \in Threads : pc'[u] \in {"init", "compute"} /\ ptr'[u] = i
    <3>1. PICK u \in Threads : pc[u] \in {"init", "compute"} /\ ptr[u] = i
      BY <1>2, <2>4 DEF Sound
    <3> QED BY <1>2, <1>5, <3>1
  <2> QED BY <2>1, <2>2, <2>3, <2>4 DEF Sound
<1> QED BY <1>6, <1>8, <1>9 DEF StripesInv

(* What a step within stripes.c does to a thread and to the others. *)
LEMMA DevelopOne ==
  ASSUME TypeOK, NEW t \in Threads, Develop(t)
  PROVE  /\ pc[t] # "idle"
         /\ pc'[t] # "idle" => job'[t] = job[t]
         /\ \A u \in Threads \ {t} : pc'[u] = pc[u] /\ job'[u] = job[u]
<1>1. /\ pc \in [Threads -> {"idle", "get", "append", "link", "name", "init", "compute", "apply"}]
      /\ job \in [Threads -> Jobs \cup {None}]
  BY NodesAre
<1>2. CASE GetFound(t) \/ GetMissing(t) \/ WalkGarbage(t)
  BY <1>1, <1>2 DEF GetFound, GetMissing, WalkGarbage, At, Goto
<1>3. CASE AppendHead(t) \/ FindTail(t) \/ Link(t)
  BY <1>1, <1>3 DEF AppendHead, FindTail, Link, At, Goto
<1>4. CASE Name(t) \/ NameFails(t) \/ Initialise(t)
  BY <1>1, <1>4 DEF Name, NameFails, Initialise, At, Goto
<1>5. CASE Compute(t)
  BY <1>1, <1>5 DEF Compute, At, Goto
<1>6. CASE Apply(t)
  BY <1>1, <1>6 DEF Apply, At, Goto
<1> QED BY <1>2, <1>3, <1>4, <1>5, <1>6 DEF Develop

(* Every step within stripes.c keeps the list sound, unless threads race. *)
LEMMA DevelopStep ==
  ASSUME TypeOK, JobInv, JobInv', Sound, ~Stopped,
         NEW t \in Threads, Develop(t), job[t] \in Jobs
  PROVE  TypeOK' /\ StripesInv'
<1>1. /\ Len(node) \in Nat
      /\ ptr \in [Threads -> 0..Len(node)]
      /\ pc \in [Threads -> {"idle", "get", "append", "link", "name", "init", "compute", "apply"}]
      /\ job \in [Threads -> Jobs \cup {None}]
      /\ node \in Seq(Correction(Len(node)))
      /\ \A n \in 1..Len(node) : node[n] \in Correction(Len(node))
  BY NodesAre
<1>2. developed \subseteq [job : Jobs, by : Jobs \cup {None}] /\ begun \in Nat
  BY DEF TypeOK
<1>3. CASE GetFound(t)
  BY <1>3, GetFoundStep
<1>4. CASE GetMissing(t)
  <2>1. ptr' = [ptr EXCEPT ![t] = ptr[t]] /\ ptr[t] \in 0..Len(node)
    BY <1>1, <1>4 DEF GetMissing
  <2> QED BY <1>1, <1>2, <1>4, <2>1, NodesKept DEF GetMissing, At, Goto, StripesInv
<1>5. CASE WalkGarbage(t)
  <2>1. UNCHANGED <<head, node, pc, job, ptr, developed, begun>> /\ undefined' = TRUE
    BY <1>5 DEF WalkGarbage
  <2>2. Stopped'
    BY <2>1 DEF Stopped
  <2>3. TypeOK'
    BY <2>1 DEF TypeOK
  <2> QED BY <2>2, <2>3 DEF StripesInv
<1>6. CASE AppendHead(t)
  <2>1. node \in Seq(Correction(Len(node) + 1))
    <3>1. \A c \in Correction(Len(node)) : c \in Correction(Len(node) + 1)
      BY <1>1 DEF Correction, Garbage
    <3>2. node \in [1..Len(node) -> Correction(Len(node))]
      BY <1>1, LenProperties
    <3>3. node \in [1..Len(node) -> Correction(Len(node) + 1)]
      BY <3>1, <3>2
    <3> QED BY <1>1, <3>3, SeqDef
  <2>2. head' \in {head, Len(node) + 1}
    BY <1>6 DEF AppendHead
  <2> QED BY <1>1, <1>6, <2>1, <2>2, AppendStep DEF AppendHead, At, Goto, StripesInv
<1>7. CASE FindTail(t)
  <2>1. PICK n \in 1..Len(node) : ptr' = [ptr EXCEPT ![t] = n]
    BY <1>7 DEF FindTail, Reachable
  <2>2. n \in 0..Len(node)
    BY <1>1, <2>1
  <2> QED BY <1>1, <1>2, <1>7, <2>1, <2>2, NodesKept DEF FindTail, At, Goto, StripesInv
<1>8. CASE Link(t)
  <2> DEFINE s == [node EXCEPT ![ptr[t]].next = Len(node) + 1]
  <2>1. ptr[t] \in 1..Len(node) /\ pc[t] = "link"
    BY <1>8 DEF Link, At, Sound
  <2>2. node[ptr[t]] \in Correction(Len(node))
    BY <1>1, <2>1
  <2>3. [node[ptr[t]] EXCEPT !.next = Len(node) + 1] \in Correction(Len(node) + 1)
    <3>1. Len(node) + 1 \in Garbage..Len(node) + 1
      BY <1>1 DEF Garbage
    <3>3. Len(node) + 1 \in Nat
      BY <1>1
    <3> QED BY <1>1, <2>2, <3>1, <3>3, FieldsLinked
  <2>4. s = [node EXCEPT ![ptr[t]] = [node[ptr[t]] EXCEPT !.next = Len(node) + 1]]
    BY <1>1, <2>1
  <2>5. node \in [1..Len(node) -> Correction(Len(node) + 1)]
    <3>1. \A c \in Correction(Len(node)) : c \in Correction(Len(node) + 1)
      BY <1>1 DEF Correction, Garbage
    <3>2. node \in [1..Len(node) -> Correction(Len(node))]
      BY <1>1, LenProperties
    <3> QED BY <3>1, <3>2
  <2>6. node \in Seq(Correction(Len(node) + 1))
    BY <1>1, <2>5, SeqDef
  <2>7. /\ s \in Seq(Correction(Len(node) + 1)) /\ Len(s) = Len(node)
        /\ s[ptr[t]] = [node[ptr[t]] EXCEPT !.next = Len(node) + 1]
        /\ \A j \in 1..Len(node) : j # ptr[t] => s[j] = node[j]
    <3>1. Len(node) + 1 \in Nat
      BY <1>1
    <3> QED BY <2>1, <2>3, <2>4, <2>6, <3>1, EntryChanged
  <2>8. \A n \in 1..Len(node) : s[n].clip = node[n].clip /\ s[n].from = node[n].from
    BY <2>2, <2>7 DEF Correction
  <2>9. /\ node' = Append(s, FreshNode)
        /\ ptr' = [ptr EXCEPT ![t] = Len(node) + 1] /\ pc' = [pc EXCEPT ![t] = "name"]
        /\ UNCHANGED <<head, job, developed, begun, undefined>>
    BY <1>8 DEF Link, Goto
  <2> HIDE DEF s
  <2> QED BY <2>1, <2>7, <2>8, <2>9, AppendStep DEF StripesInv
<1>9. CASE Name(t)
  <2>1. ptr[t] \in 1..Len(node) /\ pc[t] = "name"
    BY <1>9 DEF Name, At, Sound
  <2>2. node[ptr[t]] \in Correction(Len(node))
    BY <1>1, <2>1
  <2> DEFINE r == [node[ptr[t]] EXCEPT !.clip = job[t].clip]
  <2>3. r \in Correction(Len(node)) /\ r.clip = job[t].clip
    BY <2>2 DEF Correction, Jobs
  <2>4. node' = [node EXCEPT ![ptr[t]] = r]
    BY <1>1, <1>9, <2>1 DEF Name
  <2>5. ptr' = [ptr EXCEPT ![t] = ptr[t]] /\ pc' = [pc EXCEPT ![t] = "init"]
        /\ UNCHANGED <<head, job, developed, begun, undefined>>
    BY <1>1, <1>9 DEF Name, Goto
  <2> HIDE DEF r
  <2> QED BY <2>1, <2>3, <2>4, <2>5, RewriteStep DEF StripesInv
<1>10. CASE NameFails(t)
  <2>1. ptr[t] \in 1..Len(node) /\ pc[t] = "name"
    BY <1>10 DEF NameFails, At, Sound
  <2>2. node[ptr[t]] \in Correction(Len(node))
    BY <1>1, <2>1
  <2>3. FreshNode \in Correction(Len(node)) /\ FreshNode.clip = None
    BY <1>1 DEF FreshNode, Correction, Needed, Garbage
  <2>4. node' = [node EXCEPT ![ptr[t]] = FreshNode]
    BY <1>10 DEF NameFails
  <2>5. ptr' = [ptr EXCEPT ![t] = NULL] /\ pc' = [pc EXCEPT ![t] = "apply"]
        /\ UNCHANGED <<head, job, developed, begun, undefined>>
    BY <1>10 DEF NameFails, Goto
  <2> QED BY <2>1, <2>3, <2>4, <2>5, RewriteStep DEF StripesInv
<1>11. CASE Initialise(t)
  <2>1. ptr[t] \in 1..Len(node) /\ pc[t] = "init"
    BY <1>11 DEF Initialise, At, Sound
  <2>2. node[ptr[t]] \in Correction(Len(node))
    BY <1>1, <2>1
  <2>a. PICK needed \in Needed :
          node' = [node EXCEPT ![ptr[t]].needed = needed, ![ptr[t]].next = NULL]
    BY <1>11, Zenon DEF Initialise, Needed
  <2> DEFINE r == [node[ptr[t]] EXCEPT !.needed = needed, !.next = NULL]
  <2>3. r \in Correction(Len(node)) /\ r.clip = job[t].clip
    <3>1. r \in Correction(Len(node)) /\ r.clip = node[ptr[t]].clip
      <4>2. NULL \in Garbage..Len(node)
        BY <1>1 DEF NULL, Garbage
      <4>4. r \in Correction(Len(node))
        BY <2>2, <4>2 DEF Correction
      <4>5. r.clip = node[ptr[t]].clip
        BY <2>2 DEF Correction
      <4> QED BY <4>4, <4>5
    <3> QED BY <2>1, <3>1 DEF Sound
  <2>4. node' = [node EXCEPT ![ptr[t]] = r]
    BY <1>1, <2>a, <2>1, <2>2 DEF Correction
  <2>5. ptr' = [ptr EXCEPT ![t] = ptr[t]] /\ pc' = [pc EXCEPT ![t] = "compute"]
        /\ UNCHANGED <<head, job, developed, begun, undefined>>
    BY <1>1, <1>11 DEF Initialise, Goto
  <2> HIDE DEF r
  <2> QED BY <2>1, <2>3, <2>4, <2>5, RewriteStep DEF StripesInv
<1>12. CASE Compute(t)
  <2>1. ptr[t] \in 1..Len(node) /\ pc[t] = "compute"
    BY <1>12 DEF Compute, At, Sound
  <2>2. node[ptr[t]] \in Correction(Len(node))
    BY <1>1, <2>1
  <2>a. PICK needed \in Needed :
          node' = [node EXCEPT ![ptr[t]].needed = needed, ![ptr[t]].from = job[t]]
    BY <1>12, Zenon DEF Compute, Needed
  <2> DEFINE r == [node[ptr[t]] EXCEPT !.needed = needed, !.from = job[t]]
  <2>3. r \in Correction(Len(node)) /\ r.clip = job[t].clip /\ r.from # None
    <3>1. r \in Correction(Len(node)) /\ r.clip = node[ptr[t]].clip /\ r.from = job[t]
      BY <1>1, <2>2 DEF Correction
    <3> QED BY <2>1, <3>1, ConstantsAssumption DEF Sound
  <2>4. node' = [node EXCEPT ![ptr[t]] = r]
    BY <1>1, <2>a, <2>1, <2>2 DEF Correction
  <2>5. ptr' = [ptr EXCEPT ![t] = ptr[t]] /\ pc' = [pc EXCEPT ![t] = "apply"]
        /\ UNCHANGED <<head, job, developed, begun, undefined>>
    BY <1>1, <1>12 DEF Compute, Goto
  <2> HIDE DEF r
  <2> QED BY <2>1, <2>3, <2>4, <2>5, RewriteStep DEF StripesInv
<1>13. CASE Apply(t)
  <2>1. PICK by \in Jobs \cup {None} :
          developed' = developed \cup {[job |-> job[t], by |-> by]}
    BY <1>13 DEF Apply
  <2>2. developed' \subseteq [job : Jobs, by : Jobs \cup {None}]
    BY <1>2, <2>1
  <2>3. job' \in [Threads -> Jobs \cup {None}] /\ \A u \in Threads \ {t} : job'[u] = job[u]
    BY <1>1, <1>13 DEF Apply
  <2>4. /\ pc[t] = "apply" /\ pc' = [pc EXCEPT ![t] = "idle"] /\ ptr' = [ptr EXCEPT ![t] = NULL]
        /\ UNCHANGED <<head, node, begun, undefined>>
    BY <1>13 DEF Apply, At, Goto
  <2>5. NULL \in 0..Len(node)
    BY <1>1 DEF NULL
  <2> QED BY <1>2, <2>2, <2>3, <2>4, <2>5, NodesKept DEF StripesInv
<1> QED
  BY <1>3, <1>4, <1>5, <1>6, <1>7, <1>8, <1>9, <1>10, <1>11, <1>12, <1>13 DEF Develop

(* A frame reaches the stripes. *)
LEMMA BeginStep ==
  ASSUME TypeOK, Sound, NEW t \in Threads, NEW c \in Clips, NEW f \in Frames, Begin(t, c, f)
  PROVE  /\ TypeOK' /\ Sound'
         /\ pc[t] = "idle" /\ pc'[t] = "get" /\ job'[t] = [clip |-> c, frame |-> f]
         /\ \A u \in Threads \ {t} : pc'[u] = pc[u] /\ job'[u] = job[u]
<1>1. /\ Len(node) \in Nat
      /\ ptr \in [Threads -> 0..Len(node)]
      /\ pc \in [Threads -> {"idle", "get", "append", "link", "name", "init", "compute", "apply"}]
      /\ job \in [Threads -> Jobs \cup {None}]
  BY NodesAre
<1>2. /\ pc[t] = "idle" /\ pc' = [pc EXCEPT ![t] = "get"]
      /\ job' = [job EXCEPT ![t] = [clip |-> c, frame |-> f]]
      /\ UNCHANGED <<head, node, ptr, developed, undefined>>
  BY DEF Begin, At, Goto
<1>3. [clip |-> c, frame |-> f] \in Jobs
  BY DEF Jobs
<1>4. job' \in [Threads -> Jobs \cup {None}] /\ \A u \in Threads \ {t} : job'[u] = job[u]
  BY <1>1, <1>2, <1>3
<1>5. begun' \in Nat
  BY DEF Begin, TypeOK
<1>6. ptr' = [ptr EXCEPT ![t] = ptr[t]] /\ ptr[t] \in 0..Len(node)
  BY <1>1, <1>2
<1>7. developed' \subseteq [job : Jobs, by : Jobs \cup {None}]
  BY <1>2 DEF TypeOK
<1>8. TypeOK' /\ Sound'
  BY <1>2, <1>4, <1>5, <1>6, <1>7, NodesKept
<1> QED BY <1>1, <1>2, <1>4, <1>8

-----------------------------------------------------------------------------
(* The maps of focus pixels.                                               *)

(* The pixels of an entry have been found in its file. *)
Filled(entry) == entry.found = TRUE

(* Who reads the file has an entry for his camera, and who repairs a frame *)
(* one for which the file has been found.                                  *)
FocusOwn(t) ==
  /\ Stage(t) \in {"load focus", "repair focus"} =>
       /\ map[t] \in 1..Len(focus_pixel_maps)
       /\ focus_pixel_maps[map[t]].camera = CameraFor(t)
  /\ Stage(t) = "repair focus" => Filled(focus_pixel_maps[map[t]])

FocusInv == ~Stopped => \A t \in Threads : FocusOwn(t)

(* A thread that reads a file and another one with an entry race. *)
LEMMA FocusRace ==
  ASSUME NEW t \in Threads, NEW u \in Threads, t # u,
         Stage(t) = "load focus", Stage(u) \in {"load focus", "repair focus"}
  PROVE  Stopped
<1>1. StructureOf(t) = "focus maps" /\ StructureOf(u) = "focus maps"
  BY DEF StructureOf, Blends, Stage
<1>2. Extends(t)
  BY DEF Extends, Stage
<1> QED BY <1>1, <1>2 DEF Stopped, Racing

(* What does not concern the entry of a thread. *)
LEMMA FocusKept ==
  ASSUME NEW t \in Threads, FocusOwn(t), work'[t] = work[t], map'[t] = map[t],
         Len(focus_pixel_maps) \in Nat, Len(focus_pixel_maps') \in Nat,
         Len(focus_pixel_maps) <= Len(focus_pixel_maps'),
         \A i \in 1..Len(focus_pixel_maps) : focus_pixel_maps'[i] = focus_pixel_maps[i]
  PROVE  FocusOwn(t)'
<1>1. map[t] \in 1..Len(focus_pixel_maps) =>
        /\ map'[t] \in 1..Len(focus_pixel_maps')
        /\ focus_pixel_maps'[map'[t]] = focus_pixel_maps[map[t]]
  OBVIOUS
<1> QED BY <1>1 DEF FocusOwn, Stage, CameraFor

(* The array and the slots, in the terms of this module. *)
LEMMA MapsAre ==
  ASSUME MapsTypeOK(Jobs)
  PROVE  /\ focus_pixel_maps \in Seq(FocusPixelMap)
         /\ Len(focus_pixel_maps) \in Nat
         /\ DOMAIN focus_pixel_maps = 1..Len(focus_pixel_maps)
         /\ \A i \in 1..Len(focus_pixel_maps) : focus_pixel_maps[i] \in FocusPixelMap
         /\ map \in [Threads -> Slots \cup (1..Len(focus_pixel_maps)) \cup {None}]
<1>1. focus_pixel_maps \in Seq(FocusPixelMap)
  BY DEF MapsTypeOK
<1>2. /\ Len(focus_pixel_maps) \in Nat
      /\ DOMAIN focus_pixel_maps = 1..Len(focus_pixel_maps)
      /\ focus_pixel_maps \in [1..Len(focus_pixel_maps) -> FocusPixelMap]
  BY <1>1, LenProperties
<1>3. \A i \in 1..Len(focus_pixel_maps) : focus_pixel_maps[i] \in FocusPixelMap
  BY <1>2
<1>4. map \in [Threads -> Slots \cup (1..Len(focus_pixel_maps)) \cup {None}]
  BY <1>2 DEF MapsTypeOK
<1> QED BY <1>1, <1>2, <1>3, <1>4

(* A step of t that points it to an entry, or away from all, while the     *)
(* array stays or grows.                                                   *)
LEMMA FocusStep ==
  ASSUME MapsTypeOK(Jobs), NEW t \in Threads, NEW q \in Slots \cup Nat \cup {None},
         map' = [map EXCEPT ![t] = q],
         focus_pixel_maps' \in Seq(FocusPixelMap),
         Len(focus_pixel_maps) <= Len(focus_pixel_maps'),
         q \in Slots \cup (1..Len(focus_pixel_maps')) \cup {None},
         UNCHANGED <<bad_pixel_maps, current_bad_pixel_map>>
  PROVE  /\ MapsTypeOK(Jobs)'
         /\ map'[t] = q
         /\ \A u \in Threads \ {t} : map'[u] = map[u]
<1>1. /\ Len(focus_pixel_maps) \in Nat
      /\ map \in [Threads -> Slots \cup (1..Len(focus_pixel_maps)) \cup {None}]
  BY MapsAre
<1>2. Len(focus_pixel_maps') \in Nat /\ DOMAIN focus_pixel_maps' = 1..Len(focus_pixel_maps')
  BY LenProperties
<1>3. \A i \in 1..Len(focus_pixel_maps) : i \in 1..Len(focus_pixel_maps')
  BY <1>1, <1>2
<1>4. map' \in [Threads -> Slots \cup (1..Len(focus_pixel_maps')) \cup {None}]
  BY <1>1, <1>3
<1>5. bad_pixel_maps' \in [Slots -> BadPixelMap(Jobs)] /\ current_bad_pixel_map' \in Slots
  BY DEF MapsTypeOK
<1> QED BY <1>1, <1>2, <1>4, <1>5 DEF MapsTypeOK

(* A frame in progress has a camera and a recording. *)
LEMMA JobOf ==
  ASSUME WorkInv, NEW t \in Threads, Stage(t) # "idle"
  PROVE  /\ work[t].job \in Jobs
         /\ CameraFor(t) \in Cameras
         /\ GuidFor(t) \in Guids
<1>1. work[t].job \in Jobs
  BY DEF WorkInv, Consistent, Stage
<1> QED BY <1>1, ProcessFrameAssumption DEF CameraFor, GuidFor, Jobs

(* get_focus_pixel_map finds the entry of this camera.                     *)
LEMMA FindFocusStep ==
  ASSUME WorkInv, MapsTypeOK(Jobs), \A u \in Threads : FocusOwn(u),
         NEW t \in Threads, FindFocusMap(t)
  PROVE  MapsTypeOK(Jobs)' /\ \A u \in Threads : FocusOwn(u)'
<1> DEFINE n == Len(focus_pixel_maps)
<1>1. /\ focus_pixel_maps \in Seq(FocusPixelMap)
      /\ n \in Nat
      /\ DOMAIN focus_pixel_maps = 1..n
  BY MapsAre
<1>2. Stage(t) = "focus" /\ CameraFor(t) \in Cameras
  BY JobOf DEF FindFocusMap, Is
<1>3. CASE FocusPixelsFound(t, CameraFor(t)) /\ RepairOrSkip(t)
  <2>1. PICK entry \in 1..n :
          /\ focus_pixel_maps[entry].camera = CameraFor(t)
          /\ PointTo(t, IF focus_pixel_maps[entry].found = TRUE THEN entry ELSE None)
    BY <1>1, <1>3 DEF FocusPixelsFound
  <2>2. PICK q : /\ q = IF focus_pixel_maps[entry].found = TRUE THEN entry ELSE None
                 /\ map' = [map EXCEPT ![t] = q]
    BY <2>1, Zenon DEF PointTo
  <2>3. q \in Slots \cup (1..n) \cup {None} /\ q \in Slots \cup Nat \cup {None}
    BY <1>1, <2>1, <2>2
  <2>a. UNCHANGED <<bad_pixel_maps, current_bad_pixel_map, focus_pixel_maps>>
    BY <1>3 DEF FocusPixelsFound
  <2>4. /\ UNCHANGED <<bad_pixel_maps, current_bad_pixel_map, focus_pixel_maps>>
        /\ focus_pixel_maps' \in Seq(FocusPixelMap) /\ n <= Len(focus_pixel_maps')
        /\ q \in Slots \cup (1..Len(focus_pixel_maps')) \cup {None}
    BY <1>1, <2>3, <2>a
  <2>5. /\ MapsTypeOK(Jobs)'
        /\ map'[t] = q
        /\ \A u \in Threads \ {t} : map'[u] = map[u]
    BY <1>1, <2>2, <2>3, <2>4, FocusStep
  <2>6. PICK s : s = (IF q = None THEN AfterFocus(t) ELSE "repair focus") /\ GoTo(t, s)
    BY <1>3, <2>5, Zenon DEF RepairOrSkip
  <2>7. /\ Stage(t)' = s /\ CameraFor(t)' = CameraFor(t)
        /\ \A u \in Threads \ {t} : work'[u] = work[u]
    BY <2>6, StageOfOne DEF CameraFor
  <2>8. FocusOwn(t)'
    <3>1. CASE q = None
      <4>1. s \notin {"load focus", "repair focus"}
        BY <2>6, <3>1, AfterFocusElsewhere DEF MapStages
      <4> QED BY <2>7, <4>1 DEF FocusOwn
    <3>2. CASE q # None
      <4>1. q = entry /\ Filled(focus_pixel_maps[entry])
        BY <2>2, <3>2, Zenon DEF Filled
      <4>2. s = "repair focus"
        BY <2>6, <3>2
      <4> QED BY <2>1, <2>4, <2>5, <2>7, <4>1, <4>2 DEF FocusOwn
    <3> QED BY <3>1, <3>2
  <2>9. ASSUME NEW u \in Threads, u # t PROVE FocusOwn(u)'
    BY <1>1, <2>4, <2>5, <2>7, <2>9, FocusKept
  <2> QED BY <2>5, <2>8, <2>9
<1>4. CASE AddFocusPixelMap(t, CameraFor(t)) /\ GoTo(t, "load focus")
  <2> DEFINE added == [camera |-> CameraFor(t), found |-> None]
  <2>1. /\ focus_pixel_maps' = Append(focus_pixel_maps, added)
        /\ map' = [map EXCEPT ![t] = n + 1]
        /\ UNCHANGED <<bad_pixel_maps, current_bad_pixel_map>>
    BY <1>4 DEF AddFocusPixelMap, PointTo
  <2>2. added \in FocusPixelMap /\ added.camera = CameraFor(t)
    <3>1. PICK found \in BOOLEAN \cup {None} : found = None
      BY Zenon
    <3>2. added = [camera |-> CameraFor(t), found |-> found]
      BY <3>1
    <3> QED BY <1>2, <3>1, Zenon DEF FocusPixelMap
  <2> HIDE DEF added
  <2>3. /\ focus_pixel_maps' \in Seq(FocusPixelMap)
        /\ Len(focus_pixel_maps') = n + 1
        /\ \A i \in 1..n : focus_pixel_maps'[i] = focus_pixel_maps[i]
        /\ focus_pixel_maps'[n + 1] = added
    BY <1>1, <2>1, <2>2, AppendProperties
  <2>4. n + 1 \in Slots \cup (1..Len(focus_pixel_maps')) \cup {None}
        /\ n + 1 \in Slots \cup Nat \cup {None} /\ n <= Len(focus_pixel_maps')
    BY <1>1, <2>3
  <2>5. /\ MapsTypeOK(Jobs)'
        /\ map'[t] = n + 1
        /\ \A u \in Threads \ {t} : map'[u] = map[u]
    BY <2>1, <2>3, <2>4, FocusStep
  <2>6. /\ Stage(t)' = "load focus" /\ CameraFor(t)' = CameraFor(t)
        /\ \A u \in Threads \ {t} : work'[u] = work[u]
    BY <1>4, StageOfOne DEF CameraFor
  <2>7. FocusOwn(t)'
    <3>1. n + 1 \in 1..Len(focus_pixel_maps') /\ focus_pixel_maps'[map'[t]] = added
      BY <1>1, <2>3, <2>5
    <3> QED BY <2>2, <2>5, <2>6, <3>1 DEF FocusOwn
  <2>8. ASSUME NEW u \in Threads, u # t PROVE FocusOwn(u)'
    <3>1. /\ Len(focus_pixel_maps') \in Nat
          /\ n <= Len(focus_pixel_maps')
          /\ \A i \in 1..n : focus_pixel_maps'[i] = focus_pixel_maps[i]
      BY <1>1, <2>3, <2>4
    <3>2. FocusOwn(u) /\ work'[u] = work[u] /\ map'[u] = map[u]
      BY <2>5, <2>6, <2>8
    <3> QED BY <1>1, <3>1, <3>2, FocusKept
  <2> QED BY <2>5, <2>7, <2>8
<1> QED BY <1>3, <1>4 DEF FindFocusMap

(* Unless threads race, the entry is still there when its file is read.    *)
LEMMA LoadFocusStep ==
  ASSUME WorkInv, MapsTypeOK(Jobs), \A u \in Threads : FocusOwn(u), ~Stopped,
         NEW t \in Threads, LoadFocusMap(t)
  PROVE  MapsTypeOK(Jobs)' /\ \A u \in Threads : FocusOwn(u)'
<1> DEFINE n == Len(focus_pixel_maps)
           own == focus_pixel_maps[map[t]]
<1>1. /\ focus_pixel_maps \in Seq(FocusPixelMap)
      /\ n \in Nat
      /\ \A i \in 1..n : focus_pixel_maps[i] \in FocusPixelMap
  BY MapsAre
<1>2. Stage(t) = "load focus" /\ ReadFocusFile(t, CameraFor(t)) /\ RepairOrSkip(t)
  BY DEF LoadFocusMap, Is
<1>3. map[t] \in 1..n /\ own.camera = CameraFor(t) /\ own \in FocusPixelMap
  BY <1>1, <1>2 DEF FocusOwn
<1>4. PICK b \in BOOLEAN \cup {None} :
        /\ b = (CameraFor(t) \in FocusFiles)
        /\ focus_pixel_maps' = [focus_pixel_maps EXCEPT ![map[t]].found = b]
  <2>0. (CameraFor(t) \in FocusFiles) \in BOOLEAN
    OBVIOUS
  <2>1. (CameraFor(t) \in FocusFiles) \in BOOLEAN \cup {None}
    BY <2>0, Zenon
  <2> QED BY <1>2, <2>1, Zenon DEF ReadFocusFile
<1>5. PICK q : /\ q = IF CameraFor(t) \in FocusFiles THEN map[t] ELSE None
               /\ map' = [map EXCEPT ![t] = q]
  BY <1>2, Zenon DEF ReadFocusFile, PointTo
<1>6. UNCHANGED <<bad_pixel_maps, current_bad_pixel_map>>
  BY <1>2 DEF ReadFocusFile
<1> DEFINE r == [own EXCEPT !.found = b]
<1>7. r \in FocusPixelMap /\ r.camera = own.camera /\ r.found = b
  <2>1. PICK B : B = BOOLEAN \cup {None}
    OBVIOUS
  <2>2. FocusPixelMap = [camera : Cameras, found : B] /\ b \in B
    BY <1>4, <2>1, Zenon DEF FocusPixelMap
  <2>3. own \in [camera : Cameras, found : B]
    BY <1>3, <2>2
  <2>4. r \in [camera : Cameras, found : B] /\ r.camera = own.camera /\ r.found = b
    BY <2>2, <2>3
  <2> QED BY <2>2, <2>4
<1>8. focus_pixel_maps' = [focus_pixel_maps EXCEPT ![map[t]] = r]
  BY <1>4, Zenon
<1> HIDE DEF r
<1>9. /\ focus_pixel_maps' \in Seq(FocusPixelMap)
      /\ Len(focus_pixel_maps') = n
      /\ focus_pixel_maps'[map[t]] = r
  BY <1>1, <1>3, <1>7, <1>8, EntryChanged
<1>10. /\ q \in Slots \cup (1..Len(focus_pixel_maps')) \cup {None}
       /\ q \in Slots \cup Nat \cup {None}
       /\ n <= Len(focus_pixel_maps')
  BY <1>1, <1>3, <1>5, <1>9
<1>11. /\ MapsTypeOK(Jobs)'
       /\ map'[t] = q
       /\ \A u \in Threads \ {t} : map'[u] = map[u]
  BY <1>1, <1>5, <1>6, <1>9, <1>10, FocusStep
<1>12. PICK s : s = (IF q = None THEN AfterFocus(t) ELSE "repair focus") /\ GoTo(t, s)
  BY <1>2, <1>11, Zenon DEF RepairOrSkip
<1>13. /\ Stage(t)' = s /\ CameraFor(t)' = CameraFor(t)
       /\ \A u \in Threads \ {t} : work'[u] = work[u]
  BY <1>12, StageOfOne DEF CameraFor
<1>14. FocusOwn(t)'
  <2>1. CASE q = None
    <3>1. s \notin {"load focus", "repair focus"}
      BY <1>12, <2>1, AfterFocusElsewhere DEF MapStages
    <3> QED BY <1>13, <3>1 DEF FocusOwn
  <2>2. CASE q # None
    <3>1. q = map[t] /\ CameraFor(t) \in FocusFiles /\ s = "repair focus"
      BY <1>5, <1>12, <2>2
    <3>2. Filled(r)
      <4>1. b = TRUE
        BY <1>4, <3>1, Zenon
      <4> QED BY <1>7, <4>1, Zenon DEF Filled
    <3> QED BY <1>3, <1>7, <1>9, <1>11, <1>13, <3>1, <3>2 DEF FocusOwn
  <2> QED BY <2>1, <2>2
<1>15. ASSUME NEW u \in Threads, u # t PROVE FocusOwn(u)'
  <2>1. Stage(u)' \notin {"load focus", "repair focus"}
    BY <1>2, <1>13, <1>15, FocusRace DEF Stage
  <2> QED BY <2>1 DEF FocusOwn
<1> QED BY <1>11, <1>14, <1>15

(* The frame has been repaired along its map, or is not there any more.    *)
LEMMA ReleaseStep ==
  ASSUME WorkInv, MapsTypeOK(Jobs), \A u \in Threads : FocusOwn(u),
         NEW t \in Threads, Release(t), NEW s, GoTo(t, s), s \notin MapStages
  PROVE  MapsTypeOK(Jobs)' /\ \A u \in Threads : FocusOwn(u)'
<1>1. /\ focus_pixel_maps \in Seq(FocusPixelMap)
      /\ Len(focus_pixel_maps) \in Nat
  BY MapsAre
<1>2. /\ map' = [map EXCEPT ![t] = None]
      /\ UNCHANGED <<bad_pixel_maps, current_bad_pixel_map, focus_pixel_maps>>
  BY DEF Release, PointTo
<1>a. /\ focus_pixel_maps' \in Seq(FocusPixelMap)
      /\ Len(focus_pixel_maps) <= Len(focus_pixel_maps')
      /\ None \in Slots \cup (1..Len(focus_pixel_maps')) \cup {None}
      /\ None \in Slots \cup Nat \cup {None}
  BY <1>1, <1>2
<1>3. /\ MapsTypeOK(Jobs)'
      /\ \A u \in Threads \ {t} : map'[u] = map[u]
  BY <1>2, <1>a, FocusStep
<1>4. Stage(t)' = s /\ \A u \in Threads \ {t} : work'[u] = work[u]
  BY StageOfOne
<1>5. FocusOwn(t)'
  BY <1>4 DEF FocusOwn, MapStages
<1>6. ASSUME NEW u \in Threads, u # t PROVE FocusOwn(u)'
  BY <1>1, <1>2, <1>3, <1>4, <1>6, FocusKept
<1> QED BY <1>3, <1>5, <1>6

-----------------------------------------------------------------------------
(* The ring of bad pixel maps.                                             *)

(* Who searches a frame, or repairs it, has a slot that is his recording's *)
(* and has the setting asked for; who repairs it, one that is filled.      *)
BadOwn(t) ==
  /\ Stage(t) \in {"find bad", "repair bad"} =>
       /\ map[t] \in Slots
       /\ bad_pixel_maps[map[t]].aggressive = (work[t].fix_bad_pixels = 2)
       /\ bad_pixel_maps[map[t]].file_guid = GuidFor(t)
  /\ Stage(t) = "repair bad" =>
       /\ bad_pixel_maps[map[t]].from # None
       /\ GuidFor(t) = 0 => bad_pixel_maps[map[t]].from = work[t].job

(* A slot that is filled is so from a frame of its recording; one that has *)
(* a recording and is not is being filled.                                 *)
RingSound ==
  \A s \in Slots :
    /\ bad_pixel_maps[s].from # None =>
         bad_pixel_maps[s].file_guid = GuidOf[bad_pixel_maps[s].from.clip]
    /\ bad_pixel_maps[s].from = None =>
         \/ bad_pixel_maps[s].file_guid = 0
         \/ \E u \in Threads : Stage(u) = "find bad" /\ map[u] = s

BadInv == ~Stopped => RingSound /\ \A t \in Threads : BadOwn(t)

(* A thread that fills a slot and another one with a slot race. *)
LEMMA BadRace ==
  ASSUME NEW t \in Threads, NEW u \in Threads, t # u,
         Stage(t) = "find bad", Stage(u) \in {"find bad", "repair bad"}
  PROVE  Stopped
<1>1. StructureOf(t) = "bad pixel maps" /\ StructureOf(u) = "bad pixel maps"
  BY DEF StructureOf, Blends, Stage
<1>2. Extends(t)
  BY DEF Extends, Stage
<1> QED BY <1>1, <1>2 DEF Stopped, Racing

(* The same after a step. *)
LEMMA BadRacePrimed ==
  ASSUME NEW t \in Threads, NEW u \in Threads, t # u,
         Stage(t)' = "find bad", Stage(u)' \in {"find bad", "repair bad"}
  PROVE  Stopped'
<1>1. StructureOf(t)' = "bad pixel maps" /\ StructureOf(u)' = "bad pixel maps"
  BY DEF StructureOf, Blends, Stage
<1>2. Extends(t)'
  BY DEF Extends, Stage
<1> QED BY <1>1, <1>2 DEF Stopped, Racing

(* The slot, the stage and the frame of the thread are as before. *)
LEMMA BadKept ==
  ASSUME NEW t \in Threads, BadOwn(t), work'[t] = work[t], map'[t] = map[t],
         map[t] \in Slots => bad_pixel_maps'[map[t]] = bad_pixel_maps[map[t]]
  PROVE  BadOwn(t)'
<1>1. map[t] \in Slots =>
        map'[t] \in Slots /\ bad_pixel_maps'[map'[t]] = bad_pixel_maps[map[t]]
  OBVIOUS
<1> QED BY <1>1 DEF BadOwn, Stage, GuidFor, Slots

(* A step of t that has nothing to do with the ring. *)
LEMMA RingUntouched ==
  ASSUME NEW t \in Threads, RingSound, \A u \in Threads : BadOwn(u),
         UNCHANGED bad_pixel_maps,
         \A u \in Threads \ {t} : work'[u] = work[u] /\ map'[u] = map[u],
         Stage(t) # "find bad", Stage(t)' \notin {"find bad", "repair bad"}
  PROVE  RingSound' /\ \A u \in Threads : BadOwn(u)'
<1>1. BadOwn(t)'
  BY DEF BadOwn
<1>2. ASSUME NEW u \in Threads, u # t PROVE BadOwn(u)'
  BY <1>2, BadKept
<1>3. ASSUME NEW s \in Slots
      PROVE  /\ bad_pixel_maps'[s].from # None =>
                  bad_pixel_maps'[s].file_guid = GuidOf[bad_pixel_maps'[s].from.clip]
             /\ bad_pixel_maps'[s].from = None =>
                  \/ bad_pixel_maps'[s].file_guid = 0
                  \/ \E u \in Threads : Stage(u)' = "find bad" /\ map'[u] = s
  <2>1. ASSUME bad_pixel_maps[s].from = None, bad_pixel_maps[s].file_guid # 0
        PROVE  \E u \in Threads : Stage(u)' = "find bad" /\ map'[u] = s
    <3>1. PICK u \in Threads : Stage(u) = "find bad" /\ map[u] = s
      BY <2>1 DEF RingSound
    <3>2. u # t
      BY <3>1
    <3> QED BY <3>1, <3>2 DEF Stage
  <2> QED BY <2>1 DEF RingSound
<1>4. RingSound'
  BY <1>3 DEF RingSound, Slots
<1> QED BY <1>1, <1>2, <1>4

(* A step of t that has nothing to do with the maps of focus pixels. *)
LEMMA FocusUntouched ==
  ASSUME NEW t \in Threads, \A u \in Threads : FocusOwn(u),
         MapsTypeOK(Jobs), focus_pixel_maps' = focus_pixel_maps,
         \A u \in Threads \ {t} : work'[u] = work[u] /\ map'[u] = map[u],
         Stage(t)' \notin {"load focus", "repair focus"}
  PROVE  \A u \in Threads : FocusOwn(u)'
<1>1. FocusOwn(t)'
  BY DEF FocusOwn
<1>2. ASSUME NEW u \in Threads, u # t PROVE FocusOwn(u)'
  <2>1. FocusOwn(u) /\ work'[u] = work[u] /\ map'[u] = map[u]
    BY <1>2
  <2> QED BY <2>1 DEF FocusOwn, Stage, CameraFor
<1> QED BY <1>1, <1>2

(* A slot of the ring gets a value, and the thread t points to it.         *)
LEMMA SlotTyped ==
  ASSUME MapsTypeOK(Jobs), NEW t \in Threads, NEW s \in Slots,
         map' = [map EXCEPT ![t] = s], UNCHANGED focus_pixel_maps,
         current_bad_pixel_map' \in Slots,
         bad_pixel_maps' \in [Slots -> BadPixelMap(Jobs)]
  PROVE  /\ MapsTypeOK(Jobs)'
         /\ map'[t] = s
         /\ \A u \in Threads \ {t} : map'[u] = map[u]
<1>1. map \in [Threads -> Slots \cup (1..Len(focus_pixel_maps)) \cup {None}]
      /\ DOMAIN focus_pixel_maps = 1..Len(focus_pixel_maps)
  BY MapsAre
<1>2. map' \in [Threads -> Slots \cup DOMAIN focus_pixel_maps' \cup {None}]
  BY <1>1
<1>3. focus_pixel_maps' \in Seq(FocusPixelMap)
  BY DEF MapsTypeOK
<1> QED BY <1>1, <1>2, <1>3 DEF MapsTypeOK

(* The ring closes. *)
LEMMA NextSlot ==
  ASSUME NEW s \in Slots
  PROVE  (s + 1) % RingSize \in Slots
<1>1. RingSize \in Nat /\ RingSize > 0 /\ s \in Int
  BY ProcessFrameAssumption DEF Slots
<1>2. (s + 1) % RingSize \in 0..RingSize - 1
  BY <1>1
<1> QED BY <1>2 DEF Slots

(* The map of this recording with this setting is found; if the pixels of  *)
(* its slot are still being searched, the two threads race.                *)
LEMMA BadFoundStep ==
  ASSUME WorkInv, MapsTypeOK(Jobs), RingSound, \A u \in Threads : BadOwn(u),
         NEW t \in Threads, Stage(t) = "bad",
         NEW aggressive \in BOOLEAN, aggressive = (work[t].fix_bad_pixels = 2),
         BadPixelsFound(t, GuidFor(t), aggressive), GoTo(t, "repair bad")
  PROVE  MapsTypeOK(Jobs)' /\ BadInv'
<1>1. PICK slot \in Slots :
        /\ GuidFor(t) # 0
        /\ bad_pixel_maps[slot].file_guid = GuidFor(t)
        /\ bad_pixel_maps[slot].aggressive = aggressive
        /\ map' = [map EXCEPT ![t] = slot]
  BY DEF BadPixelsFound, Matches, PointTo
<1>2. UNCHANGED <<bad_pixel_maps, current_bad_pixel_map, focus_pixel_maps>>
  BY DEF BadPixelsFound
<1>3. bad_pixel_maps' \in [Slots -> BadPixelMap(Jobs)] /\ current_bad_pixel_map' \in Slots
  BY <1>2 DEF MapsTypeOK
<1>4. /\ MapsTypeOK(Jobs)'
      /\ map'[t] = slot
      /\ \A u \in Threads \ {t} : map'[u] = map[u]
  BY <1>1, <1>2, <1>3, SlotTyped
<1>5. /\ Stage(t)' = "repair bad" /\ GuidFor(t)' = GuidFor(t)
      /\ work'[t].fix_bad_pixels = work[t].fix_bad_pixels
      /\ \A u \in Threads \ {t} : work'[u] = work[u]
  BY StageOfOne DEF GuidFor
<1>6. CASE bad_pixel_maps[slot].from = None
  <2>1. PICK u \in Threads : Stage(u) = "find bad" /\ map[u] = slot
    BY <1>1, <1>6 DEF RingSound
  <2>2. u # t /\ Stage(u)' = "find bad"
    BY <1>5, <2>1 DEF Stage
  <2> QED BY <1>4, <1>5, <2>2, BadRacePrimed DEF BadInv
<1>7. CASE bad_pixel_maps[slot].from # None
  <2>1. BadOwn(t)'
    <3>1. bad_pixel_maps'[map'[t]] = bad_pixel_maps[slot] /\ map'[t] \in Slots
      BY <1>1, <1>2, <1>4
    <3>2. bad_pixel_maps'[map'[t]].aggressive = (work'[t].fix_bad_pixels = 2)
      BY <1>1, <1>5, <3>1
    <3>3. bad_pixel_maps'[map'[t]].file_guid = GuidFor(t)' /\ GuidFor(t)' # 0
      BY <1>1, <1>5, <3>1
    <3>4. bad_pixel_maps'[map'[t]].from # None
      BY <1>7, <3>1
    <3> QED BY <3>1, <3>2, <3>3, <3>4, <1>5 DEF BadOwn, Slots
  <2>2. ASSUME NEW u \in Threads, u # t PROVE BadOwn(u)'
    BY <1>2, <1>4, <1>5, <2>2, BadKept
  <2>3. ASSUME NEW s \in Slots
        PROVE  /\ bad_pixel_maps'[s].from # None =>
                    bad_pixel_maps'[s].file_guid = GuidOf[bad_pixel_maps'[s].from.clip]
               /\ bad_pixel_maps'[s].from = None =>
                    \/ bad_pixel_maps'[s].file_guid = 0
                    \/ \E u \in Threads : Stage(u)' = "find bad" /\ map'[u] = s
    <3>1. ASSUME bad_pixel_maps[s].from = None, bad_pixel_maps[s].file_guid # 0
          PROVE  \E u \in Threads : Stage(u)' = "find bad" /\ map'[u] = s
      <4>1. PICK u \in Threads : Stage(u) = "find bad" /\ map[u] = s
        BY <3>1 DEF RingSound
      <4>2. u # t
        BY <4>1
      <4> QED BY <1>4, <1>5, <4>1, <4>2 DEF Stage
    <3> QED BY <1>2, <3>1 DEF RingSound
  <2>4. RingSound'
    BY <2>3 DEF RingSound, Slots
  <2> QED BY <1>4, <2>1, <2>2, <2>4 DEF BadInv
<1> QED BY <1>6, <1>7

(* The next slot is given to this recording; whoever repairs a frame along *)
(* it, or still searches one for it, is in a race.                         *)
LEMMA ClaimSlotStep ==
  ASSUME WorkInv, MapsTypeOK(Jobs), RingSound, \A u \in Threads : BadOwn(u),
         NEW t \in Threads, Stage(t) = "bad",
         NEW aggressive \in BOOLEAN, aggressive = (work[t].fix_bad_pixels = 2),
         ClaimSlot(t, GuidFor(t), aggressive), GoTo(t, "find bad")
  PROVE  MapsTypeOK(Jobs)' /\ BadInv'
<1> DEFINE cur == current_bad_pixel_map
           r == [file_guid |-> GuidFor(t), aggressive |-> aggressive, from |-> None]
<1>1. /\ map' = [map EXCEPT ![t] = cur]
      /\ current_bad_pixel_map' = (cur + 1) % RingSize
      /\ bad_pixel_maps' = [bad_pixel_maps EXCEPT ![cur] = r]
      /\ UNCHANGED focus_pixel_maps
  BY DEF ClaimSlot, PointTo
<1>2. cur \in Slots /\ bad_pixel_maps \in [Slots -> BadPixelMap(Jobs)]
  BY DEF MapsTypeOK
<1>3. current_bad_pixel_map' \in Slots
  BY <1>1, <1>2, NextSlot
<1>4. r \in BadPixelMap(Jobs) /\ r.file_guid = GuidFor(t) /\ r.aggressive = aggressive /\ r.from = None
  BY JobOf DEF BadPixelMap
<1> HIDE DEF r
<1>5. bad_pixel_maps' \in [Slots -> BadPixelMap(Jobs)] /\ bad_pixel_maps'[cur] = r
      /\ \A s \in Slots : s # cur => bad_pixel_maps'[s] = bad_pixel_maps[s]
  BY <1>1, <1>2, <1>4
<1>6. /\ MapsTypeOK(Jobs)'
      /\ map'[t] = cur
      /\ \A u \in Threads \ {t} : map'[u] = map[u]
  BY <1>1, <1>2, <1>3, <1>5, SlotTyped
<1>7. /\ Stage(t)' = "find bad" /\ GuidFor(t)' = GuidFor(t)
      /\ work'[t].fix_bad_pixels = work[t].fix_bad_pixels
      /\ \A u \in Threads \ {t} : work'[u] = work[u]
  BY StageOfOne DEF GuidFor
<1>8. CASE \E u \in Threads \ {t} : Stage(u) \in {"find bad", "repair bad"}
  <2>1. PICK u \in Threads \ {t} : Stage(u) \in {"find bad", "repair bad"}
    BY <1>8
  <2>2. Stage(u)' \in {"find bad", "repair bad"}
    BY <1>7, <2>1 DEF Stage
  <2> QED BY <1>6, <1>7, <2>2, BadRacePrimed DEF BadInv
<1>9. CASE \A u \in Threads \ {t} : Stage(u) \notin {"find bad", "repair bad"}
  <2>1. BadOwn(t)'
    <3>1. bad_pixel_maps'[map'[t]] = r /\ map'[t] \in Slots
      BY <1>2, <1>5, <1>6
    <3>2. bad_pixel_maps'[map'[t]].aggressive = (work'[t].fix_bad_pixels = 2)
      BY <1>4, <1>7, <3>1
    <3>3. bad_pixel_maps'[map'[t]].file_guid = GuidFor(t)'
      BY <1>4, <1>7, <3>1
    <3> QED BY <3>1, <3>2, <3>3, <1>7 DEF BadOwn, Slots
  <2>2. ASSUME NEW u \in Threads, u # t PROVE BadOwn(u)'
    <3>1. Stage(u)' \notin {"find bad", "repair bad"}
      BY <1>7, <1>9, <2>2 DEF Stage
    <3> QED BY <3>1 DEF BadOwn
  <2>3. ASSUME NEW s \in Slots
        PROVE  /\ bad_pixel_maps'[s].from # None =>
                    bad_pixel_maps'[s].file_guid = GuidOf[bad_pixel_maps'[s].from.clip]
               /\ bad_pixel_maps'[s].from = None =>
                    \/ bad_pixel_maps'[s].file_guid = 0
                    \/ \E u \in Threads : Stage(u)' = "find bad" /\ map'[u] = s
    <3>1. CASE s = cur
      BY <1>4, <1>5, <1>6, <1>7, <3>1
    <3>2. CASE s # cur
      <4>1. \A u \in Threads : Stage(u) # "find bad"
        BY <1>9
      <4> QED BY <1>5, <3>2, <4>1 DEF RingSound
    <3> QED BY <3>1, <3>2
  <2>4. RingSound'
    BY <2>3 DEF RingSound, Slots
  <2> QED BY <1>6, <2>1, <2>2, <2>4 DEF BadInv
<1> QED BY <1>8, <1>9

(* Unless threads race, the slot is still the thread's own when the pixels *)
(* of its frame have been searched.                                        *)
LEMMA FillBadStep ==
  ASSUME WorkInv, MapsTypeOK(Jobs), RingSound, \A u \in Threads : BadOwn(u), ~Stopped,
         NEW t \in Threads, FillBadMap(t)
  PROVE  MapsTypeOK(Jobs)' /\ BadInv'
<1> DEFINE slot == map[t]
           r == [bad_pixel_maps[slot] EXCEPT !.from = work[t].job]
<1>1. /\ Stage(t) = "find bad"
      /\ bad_pixel_maps' = [bad_pixel_maps EXCEPT ![slot].from = work[t].job]
      /\ UNCHANGED <<current_bad_pixel_map, focus_pixel_maps, map>>
      /\ GoTo(t, "repair bad")
  BY DEF FillBadMap, Is, FindBadPixels
<1>2. bad_pixel_maps \in [Slots -> BadPixelMap(Jobs)]
      /\ map \in [Threads -> Slots \cup (1..Len(focus_pixel_maps)) \cup {None}]
  BY MapsAre DEF MapsTypeOK
<1>3. /\ slot \in Slots
      /\ bad_pixel_maps[slot].aggressive = (work[t].fix_bad_pixels = 2)
      /\ bad_pixel_maps[slot].file_guid = GuidFor(t)
      /\ bad_pixel_maps[slot] \in BadPixelMap(Jobs)
  BY <1>1, <1>2 DEF BadOwn
<1>4. work[t].job \in Jobs /\ work[t].job # None
  BY <1>1, JobOf, ConstantsAssumption
<1>5. /\ r \in BadPixelMap(Jobs) /\ r.from = work[t].job
      /\ r.aggressive = bad_pixel_maps[slot].aggressive
      /\ r.file_guid = bad_pixel_maps[slot].file_guid
  BY <1>3, <1>4 DEF BadPixelMap
<1>6. bad_pixel_maps' = [bad_pixel_maps EXCEPT ![slot] = r]
  BY <1>1, <1>3
<1> HIDE DEF r
<1>7. bad_pixel_maps' \in [Slots -> BadPixelMap(Jobs)] /\ bad_pixel_maps'[slot] = r
      /\ \A s \in Slots : s # slot => bad_pixel_maps'[s] = bad_pixel_maps[s]
  BY <1>2, <1>3, <1>5, <1>6
<1>8. MapsTypeOK(Jobs)'
  <2>1. map' = [map EXCEPT ![t] = slot] /\ UNCHANGED focus_pixel_maps
    BY <1>1, <1>2
  <2>2. current_bad_pixel_map' \in Slots
    BY <1>1 DEF MapsTypeOK
  <2> QED BY <1>3, <1>7, <2>1, <2>2, SlotTyped
<1>9. /\ Stage(t)' = "repair bad" /\ GuidFor(t)' = GuidFor(t)
      /\ work'[t].fix_bad_pixels = work[t].fix_bad_pixels /\ work'[t].job = work[t].job
      /\ \A u \in Threads \ {t} : work'[u] = work[u]
  BY <1>1, StageOfOne DEF GuidFor
<1>10. \A u \in Threads \ {t} : Stage(u) \notin {"find bad", "repair bad"}
  BY <1>1, BadRace
<1>11. BadOwn(t)'
  <2>1. bad_pixel_maps'[map'[t]] = r /\ map'[t] \in Slots
    BY <1>1, <1>3, <1>7
  <2>2. bad_pixel_maps'[map'[t]].aggressive = (work'[t].fix_bad_pixels = 2)
    BY <1>3, <1>5, <1>9, <2>1
  <2>3. bad_pixel_maps'[map'[t]].file_guid = GuidFor(t)'
    BY <1>3, <1>5, <1>9, <2>1
  <2>4. bad_pixel_maps'[map'[t]].from = work'[t].job /\ work'[t].job # None
    BY <1>4, <1>5, <1>9, <2>1
  <2> QED BY <2>1, <2>2, <2>3, <2>4 DEF BadOwn, Slots
<1>12. ASSUME NEW u \in Threads, u # t PROVE BadOwn(u)'
  <2>1. Stage(u)' \notin {"find bad", "repair bad"}
    BY <1>9, <1>10, <1>12 DEF Stage
  <2> QED BY <2>1 DEF BadOwn
<1>13. ASSUME NEW s \in Slots
       PROVE  /\ bad_pixel_maps'[s].from # None =>
                   bad_pixel_maps'[s].file_guid = GuidOf[bad_pixel_maps'[s].from.clip]
              /\ bad_pixel_maps'[s].from = None =>
                   \/ bad_pixel_maps'[s].file_guid = 0
                   \/ \E u \in Threads : Stage(u)' = "find bad" /\ map'[u] = s
  <2>1. CASE s = slot
    BY <1>3, <1>4, <1>5, <1>7, <2>1 DEF GuidFor
  <2>2. CASE s # slot
    <3>1. \A u \in Threads : Stage(u) = "find bad" => map[u] # s
      BY <1>10, <2>2
    <3> QED BY <1>7, <2>2, <3>1 DEF RingSound
  <2> QED BY <2>1, <2>2
<1>14. RingSound'
  BY <1>13 DEF RingSound, Slots
<1> QED BY <1>8, <1>11, <1>12, <1>14 DEF BadInv

-----------------------------------------------------------------------------
(* All of it together.                                                     *)

(* The structures that the threads share without a lock are sound. *)
SharedInv ==
  /\ TypeOK /\ MapsTypeOK(Jobs) /\ JobInv
  /\ StripesInv /\ FocusInv /\ BadInv

(* What is true of them while no two threads race. *)
AllSound ==
  Sound /\ RingSound /\ \A t \in Threads : FocusOwn(t) /\ BadOwn(t)

(* A step of t with its frame that has nothing to do with the stripes.     *)
LEMMA JobKept ==
  ASSUME JobInv, NEW t \in Threads, UNCHANGED vars,
         \A u \in Threads \ {t} : work'[u] = work[u],
         Stage(t) # "in stripes", Stage(t)' # "in stripes"
  PROVE  JobInv'
<1>1. pc' = pc /\ job' = job
  BY DEF vars
<1>2. pc'[t] = "idle"
  BY <1>1 DEF JobInv
<1> QED BY <1>1, <1>2 DEF JobInv, Stage

(* Only the steps within stripes.c concern the stripes. *)
LEMMA StripesKept ==
  ASSUME TypeOK, Sound, UNCHANGED vars
  PROVE  TypeOK' /\ StripesInv'
<1>1. /\ head' = head /\ node' = node /\ pc' = pc /\ job' = job /\ ptr' = ptr
      /\ developed' = developed /\ begun' = begun /\ undefined' = undefined
  BY DEF vars
<1>2. TypeOK'
  BY <1>1 DEF TypeOK
<1>3. Sound'
  BY <1>1 DEF Sound
<1> QED BY <1>2, <1>3 DEF StripesInv

(* A step elsewhere. *)
LEMMA ElsewhereStep ==
  ASSUME WorkInv, TypeOK, MapsTypeOK(Jobs), JobInv, AllSound,
         NEW t \in Threads, Elsewhere(t)
  PROVE  SharedInv'
<1>1. PICK w : w.stage \notin MapStages \cup {"in stripes"} /\ work' = [work EXCEPT ![t] = w]
  BY DEF Elsewhere
<1>2. work'[t] = w /\ \A u \in Threads \ {t} : work'[u] = work[u]
  BY <1>1, Others
<1>3. Stage(t)' \notin MapStages \cup {"in stripes"}
  BY <1>1, <1>2 DEF Stage
<1>4. UNCHANGED vars /\ Stage(t) \notin MapStages \cup {"in stripes"}
  BY DEF Elsewhere
<1>5. /\ bad_pixel_maps' = bad_pixel_maps /\ current_bad_pixel_map' = current_bad_pixel_map
      /\ focus_pixel_maps' = focus_pixel_maps /\ map' = map
  BY DEF Elsewhere, mapVars
<1>6. MapsTypeOK(Jobs)'
  BY <1>5 DEF MapsTypeOK, Slots, FocusPixelMap, BadPixelMap, Jobs
<1>7. JobInv'
  BY <1>2, <1>3, <1>4, JobKept
<1>8. TypeOK' /\ StripesInv'
  BY <1>4, StripesKept DEF AllSound
<1>9. \A u \in Threads : FocusOwn(u)'
  BY <1>2, <1>3, <1>5, FocusUntouched DEF AllSound, MapStages
<1>10. RingSound' /\ \A u \in Threads : BadOwn(u)'
  BY <1>2, <1>3, <1>4, <1>5, RingUntouched DEF AllSound, MapStages
<1> QED BY <1>6, <1>7, <1>8, <1>9, <1>10 DEF SharedInv, FocusInv, BadInv

(* A step of the page. *)
LEMMA StillStep ==
  ASSUME WorkInv, TypeOK, MapsTypeOK(Jobs), JobInv, AllSound,
         UNCHANGED <<vars, mapVars, work>>
  PROVE  SharedInv'
<1>1. /\ bad_pixel_maps' = bad_pixel_maps /\ current_bad_pixel_map' = current_bad_pixel_map
      /\ focus_pixel_maps' = focus_pixel_maps /\ map' = map /\ work' = work
      /\ pc' = pc /\ job' = job
  BY DEF mapVars, vars
<1>2. MapsTypeOK(Jobs)'
  BY <1>1 DEF MapsTypeOK, Slots, FocusPixelMap, BadPixelMap, Jobs
<1>3. JobInv'
  BY <1>1 DEF JobInv, Stage
<1>4. TypeOK' /\ StripesInv'
  BY StripesKept DEF AllSound
<1>5. \A u \in Threads : FocusOwn(u)'
  BY <1>1 DEF AllSound, FocusOwn, Stage, CameraFor
<1>6. \A u \in Threads : BadOwn(u)'
  BY <1>1 DEF AllSound, BadOwn, Stage, GuidFor, Slots
<1>7. RingSound'
  BY <1>1 DEF AllSound, RingSound, Stage, Slots
<1> QED BY <1>2, <1>3, <1>4, <1>5, <1>6, <1>7 DEF SharedInv, FocusInv, BadInv

(* A step of t with the maps. *)
LEMMA MapStep ==
  ASSUME WorkInv, TypeOK, MapsTypeOK(Jobs), JobInv, AllSound, ~Stopped,
         NEW t \in Threads,
         \/ FindFocusMap(t) \/ LoadFocusMap(t) \/ RepairFocusPixels(t)
         \/ FindBadMap(t) \/ FillBadMap(t) \/ RepairBadPixels(t)
  PROVE  SharedInv'
<1>1. UNCHANGED vars
  BY DEF FindFocusMap, LoadFocusMap, RepairFocusPixels, FindBadMap, FillBadMap,
     RepairBadPixels, OnlyMaps
<1>2. TypeOK' /\ StripesInv'
  BY <1>1, StripesKept DEF AllSound
<1>3. /\ RingSound
      /\ \A u \in Threads : FocusOwn(u)
      /\ \A u \in Threads : BadOwn(u)
  BY DEF AllSound
<1>4. /\ map \in [Threads -> Slots \cup (1..Len(focus_pixel_maps)) \cup {None}]
  BY MapsAre
<1>5. CASE FindFocusMap(t) \/ LoadFocusMap(t) \/ RepairFocusPixels(t)
  <2>1. /\ Stage(t) \in {"focus", "load focus", "repair focus"}
        /\ UNCHANGED bad_pixel_maps
        /\ \E q : map' = [map EXCEPT ![t] = q]
    BY <1>5 DEF FindFocusMap, LoadFocusMap, RepairFocusPixels, Is, FocusPixelsFound,
       AddFocusPixelMap, ReadFocusFile, Release, PointTo
  <2>2. PICK s : GoTo(t, s) /\ s \notin {"find bad", "repair bad", "in stripes"}
    <3>1. CASE FindFocusMap(t) \/ LoadFocusMap(t)
      <4>1. RepairOrSkip(t) \/ GoTo(t, "load focus")
        BY <1>5, <3>1 DEF FindFocusMap, LoadFocusMap
      <4>2. CASE RepairOrSkip(t)
        <5>1. PICK s : s = (IF map'[t] = None THEN AfterFocus(t) ELSE "repair focus") /\ GoTo(t, s)
          BY <4>2, Zenon DEF RepairOrSkip
        <5>2. s \notin {"find bad", "repair bad", "in stripes"}
          BY <5>1, AfterFocusElsewhere DEF MapStages
        <5> QED BY <5>1, <5>2
      <4>3. CASE GoTo(t, "load focus")
        <5>1. "load focus" \notin {"find bad", "repair bad", "in stripes"}
          OBVIOUS
        <5> QED BY <4>3, <5>1, Zenon
      <4> QED BY <4>1, <4>2, <4>3
    <3>2. CASE RepairFocusPixels(t)
      <4>1. GoTo(t, AfterFocus(t))
        BY <3>2 DEF RepairFocusPixels
      <4>2. AfterFocus(t) \notin {"find bad", "repair bad", "in stripes"}
        BY AfterFocusElsewhere DEF MapStages
      <4> QED BY <4>1, <4>2, Zenon
    <3> QED BY <1>5, <3>1, <3>2
  <2>3. /\ Stage(t)' = s
        /\ \A u \in Threads \ {t} : work'[u] = work[u]
        /\ \A u \in Threads \ {t} : map'[u] = map[u]
    BY <1>4, <2>1, <2>2, StageOfOne
  <2>4. JobInv'
    BY <1>1, <2>1, <2>2, <2>3, JobKept
  <2>5. RingSound' /\ \A u \in Threads : BadOwn(u)'
    BY <1>3, <2>1, <2>2, <2>3, RingUntouched
  <2>6. MapsTypeOK(Jobs)' /\ \A u \in Threads : FocusOwn(u)'
    <3>1. CASE FindFocusMap(t)
      BY <1>3, <3>1, FindFocusStep
    <3>2. CASE LoadFocusMap(t)
      BY <1>3, <3>2, LoadFocusStep
    <3>3. CASE RepairFocusPixels(t)
      <4>1. Release(t) /\ GoTo(t, AfterFocus(t)) /\ AfterFocus(t) \notin MapStages
        BY <3>3, AfterFocusElsewhere DEF RepairFocusPixels
      <4> QED BY <1>3, <4>1, ReleaseStep
    <3> QED BY <1>5, <3>1, <3>2, <3>3
  <2> QED BY <1>2, <2>4, <2>5, <2>6 DEF SharedInv, FocusInv, BadInv
<1>6. CASE FindBadMap(t) \/ FillBadMap(t)
  <2>1. /\ Stage(t) \in {"bad", "find bad"}
        /\ UNCHANGED focus_pixel_maps
        /\ \E q : map' = [map EXCEPT ![t] = q]
    <3>1. CASE FindBadMap(t)
      BY <3>1 DEF FindBadMap, Is, BadPixelsFound, ClaimSlot, PointTo
    <3>2. CASE FillBadMap(t)
      <4>1. map' = [map EXCEPT ![t] = map[t]]
        BY <1>4, <3>2 DEF FillBadMap, FindBadPixels
      <4> QED BY <3>2, <4>1 DEF FillBadMap, Is, FindBadPixels
    <3> QED BY <1>6, <3>1, <3>2
  <2>2. PICK s \in {"find bad", "repair bad"} : GoTo(t, s)
    BY <1>6 DEF FindBadMap, FillBadMap, GoTo, Become
  <2>3. /\ Stage(t)' = s
        /\ \A u \in Threads \ {t} : work'[u] = work[u]
        /\ \A u \in Threads \ {t} : map'[u] = map[u]
    BY <1>4, <2>1, <2>2, StageOfOne
  <2>4. JobInv'
    BY <1>1, <2>1, <2>2, <2>3, JobKept
  <2>5. \A u \in Threads : FocusOwn(u)'
    <3>1. Stage(t)' \notin {"load focus", "repair focus"}
      BY <2>2, <2>3
    <3> QED BY <1>3, <2>1, <2>3, <3>1, FocusUntouched
  <2>6. MapsTypeOK(Jobs)' /\ BadInv'
    <3>1. CASE FindBadMap(t)
      <4>1. PICK aggressive \in BOOLEAN :
              /\ aggressive = (work[t].fix_bad_pixels = 2)
              /\ \/ BadPixelsFound(t, GuidFor(t), aggressive) /\ GoTo(t, "repair bad")
                 \/ ClaimSlot(t, GuidFor(t), aggressive) /\ GoTo(t, "find bad")
        <5>1. (work[t].fix_bad_pixels = 2) \in BOOLEAN
          OBVIOUS
        <5> QED BY <3>1, <5>1, Zenon DEF FindBadMap
      <4>2. Stage(t) = "bad"
        BY <3>1 DEF FindBadMap, Is
      <4>3. CASE BadPixelsFound(t, GuidFor(t), aggressive) /\ GoTo(t, "repair bad")
        BY <1>3, <4>1, <4>2, <4>3, BadFoundStep
      <4>4. CASE ClaimSlot(t, GuidFor(t), aggressive) /\ GoTo(t, "find bad")
        BY <1>3, <4>1, <4>2, <4>4, ClaimSlotStep
      <4> QED BY <4>1, <4>3, <4>4
    <3>2. CASE FillBadMap(t)
      BY <1>3, <3>2, FillBadStep
    <3> QED BY <1>6, <3>1, <3>2
  <2> QED BY <1>2, <2>4, <2>5, <2>6 DEF SharedInv, FocusInv
<1>7. CASE RepairBadPixels(t)
  <2>1. PICK s : /\ s = (IF work[t].mode = "full" THEN "pass" ELSE "stripes")
                 /\ GoTo(t, s)
    BY <1>7, Zenon DEF RepairBadPixels
  <2>2. s \notin MapStages /\ s # "in stripes"
    BY <2>1 DEF MapStages
  <2>3. Release(t) /\ Stage(t) = "repair bad"
    BY <1>7 DEF RepairBadPixels, Is
  <2>4. MapsTypeOK(Jobs)' /\ \A u \in Threads : FocusOwn(u)'
    BY <1>3, <2>1, <2>2, <2>3, ReleaseStep
  <2>5. /\ Stage(t)' = s
        /\ \A u \in Threads \ {t} : work'[u] = work[u]
        /\ \A u \in Threads \ {t} : map'[u] = map[u]
    BY <1>4, <2>1, <2>3, StageOfOne DEF Release, PointTo
  <2>6. JobInv'
    BY <1>1, <2>2, <2>3, <2>5, JobKept
  <2>7. RingSound' /\ \A u \in Threads : BadOwn(u)'
    <3>1. UNCHANGED bad_pixel_maps
      BY <2>3 DEF Release
    <3> QED BY <1>3, <2>2, <2>3, <2>5, <3>1, RingUntouched DEF MapStages
  <2> QED BY <1>2, <2>4, <2>6, <2>7 DEF SharedInv, FocusInv, BadInv
<1> QED BY <1>5, <1>6, <1>7

(* A step of t with the stripes. *)
LEMMA StripeStep ==
  ASSUME WorkInv, TypeOK, MapsTypeOK(Jobs), JobInv, AllSound, ~Stopped,
         NEW t \in Threads, FixStripes(t) \/ CorrectStripes(t)
  PROVE  SharedInv'
<1>1. /\ bad_pixel_maps' = bad_pixel_maps /\ current_bad_pixel_map' = current_bad_pixel_map
      /\ focus_pixel_maps' = focus_pixel_maps /\ map' = map
  BY DEF FixStripes, CorrectStripes, mapVars
<1>2. MapsTypeOK(Jobs)'
  BY <1>1 DEF MapsTypeOK, Slots, FocusPixelMap, BadPixelMap, Jobs
<1>3. /\ RingSound /\ Sound
      /\ \A u \in Threads : FocusOwn(u)
      /\ \A u \in Threads : BadOwn(u)
  BY DEF AllSound
<1>4. ASSUME \A u \in Threads \ {t} : work'[u] = work[u],
             Stage(t)' \notin MapStages, Stage(t) \notin MapStages
      PROVE  (\A u \in Threads : FocusOwn(u)') /\ RingSound' /\ \A u \in Threads : BadOwn(u)'
  <2>1. \A u \in Threads : FocusOwn(u)'
    BY <1>1, <1>3, <1>4, FocusUntouched DEF MapStages
  <2>2. RingSound' /\ \A u \in Threads : BadOwn(u)'
    BY <1>1, <1>3, <1>4, RingUntouched DEF MapStages
  <2> QED BY <2>1, <2>2
<1>5. work[t].job \in Jobs
  <2>1. Stage(t) # "idle"
    BY DEF FixStripes, CorrectStripes, Is
  <2> QED BY <2>1, JobOf
<1>6. CASE FixStripes(t)
  <2>1. /\ Stage(t) = "stripes" /\ GoTo(t, "in stripes")
        /\ Begin(t, work[t].job.clip, work[t].job.frame)
    BY <1>6 DEF FixStripes, Is
  <2>2. work[t].job.clip \in Clips /\ work[t].job.frame \in Frames
        /\ work[t].job = [clip |-> work[t].job.clip, frame |-> work[t].job.frame]
    BY <1>5 DEF Jobs
  <2>3. /\ TypeOK' /\ Sound'
        /\ pc[t] = "idle" /\ pc'[t] = "get" /\ job'[t] = work[t].job
        /\ \A u \in Threads \ {t} : pc'[u] = pc[u] /\ job'[u] = job[u]
    BY <1>3, <2>1, <2>2, BeginStep
  <2>4. /\ Stage(t)' = "in stripes" /\ work'[t].job = work[t].job
        /\ \A u \in Threads \ {t} : work'[u] = work[u]
    BY <2>1, StageOfOne
  <2>5. JobInv'
    BY <2>3, <2>4 DEF JobInv, Stage
  <2>6. (\A u \in Threads : FocusOwn(u)') /\ RingSound' /\ \A u \in Threads : BadOwn(u)'
    BY <1>4, <2>1, <2>4 DEF MapStages
  <2> QED BY <1>2, <2>3, <2>5, <2>6 DEF SharedInv, StripesInv, FocusInv, BadInv
<1>7. CASE CorrectStripes(t)
  <2>1. /\ Stage(t) = "in stripes" /\ Develop(t)
        /\ IF pc'[t] = "idle" THEN work' = [work EXCEPT ![t] = NoWork] ELSE UNCHANGED work
    BY <1>7 DEF CorrectStripes, Is, Become
  <2>2. /\ pc[t] # "idle"
        /\ pc'[t] # "idle" => job'[t] = job[t]
        /\ \A u \in Threads \ {t} : pc'[u] = pc[u] /\ job'[u] = job[u]
    BY <2>1, DevelopOne
  <2>3. job[t] \in Jobs /\ job[t] = work[t].job
    BY <1>5, <2>2 DEF JobInv
  <2>4. /\ \A u \in Threads \ {t} : work'[u] = work[u]
        /\ Stage(t)' = "in stripes" <=> pc'[t] # "idle"
        /\ pc'[t] # "idle" => work'[t] = work[t]
        /\ Stage(t)' \in {"in stripes", "idle"}
    <3>1. CASE pc'[t] = "idle"
      <4>1. work' = [work EXCEPT ![t] = NoWork]
        BY <2>1, <3>1
      <4>2. work'[t] = NoWork /\ \A u \in Threads \ {t} : work'[u] = work[u]
        BY <4>1, Others
      <4>3. Stage(t)' = "idle"
        BY <4>2 DEF Stage, NoWork
      <4> QED BY <3>1, <4>2, <4>3
    <3>2. CASE pc'[t] # "idle"
      BY <2>1, <3>2 DEF Stage
    <3> QED BY <3>1, <3>2
  <2>5. JobInv'
    BY <2>2, <2>3, <2>4 DEF JobInv, Stage
  <2>6. TypeOK' /\ StripesInv'
    BY <1>3, <2>1, <2>3, <2>5, DevelopStep
  <2>7. (\A u \in Threads : FocusOwn(u)') /\ RingSound' /\ \A u \in Threads : BadOwn(u)'
    BY <1>4, <2>1, <2>4 DEF MapStages
  <2> QED BY <1>2, <2>5, <2>6, <2>7 DEF SharedInv, FocusInv, BadInv
<1> QED BY <1>6, <1>7

(* The counters keep their bounds. *)
Bounds == changes \in 0..MaxChanges /\ frames \in 0..MaxBegun

(* Every step keeps to the bounds of the counters. *)
LEMMA BoundsNext == Bounds /\ [FrameNext]_frameVars => Bounds'
<1> SUFFICES ASSUME Bounds, [FrameNext]_frameVars PROVE Bounds'
  OBVIOUS
<1>1. /\ changes \in Int /\ 0 <= changes /\ changes <= MaxChanges /\ MaxChanges \in Int
      /\ frames \in Int /\ 0 <= frames /\ frames <= MaxBegun /\ MaxBegun \in Int
  BY ProcessFrameAssumption, ConstantsAssumption DEF Bounds
<1>2. CASE UNCHANGED <<changes, frames>>
  BY <1>2 DEF Bounds
<1>3. CASE SetValue
  <2>1. changes' = changes + 1 /\ changes < MaxChanges /\ frames' = frames
    BY <1>3 DEF SetValue
  <2> QED BY <1>1, <2>1 DEF Bounds
<1>4. CASE WriteOption
  BY <1>2, <1>4 DEF WriteOption
<1>5. ASSUME NEW t \in Threads, NEW c \in Clips, NEW f \in Frames, BeginFrame(t, c, f)
      PROVE  Bounds'
  <2>1. frames' = frames + 1 /\ frames < MaxBegun /\ changes' = changes
    BY <1>5 DEF BeginFrame, optionVars
  <2> QED BY <1>1, <2>1 DEF Bounds
<1>6. ASSUME NEW t \in Threads, process_frame(t)
      PROVE  Bounds'
  <2>1. UNCHANGED <<changes, frames>>
    BY <1>6 DEF process_frame, PreviewDualIso, NoPreview, FullDualIso, NoDualIso,
       FindFocusMap, LoadFocusMap, RepairFocusPixels, AskBadPixels, AskAggressive,
       FindBadMap, FillBadMap, RepairBadPixels, ConvertPreview, DualIsoFails,
       AskCurve, FillCurve, BuildTables, StartAliasMap, EndPass, HeaderAgain, NoStripes,
       FixStripes, CorrectStripes, OnlyWork, OnlyMaps, optionVars
  <2> QED BY <1>2, <2>1
<1>7. CASE UNCHANGED frameVars
  BY <1>2, <1>7 DEF frameVars, optionVars
<1> QED BY <1>3, <1>4, <1>5, <1>6, <1>7 DEF FrameNext, Over

FrameInd == TableInv /\ SharedInv /\ Bounds

(* Nothing has been looked up yet. *)
LEMMA FrameIndInit == FrameInit => FrameInd
<1> SUFFICES ASSUME FrameInit PROVE FrameInd
  OBVIOUS
<1>1. /\ Init /\ MapsInit /\ changes = 0 /\ frames = 0
      /\ work = [t \in Threads |-> NoWork]
  BY DEF FrameInit
<1>2. \A t \in Threads : Stage(t) = "idle"
  BY <1>1 DEF Stage, NoWork
<1>3. Bounds
  BY <1>1, ProcessFrameAssumption, ConstantsAssumption DEF Bounds
<1>4. /\ node = <<>> /\ head = 0 /\ pc = [t \in Threads |-> "idle"] /\ developed = {}
      /\ job = [t \in Threads |-> None] /\ ptr = [t \in Threads |-> 0] /\ begun = 0
      /\ undefined = FALSE
  BY <1>1 DEF Init, NULL
<1>5. Len(node) = 0 /\ node \in Seq(Correction(Len(node)))
  BY <1>4
<1>6. undefined \in BOOLEAN
  BY <1>4, Zenon
<1>7. TypeOK
  <2>1. /\ head \in 0..Len(node) /\ ptr \in [Threads -> 0..Len(node)]
    BY <1>4, <1>5
  <2>2. /\ pc \in [Threads -> {"idle", "get", "append", "link", "name", "init", "compute", "apply"}]
        /\ job \in [Threads -> Jobs \cup {None}] /\ begun \in Nat
        /\ developed \subseteq [job : Jobs, by : Jobs \cup {None}]
    BY <1>4
  <2> QED BY <1>5, <1>6, <2>1, <2>2 DEF TypeOK, Correction, Needed
<1>8. \A t \in Threads : pc[t] = "idle"
  BY <1>4
<1>9. JobInv
  BY <1>2, <1>8 DEF JobInv
<1>10. Sound
  BY <1>5, <1>8 DEF Sound
<1>11. /\ focus_pixel_maps = <<>> /\ current_bad_pixel_map = 0
       /\ map = [t \in Threads |-> None]
       /\ bad_pixel_maps =
            [s \in Slots |-> [file_guid |-> 0, aggressive |-> FALSE, from |-> None]]
  BY <1>1 DEF MapsInit
<1>12. MapsTypeOK(Jobs)
  <2>1. focus_pixel_maps \in Seq(FocusPixelMap)
    BY <1>11
  <2>2. 0 \in Slots
    BY ProcessFrameAssumption DEF Slots
  <2>3. [file_guid |-> 0, aggressive |-> FALSE, from |-> None] \in BadPixelMap(Jobs)
    BY DEF BadPixelMap
  <2>4. bad_pixel_maps \in [Slots -> BadPixelMap(Jobs)]
    BY <1>11, <2>3
  <2>5. map \in [Threads -> Slots \cup DOMAIN focus_pixel_maps \cup {None}]
    BY <1>11
  <2> QED BY <1>11, <2>1, <2>2, <2>4, <2>5 DEF MapsTypeOK
<1>13. RingSound
  BY <1>11 DEF RingSound
<1>14. \A t \in Threads : FocusOwn(t) /\ BadOwn(t)
  BY <1>2 DEF FocusOwn, BadOwn
<1> QED
  BY <1>3, <1>7, <1>9, <1>10, <1>12, <1>13, <1>14, TableInit
  DEF FrameInd, SharedInv, StripesInv, FocusInv, BadInv

(* Every step keeps what the threads share sound, or is the first of a     *)
(* race.                                                                   *)
LEMMA FrameIndNext == FrameInd /\ [FrameNext]_frameVars => FrameInd'
<1> SUFFICES ASSUME FrameInd, [FrameNext]_frameVars PROVE FrameInd'
  OBVIOUS
<1>1. TableInv' /\ Bounds' /\ WorkInv
  BY TableNext, BoundsNext DEF FrameInd, TableInv
<1>2. SharedInv
  BY DEF FrameInd
<1>3. ASSUME ~Stopped PROVE AllSound
  BY <1>2, <1>3 DEF SharedInv, StripesInv, FocusInv, BadInv, AllSound
<1>4. TypeOK /\ MapsTypeOK(Jobs) /\ JobInv
  BY <1>2 DEF SharedInv
<1>5. CASE UNCHANGED frameVars
  <2>1. UNCHANGED <<vars, mapVars, work>>
    BY <1>5 DEF frameVars
  <2>2. CASE ~Stopped
    BY <1>1, <1>3, <1>4, <2>1, <2>2, StillStep DEF FrameInd
  <2>3. CASE Stopped
    <3>1. pc' = pc /\ job' = job /\ undefined' = undefined /\ work' = work
      BY <2>1 DEF vars
    <3>2. Stopped'
      <4>1. CASE undefined
        BY <3>1, <4>1, Zenon DEF Stopped
      <4>2. CASE Racing
        <5>1. Racing'
          <6>1. \A t \in Threads : StructureOf(t)' = StructureOf(t)
            BY <3>1 DEF StructureOf, Stage, Blends
          <6>2. \A t \in Threads : Extends(t) => Extends(t)'
            BY <3>1 DEF Extends, Stage
          <6> QED BY <4>2, <6>1, <6>2 DEF Racing
        <5> QED BY <5>1, Zenon DEF Stopped
      <4> QED BY <2>3, <4>1, <4>2, Zenon DEF Stopped
    <3>3. TypeOK'
      BY <1>4, <2>1 DEF TypeOK, vars
    <3>4. MapsTypeOK(Jobs)'
      BY <1>4, <2>1 DEF MapsTypeOK, mapVars, Slots, FocusPixelMap, BadPixelMap, Jobs
    <3>5. JobInv'
      BY <1>4, <3>1 DEF JobInv, Stage
    <3> QED BY <1>1, <3>2, <3>3, <3>4, <3>5 DEF FrameInd, SharedInv, StripesInv, FocusInv,
               BadInv
  <2> QED BY <2>2, <2>3
<1>6. CASE Over
  BY <1>5, <1>6 DEF Over
<1>7. CASE ~Stopped /\ (SetValue \/ WriteOption)
  <2>1. UNCHANGED <<vars, mapVars, work>>
    BY <1>7 DEF SetValue, WriteOption
  <2> QED BY <1>1, <1>3, <1>4, <1>7, <2>1, StillStep DEF FrameInd
<1>8. ASSUME ~Stopped, NEW t \in Threads, NEW c \in Clips, NEW f \in Frames,
             BeginFrame(t, c, f)
      PROVE  FrameInd'
  BY <1>1, <1>3, <1>4, <1>8, BeginElsewhere, ElsewhereStep DEF FrameInd
<1>9. ASSUME ~Stopped, NEW t \in Threads, process_frame(t)
      PROVE  FrameInd'
  <2>1. CASE Elsewhere(t)
    BY <1>1, <1>3, <1>4, <1>9, <2>1, ElsewhereStep DEF FrameInd
  <2>2. CASE \/ FindFocusMap(t) \/ LoadFocusMap(t) \/ RepairFocusPixels(t)
             \/ FindBadMap(t) \/ FillBadMap(t) \/ RepairBadPixels(t)
    BY <1>1, <1>3, <1>4, <1>9, <2>2, MapStep DEF FrameInd
  <2>3. CASE FixStripes(t) \/ CorrectStripes(t)
    BY <1>1, <1>3, <1>4, <1>9, <2>3, StripeStep DEF FrameInd
  <2> QED BY <1>1, <1>9, <2>1, <2>2, <2>3, OthersElsewhere
<1> QED BY <1>5, <1>6, <1>7, <1>8, <1>9 DEF FrameNext

(* Whatever threads share, race or not, keeps its type: the ring closes,   *)
(* pointers stay within the list and the array, counters within their      *)
(* bounds.                                                                 *)
THEOREM FrameTypeCorrect == FrameSpec => []FrameTypeOK
<1>1. FrameInd => FrameTypeOK
  <2> SUFFICES ASSUME FrameInd PROVE FrameTypeOK
    OBVIOUS
  <2>1. TypeOK /\ MapsTypeOK(Jobs)
    BY DEF FrameInd, SharedInv
  <2>2. /\ {mlvfs, requested} \subseteq Options /\ work \in [Threads -> Work]
        /\ table \in [Passes -> Nat \cup {None}]
        /\ curve \in [black : Nat \cup {None}, filled : BOOLEAN]
    BY DEF FrameInd, TableInv, WorkInv
  <2>3. changes \in 0..MaxChanges /\ frames \in 0..MaxBegun
    BY DEF FrameInd, Bounds
  <2> QED BY <2>1, <2>2, <2>3 DEF FrameTypeOK
<1> QED BY <1>1, FrameIndInit, FrameIndNext, PTL DEF FrameSpec

(* An entry of the array is its camera and whether its file was found. *)
LEMMA EntryIs ==
  ASSUME NEW entry \in FocusPixelMap
  PROVE  entry = [camera |-> entry.camera, found |-> entry.found]
<1>1. PICK B : B = BOOLEAN \cup {None}
  OBVIOUS
<1>2. entry \in [camera : Cameras, found : B]
  BY <1>1, Zenon DEF FocusPixelMap
<1> QED BY <1>2

(* As long as no two threads race in a structure that has no lock, every   *)
(* frame is repaired along maps that are complete and its own, and has a   *)
(* stripe correction of its own clip that has been computed, whatever the  *)
(* ring has dropped, and whatever other threads look for and fill.         *)
THEOREM MapsAlwaysOwn == FrameSpec => []OwnMaps
<1>1. FrameInd => OwnMaps
  <2> SUFFICES ASSUME FrameInd, ~Stopped, NEW t \in Threads
               PROVE  LET own == work[t].job
                          bad == bad_pixel_maps[map[t]]
                      IN  /\ Stage(t) = "repair focus" =>
                               focus_pixel_maps[map[t]] = [camera |-> CameraFor(t), found |-> TRUE]
                          /\ Stage(t) = "repair bad" =>
                               /\ bad.from # None
                               /\ bad.aggressive = (work[t].fix_bad_pixels = 2)
                               /\ IF GuidFor(t) = 0 THEN bad.from = own
                                  ELSE GuidOf[bad.from.clip] = GuidFor(t)
                          /\ pc[t] = "apply" /\ ptr[t] # NULL =>
                               node[ptr[t]].from # None /\ node[ptr[t]].clip = own.clip
    BY DEF OwnMaps
  <2>1. /\ MapsTypeOK(Jobs) /\ JobInv /\ Sound /\ FocusOwn(t) /\ BadOwn(t) /\ RingSound
    BY DEF FrameInd, SharedInv, StripesInv, FocusInv, BadInv
  <2>2. ASSUME Stage(t) = "repair focus"
        PROVE  focus_pixel_maps[map[t]] = [camera |-> CameraFor(t), found |-> TRUE]
    <3>1. PICK entry \in FocusPixelMap :
            /\ entry = focus_pixel_maps[map[t]]
            /\ entry.camera = CameraFor(t) /\ Filled(entry)
      BY <2>1, <2>2, MapsAre DEF FocusOwn
    <3>2. entry = [camera |-> entry.camera, found |-> entry.found]
      BY EntryIs
    <3> QED BY <3>1, <3>2, Zenon DEF Filled
  <2>3. ASSUME Stage(t) = "repair bad"
        PROVE  /\ bad_pixel_maps[map[t]].from # None
               /\ bad_pixel_maps[map[t]].aggressive = (work[t].fix_bad_pixels = 2)
               /\ IF GuidFor(t) = 0 THEN bad_pixel_maps[map[t]].from = work[t].job
                  ELSE GuidOf[bad_pixel_maps[map[t]].from.clip] = GuidFor(t)
    BY <2>1, <2>3 DEF BadOwn, RingSound
  <2>4. ASSUME pc[t] = "apply" /\ ptr[t] # NULL
        PROVE  node[ptr[t]].from # None /\ node[ptr[t]].clip = work[t].job.clip
    <3>1. node[ptr[t]].from # None
      BY <2>1, <2>4 DEF Sound
    <3>2. node[ptr[t]].clip = job[t].clip
      BY <2>1, <2>4 DEF Sound
    <3>3. job[t] = work[t].job
      <4>1. pc[t] # "idle"
        BY <2>4
      <4> QED BY <2>1, <4>1 DEF JobInv
    <3> QED BY <3>1, <3>2, <3>3
  <2> QED BY <2>2, <2>3, <2>4
<1> QED BY <1>1, FrameIndInit, FrameIndNext, PTL DEF FrameSpec

-----------------------------------------------------------------------------
(* The list of corrections.                                                *)

(* A node that has been filled in and computed, for its own clip; the      *)
(* nodes are linked in the order of their allocation.                      *)
Whole(n) ==
  /\ node[n].clip # None
  /\ node[n].next = IF n = Len(node) THEN NULL ELSE n + 1
  /\ node[n].needed # None
  /\ node[n].from # None
  /\ node[n].from.clip = node[n].clip

(* What a frame that is corrected with a node is corrected with. *)
Factors(n) == IF node[n].needed /\ node[n].clip \notin OddClips THEN node[n].from ELSE None

Missing(c) == \A n \in 1..Len(node) : node[n].clip # c

(* The last node has been freed: walks along the list go wrong, for a clip *)
(* that is missing.                                                        *)
Broken ==
  /\ Len(node) > 0
  /\ node[Len(node)].clip = None
  /\ \A t \in Threads : pc[t] # "name"

Failed(c) == Broken /\ Missing(c)

Undeveloped(c) == \A d \in developed : d.job.clip # c

(* A frame was developed with the node of its clip, or without any, the    *)
(* node of its clip having failed.                                         *)
Explained(d) ==
  \/ \E n \in 1..Len(node) :
       Whole(n) /\ node[n].clip = d.job.clip /\ d.by = Factors(n)
  \/ Failed(d.job.clip) /\ d.by = None

Filling == {"name", "init", "compute"}

(* Where a thread is in stripes.c: the clip that it adds is not in the     *)
(* list, nor has a frame of it been developed, and its node is the last    *)
(* one.                                                                    *)
Place(t) ==
  /\ pc[t] \in {"append", "link"} => \A n \in 1..Len(node) : Whole(n)
  /\ pc[t] \in {"append", "link", "name"} => Missing(job[t].clip)
  /\ pc[t] \in {"append", "link"} \cup Filling => Undeveloped(job[t].clip)
  /\ pc[t] \in {"link"} \cup Filling => ptr[t] = Len(node)
  /\ pc[t] = "name" => node[Len(node)].clip = None
  /\ pc[t] \in {"init", "compute"} => node[Len(node)].clip = job[t].clip
  /\ pc[t] = "compute" => node[Len(node)].next = NULL
  /\ pc[t] = "apply" =>
       IF ptr[t] = NULL THEN Failed(job[t].clip)
       ELSE ptr[t] \in 1..Len(node) /\ Whole(ptr[t]) /\ node[ptr[t]].clip = job[t].clip

Ordered ==
  /\ head = IF Len(node) = 0 THEN NULL ELSE 1
  /\ \A n \in 1..Len(node) :
       \/ Whole(n)
       \/ n = Len(node) /\ node[n].clip = None
       \/ n = Len(node) /\ \E t \in Threads : pc[t] \in {"init", "compute"}
  /\ \A m, n \in 1..Len(node) : node[m].clip = node[n].clip => m = n

ListSound ==
  /\ Ordered
  /\ \A t \in Threads : Place(t)
  /\ \A d \in developed : Explained(d)

(* One thread extends the list while another one has looked something up   *)
(* in it.                                                                  *)
InList(t) == pc[t] \notin {"idle", "get"}

ListRace ==
  \E t \in Threads : /\ pc[t] \in {"append", "link"} \cup Filling
                     /\ \E u \in Threads \ {t} : InList(u)

CorrectionInv == OneCorrection /\ (ListRace \/ undefined \/ ListSound)

(* The walk goes from node to node. *)
LEMMA WalkIs ==
  ASSUME TypeOK
  PROVE  /\ Walk[0] = head
         /\ \A k \in Nat : Walk[k + 1] = IF Walk[k] > NULL THEN node[Walk[k]].next ELSE Walk[k]
<1> DEFINE X == Garbage..Len(node)
           g == [p \in X |-> IF p > NULL THEN node[p].next ELSE p]
<1>1. Len(node) \in Nat /\ \A n \in 1..Len(node) : node[n] \in Correction(Len(node))
  BY NodesAre
<1>2. \A n \in 1..Len(node) : node[n].next \in X
  BY <1>1 DEF Correction
<1>3. head \in X
  BY <1>1 DEF TypeOK, Garbage
<1>4. g \in [X -> X]
  BY <1>1, <1>2 DEF NULL, Garbage
<1>5. PICK f \in [Nat -> X] : f[0] = head /\ \A k \in Nat : f[k + 1] = g[f[k]]
  <2>1. \E f \in [Nat -> X] : Iterates(f, head, g)
    <3> HIDE DEF g, X
    <3> QED BY <1>3, <1>4, Iteration, Zenon
  <2> QED BY <2>1 DEF Iterates
<1>6. ASSUME NEW k \in Nat
      PROVE  f[k] = IF k = 0 THEN head
                    ELSE IF f[k - 1] > NULL THEN node[f[k - 1]].next ELSE f[k - 1]
  <2>1. CASE k = 0
    BY <1>5, <2>1
  <2>2. CASE k # 0
    <3>1. k - 1 \in Nat /\ (k - 1) + 1 = k
      BY <2>2
    <3>2. f[k] = g[f[k - 1]] /\ f[k - 1] \in X
      BY <1>5, <3>1
    <3> QED BY <2>2, <3>2
  <2> QED BY <2>1, <2>2
<1>7. f = [k \in Nat |-> IF k = 0 THEN head
                         ELSE IF f[k - 1] > NULL THEN node[f[k - 1]].next ELSE f[k - 1]]
  <2>1. f = [k \in Nat |-> f[k]]
    BY <1>5
  <2> QED BY <1>6, <2>1
<1>8. Walk = [k \in Nat |-> IF k = 0 THEN head
                            ELSE IF Walk[k - 1] > NULL THEN node[Walk[k - 1]].next ELSE Walk[k - 1]]
  BY <1>7 DEF Walk
<1>9. Walk[0] = head
  BY <1>8
<1>10. ASSUME NEW k \in Nat
       PROVE  Walk[k + 1] = IF Walk[k] > NULL THEN node[Walk[k]].next ELSE Walk[k]
  <2>1. k + 1 \in Nat /\ k + 1 # 0 /\ (k + 1) - 1 = k
    OBVIOUS
  <2>2. Walk[k + 1] = IF k + 1 = 0 THEN head
                      ELSE IF Walk[(k + 1) - 1] > NULL THEN node[Walk[(k + 1) - 1]].next
                           ELSE Walk[(k + 1) - 1]
    BY <1>8, <2>1
  <2> QED BY <2>1, <2>2
<1> QED BY <1>9, <1>10

(* After k steps the walk is at node k + 1, as far as there are nodes. *)
LEMMA WalkInOrder ==
  ASSUME TypeOK, Ordered
  PROVE  \A k \in Nat : k < Len(node) => Walk[k] = k + 1
<1> DEFINE P == {k \in Nat : k < Len(node) => Walk[k] = k + 1}
<1>1. Len(node) \in Nat
  BY NodesAre
<1>2. 0 \in P
  BY <1>1, WalkIs DEF Ordered
<1>3. ASSUME NEW k \in Nat, k \in P PROVE k + 1 \in P
  <2>1. CASE k + 1 < Len(node)
    <3>1. Walk[k] = k + 1 /\ k + 1 \in 1..Len(node) /\ k + 1 # Len(node) /\ k + 1 > NULL
      BY <1>1, <1>3, <2>1 DEF NULL
    <3>2. node[k + 1].next = (k + 1) + 1
      BY <3>1 DEF Ordered, Whole
    <3>3. Walk[k + 1] = IF Walk[k] > NULL THEN node[Walk[k]].next ELSE Walk[k]
      BY WalkIs
    <3>4. Walk[k + 1] = node[k + 1].next
      BY <3>1, <3>3
    <3> QED BY <3>2, <3>4
  <2>2. CASE ~(k + 1 < Len(node))
    BY <2>2
  <2> QED BY <2>1, <2>2
<1>4. Nat \subseteq P
  <2> HIDE DEF P
  <2> QED BY <1>2, <1>3, SetInduction
<1> QED BY <1>4

(* A walk that finds nothing has passed all nodes. *)
LEMMA NothingFound ==
  ASSUME TypeOK, Ordered, NEW c \in Clips, StopsAt(c, NULL)
  PROVE  \A n \in 1..Len(node) : node[n].clip \notin {c, None}
<1>1. Len(node) \in Nat
  BY NodesAre
<1>2. PICK k \in 0..Len(node) :
        /\ Walk[k] = NULL
        /\ \A j \in 0..(k - 1) : Walk[j] > NULL /\ node[Walk[j]].clip \notin {c, None}
  BY DEF StopsAt, Steps
<1>3. k = Len(node)
  <2>1. ASSUME k < Len(node) PROVE FALSE
    <3>1. k \in Nat /\ Walk[k] = k + 1
      BY <1>1, <2>1, WalkInOrder
    <3> QED BY <1>2, <3>1 DEF NULL
  <2> QED BY <1>1, <2>1
<1>4. ASSUME NEW n \in 1..Len(node) PROVE node[n].clip \notin {c, None}
  <2>1. n - 1 \in 0..(k - 1) /\ n - 1 \in Nat /\ n - 1 < Len(node) /\ (n - 1) + 1 = n
    BY <1>1, <1>3
  <2>2. Walk[n - 1] = n
    BY <2>1, WalkInOrder
  <2> QED BY <1>2, <2>1, <2>2
<1> QED BY <1>4

-----------------------------------------------------------------------------
(* Developed frames.                                                       *)

(* Frames that are explained have one correction for each clip. *)
LEMMA ExplainedOnce ==
  ASSUME Ordered, NEW D, \A d \in D : Explained(d)
  PROVE  \A d, e \in D :
           d.job.clip = e.job.clip => /\ d.by = e.by
                                      /\ d.by # None => d.by.clip = d.job.clip
<1> SUFFICES ASSUME NEW d \in D, NEW e \in D, d.job.clip = e.job.clip
             PROVE  d.by = e.by /\ (d.by # None => d.by.clip = d.job.clip)
  OBVIOUS
<1>1. Explained(d) /\ Explained(e)
  OBVIOUS
<1>2. CASE Failed(d.job.clip)
  <2>1. \A n \in 1..Len(node) : node[n].clip # d.job.clip
    BY <1>2 DEF Failed, Missing
  <2>2. d.by = None /\ e.by = None
    BY <1>1, <2>1 DEF Explained
  <2> QED BY <2>2
<1>3. CASE ~Failed(d.job.clip)
  <2>1. PICK m \in 1..Len(node) : Whole(m) /\ node[m].clip = d.job.clip /\ d.by = Factors(m)
    BY <1>1, <1>3 DEF Explained
  <2>2. PICK n \in 1..Len(node) : Whole(n) /\ node[n].clip = d.job.clip /\ e.by = Factors(n)
    BY <1>1, <1>3 DEF Explained
  <2>3. m = n
    BY <2>1, <2>2 DEF Ordered
  <2>4. Factors(m) \in {node[m].from, None} /\ node[m].from.clip = d.job.clip
    BY <2>1 DEF Whole, Factors
  <2> QED BY <2>1, <2>2, <2>3, <2>4
<1> QED BY <1>2, <1>3

(* Others are at most about to look something up while one extends the     *)
(* list.                                                                   *)
LEMMA Alone ==
  ASSUME ~ListRace, NEW t \in Threads, pc[t] \in {"append", "link"} \cup Filling
  PROVE  \A u \in Threads \ {t} : ~InList(u)
BY DEF ListRace

(* A step of t that leaves the list as it is, and t in a place that suits  *)
(* it.                                                                     *)
LEMMA ListKept ==
  ASSUME ListSound, NEW t \in Threads, NEW l,
         node' = node, head' = head, developed' = developed,
         pc \in [Threads -> {"idle", "get", "append", "link", "name", "init", "compute", "apply"}],
         pc' = [pc EXCEPT ![t] = l],
         pc[t] \notin Filling, l \notin Filling,
         \A u \in Threads \ {t} : job'[u] = job[u] /\ ptr'[u] = ptr[u],
         Broken' = Broken => Place(t)'
  PROVE  ListSound'
<1>1. pc'[t] = l /\ \A u \in Threads \ {t} : pc'[u] = pc[u]
  OBVIOUS
<1>2. Broken' = Broken
  <2>1. (\A u \in Threads : pc'[u] # "name") <=> (\A u \in Threads : pc[u] # "name")
    BY <1>1 DEF Filling
  <2> QED BY <2>1 DEF Broken
<1>3. \A n \in 1..Len(node) : Whole(n)' <=> Whole(n)
  BY DEF Whole
<1>4. \A c : Missing(c)' <=> Missing(c)
  BY DEF Missing
<1>5. \A c : Failed(c)' <=> Failed(c)
  BY <1>2, <1>4 DEF Failed
<1>6. \A n \in 1..Len(node) : Factors(n)' = Factors(n)
  BY DEF Factors
<1>7. Ordered'
  <2>1. \A u \in Threads : pc[u] \in {"init", "compute"} => pc'[u] \in {"init", "compute"}
    BY <1>1 DEF Filling
  <2>2. (\E u \in Threads : pc[u] \in {"init", "compute"}) => \E u \in Threads : pc'[u] \in {"init", "compute"}
    BY <2>1
  <2> QED BY <1>3, <2>2 DEF ListSound, Ordered
<1>8. ASSUME NEW u \in Threads \ {t} PROVE Place(u)'
  <2>1. Place(u)
    BY DEF ListSound
  <2>2. pc'[u] = pc[u] /\ job'[u] = job[u] /\ ptr'[u] = ptr[u]
    BY <1>1
  <2> QED BY <1>3, <1>4, <1>5, <2>1, <2>2 DEF Place, Undeveloped
<1>9. ASSUME NEW d \in developed PROVE Explained(d)'
  <2>1. Explained(d)
    BY DEF ListSound
  <2> QED BY <1>3, <1>5, <1>6, <2>1 DEF Explained
<1>10. Place(t)'
  BY <1>2
<1> QED BY <1>7, <1>8, <1>9, <1>10 DEF ListSound

(* The types that the steps need, once. *)
LEMMA ListIs ==
  ASSUME TypeOK
  PROVE  /\ Len(node) \in Nat
         /\ ptr \in [Threads -> 0..Len(node)]
         /\ pc \in [Threads -> {"idle", "get", "append", "link", "name", "init", "compute", "apply"}]
         /\ job \in [Threads -> Jobs \cup {None}]
         /\ \A n \in 1..Len(node) : node[n] \in Correction(Len(node))
         /\ node \in Seq(Correction(Len(node)))
BY NodesAre

-----------------------------------------------------------------------------
(* The steps that look for a node.                                         *)

(* The correction of the clip is found: unless another thread fills it in, *)
(* it is whole.                                                            *)
LEMMA FoundWhole ==
  ASSUME TypeOK, ListSound, NEW t \in Threads, GetFound(t), job[t] \in Jobs
  PROVE  ListRace' \/ ListSound'
<1>1. /\ ptr \in [Threads -> 0..Len(node)]
      /\ pc \in [Threads -> {"idle", "get", "append", "link", "name", "init", "compute", "apply"}]
  BY ListIs
<1>2. /\ pc[t] = "get" /\ pc' = [pc EXCEPT ![t] = "apply"]
      /\ node' = node /\ head' = head /\ developed' = developed /\ job' = job
  BY DEF GetFound, At, Goto
<1>3. PICK n \in 1..Len(node) :
        StopsAt(job[t].clip, n) /\ ~IsGarbage(n) /\ ptr' = [ptr EXCEPT ![t] = n]
  BY DEF GetFound
<1>4. n > NULL
  BY DEF NULL
<1>5. node[n].clip = job[t].clip /\ node[n].clip # None
  BY <1>3, <1>4 DEF StopsAt, IsGarbage
<1>6. CASE \E u \in Threads : pc[u] \in {"init", "compute"}
  <2>1. PICK u \in Threads : pc[u] \in {"init", "compute"}
    BY <1>6
  <2>2. u # t /\ pc'[u] \in {"init", "compute"} /\ pc'[t] = "apply"
    BY <1>1, <1>2, <2>1
  <2>3. ListRace'
    BY <2>2 DEF ListRace, InList, Filling
  <2> QED BY <2>3
<1>7. CASE \A u \in Threads : pc[u] \notin {"init", "compute"}
  <2>1. Whole(n)
    BY <1>5, <1>7 DEF ListSound, Ordered
  <2>2. Place(t)'
    <3>1. pc'[t] = "apply" /\ ptr'[t] = n /\ job'[t] = job[t]
      BY <1>1, <1>2, <1>3
    <3>2. Whole(n)'
      BY <1>2, <2>1 DEF Whole
    <3>3. ptr'[t] # NULL /\ ptr'[t] \in 1..Len(node')
      BY <1>2, <1>4, <3>1 DEF NULL
    <3> QED BY <1>2, <1>5, <3>1, <3>2, <3>3 DEF Place, Filling
  <2>3. \A u \in Threads \ {t} : job'[u] = job[u] /\ ptr'[u] = ptr[u]
    BY <1>1, <1>2, <1>3
  <2> QED BY <1>1, <1>2, <2>2, <2>3, ListKept DEF Filling
<1> QED BY <1>6, <1>7

(* No correction is found: the list is whole, and no frame of the clip has *)
(* been developed.                                                         *)
LEMMA MissedUndeveloped ==
  ASSUME TypeOK, ListSound, NEW t \in Threads, GetMissing(t), job[t] \in Jobs
  PROVE  ListRace' \/ ListSound'
<1>1. /\ ptr \in [Threads -> 0..Len(node)] /\ Len(node) \in Nat
      /\ pc \in [Threads -> {"idle", "get", "append", "link", "name", "init", "compute", "apply"}]
  BY ListIs
<1>2. /\ pc[t] = "get" /\ pc' = [pc EXCEPT ![t] = "append"]
      /\ node' = node /\ head' = head /\ developed' = developed /\ job' = job /\ ptr' = ptr
      /\ StopsAt(job[t].clip, NULL)
  BY DEF GetMissing, At, Goto
<1>3. job[t].clip \in Clips
  BY DEF Jobs
<1>4. \A n \in 1..Len(node) : node[n].clip \notin {job[t].clip, None}
  BY <1>2, <1>3, NothingFound DEF ListSound
<1>5. CASE \E u \in Threads : pc[u] \in {"init", "compute"}
  <2>1. PICK u \in Threads : pc[u] \in {"init", "compute"}
    BY <1>5
  <2>2. u # t /\ pc'[u] \in {"init", "compute"} /\ pc'[t] = "append"
    BY <1>1, <1>2, <2>1
  <2>3. ListRace'
    BY <2>2 DEF ListRace, InList, Filling
  <2> QED BY <2>3
<1>6. CASE \A u \in Threads : pc[u] \notin {"init", "compute"}
  <2>1. \A n \in 1..Len(node) : Whole(n)
    BY <1>4, <1>6 DEF ListSound, Ordered
  <2>2. Missing(job[t].clip)
    BY <1>4 DEF Missing
  <2>3. ~Broken
    BY <1>1, <1>4 DEF Broken
  <2>4. Undeveloped(job[t].clip)
    BY <1>4, <2>3 DEF ListSound, Explained, Failed, Undeveloped
  <2>5. Place(t)'
    <3>1. pc'[t] = "append"
      BY <1>1, <1>2
    <3>2. \A n \in 1..Len(node') : Whole(n)'
      BY <1>2, <2>1 DEF Whole
    <3>3. Missing(job[t].clip)'
      BY <1>2, <2>2 DEF Missing
    <3>4. Undeveloped(job[t].clip)'
      BY <1>2, <2>4 DEF Undeveloped
    <3> QED BY <1>2, <3>1, <3>2, <3>3, <3>4 DEF Place, Filling
  <2>6. \A u \in Threads \ {t} : job'[u] = job[u] /\ ptr'[u] = ptr[u]
    BY <1>2
  <2> QED BY <1>1, <1>2, <2>5, <2>6, ListKept DEF Filling
<1> QED BY <1>5, <1>6

(* The tail is the last node. *)
LEMMA TailFound ==
  ASSUME TypeOK, ListSound, NEW t \in Threads, FindTail(t)
  PROVE  ListSound'
<1>1. /\ ptr \in [Threads -> 0..Len(node)] /\ Len(node) \in Nat
      /\ pc \in [Threads -> {"idle", "get", "append", "link", "name", "init", "compute", "apply"}]
  BY ListIs
<1>2. /\ pc[t] = "append" /\ pc' = [pc EXCEPT ![t] = "link"]
      /\ node' = node /\ head' = head /\ developed' = developed /\ job' = job
  BY DEF FindTail, At, Goto
<1>3. PICK n \in 1..Len(node) : node[n].next = NULL /\ ptr' = [ptr EXCEPT ![t] = n]
  BY DEF FindTail, Reachable
<1>4. Place(t)
  BY DEF ListSound
<1>5. n = Len(node)
  <2>1. Whole(n)
    BY <1>2, <1>4 DEF Place
  <2> QED BY <1>1, <1>3, <2>1 DEF Whole, NULL
<1>6. Place(t)'
  <2>1. pc'[t] = "link" /\ ptr'[t] = Len(node') /\ job'[t] = job[t]
    BY <1>1, <1>2, <1>3, <1>5
  <2>2. \A m \in 1..Len(node') : Whole(m)'
    BY <1>2, <1>4 DEF Place, Whole
  <2>3. Missing(job[t].clip)' /\ Undeveloped(job[t].clip)'
    BY <1>2, <1>4 DEF Place, Missing, Undeveloped
  <2> QED BY <1>2, <2>1, <2>2, <2>3 DEF Place, Filling
<1>7. \A u \in Threads \ {t} : job'[u] = job[u] /\ ptr'[u] = ptr[u]
  BY <1>1, <1>2, <1>3
<1> QED BY <1>1, <1>2, <1>6, <1>7, ListKept DEF Filling

-----------------------------------------------------------------------------
(* The steps that extend the list.                                         *)

(* A node is added behind whole ones, which are linked to it. *)
LEMMA NodeAppended ==
  ASSUME TypeOK, ListSound, ~ListRace, NEW t \in Threads, pc[t] \in {"append", "link"}, job[t] \in Jobs,
         NEW s \in Seq(Correction(Len(node) + 1)), Len(s) = Len(node),
         \A n \in 1..Len(node) :
           /\ s[n].clip = node[n].clip /\ s[n].from = node[n].from /\ s[n].needed = node[n].needed
           /\ s[n].next = n + 1,
         node' = Append(s, FreshNode), head' = 1,
         pc' = [pc EXCEPT ![t] = "name"], ptr' = [ptr EXCEPT ![t] = Len(node) + 1],
         job' = job, developed' = developed
  PROVE  ListSound'
<1> DEFINE m == Len(node) + 1
<1>1. /\ Len(node) \in Nat /\ ptr \in [Threads -> 0..Len(node)]
      /\ pc \in [Threads -> {"idle", "get", "append", "link", "name", "init", "compute", "apply"}]
  BY ListIs
<1>2. /\ Len(node') = m
      /\ \A n \in 1..Len(node) : node'[n] = s[n]
      /\ node'[m] = FreshNode
  <2>1. m \in Nat /\ FreshNode \in Correction(m)
    BY <1>1 DEF FreshNode, Correction, Needed, Garbage
  <2> QED BY <2>1, AppendProperties
<1>3. /\ pc'[t] = "name" /\ ptr'[t] = m
      /\ \A u \in Threads \ {t} : pc'[u] = pc[u] /\ pc[u] \in {"idle", "get"}
  BY <1>1, Alone DEF InList
<1>4. Place(t)
  BY DEF ListSound
<1>5. \A n \in 1..Len(node) : Whole(n)
  BY <1>4 DEF Place
<1>6. ASSUME NEW n \in 1..Len(node) PROVE Whole(n)'
  <2>1. n # m /\ n \in 1..m
    BY <1>1
  <2>2. /\ node'[n].clip = node[n].clip /\ node'[n].from = node[n].from
        /\ node'[n].needed = node[n].needed /\ node'[n].next = n + 1
    BY <1>2
  <2> QED BY <1>2, <1>5, <2>1, <2>2 DEF Whole
<1>7. node'[m].clip = None
  BY <1>2 DEF FreshNode
<1>8. \A n \in 1..m : n = m \/ n \in 1..Len(node)
  BY <1>1
<1>9. Ordered'
  <2>1. head' = IF Len(node') = 0 THEN NULL ELSE 1
    BY <1>1, <1>2
  <2>2. \A n \in 1..m : Whole(n)' \/ (n = Len(node') /\ node'[n].clip = None)
    BY <1>2, <1>6, <1>7, <1>8
  <2>3. ASSUME NEW n \in 1..m, NEW k \in 1..m, node'[n].clip = node'[k].clip
        PROVE  n = k
    <3>1. CASE n \in 1..Len(node) /\ k \in 1..Len(node)
      BY <1>2, <2>3, <3>1 DEF ListSound, Ordered
    <3>2. CASE n = m \/ k = m
      BY <1>6, <1>7, <1>8, <2>3, <3>2 DEF Whole
    <3> QED BY <1>8, <3>1, <3>2
  <2> QED BY <1>2, <2>1, <2>2, <2>3 DEF Ordered
<1>10. ~Broken
  BY <1>1, <1>5 DEF Broken, Whole
<1>11. ASSUME NEW d \in developed PROVE Explained(d)'
  <2>1. Explained(d)
    BY DEF ListSound
  <2>2. PICK n \in 1..Len(node) : Whole(n) /\ node[n].clip = d.job.clip /\ d.by = Factors(n)
    BY <1>10, <2>1 DEF Explained, Failed
  <2>3. n \in 1..Len(node')
    BY <1>1, <1>2
  <2>4. Whole(n)' /\ node'[n].clip = d.job.clip
    BY <1>2, <1>6, <2>2
  <2>5. Factors(n)' = Factors(n)
    BY <1>2 DEF Factors
  <2> QED BY <2>2, <2>3, <2>4, <2>5 DEF Explained
<1>12. Place(t)'
  <2>1. Missing(job[t].clip)'
    <3>1. Missing(job[t].clip) /\ job[t].clip # None
      <4>1. job[t].clip \in Clips
        BY DEF Jobs
      <4> QED BY <1>4, <4>1, ConstantsAssumption DEF Place
    <3> QED BY <1>2, <1>7, <1>8, <3>1 DEF Missing
  <2>2. Undeveloped(job[t].clip)'
    BY <1>4 DEF Place, Undeveloped
  <2> QED BY <1>2, <1>3, <1>7, <2>1, <2>2 DEF Place, Filling
<1>13. ASSUME NEW u \in Threads \ {t} PROVE Place(u)'
  BY <1>3 DEF Place, Filling
<1> QED BY <1>9, <1>11, <1>12, <1>13 DEF ListSound

(* stripes_new_correction, the two ways in which it adds a node. *)
LEMMA AppendedSound ==
  ASSUME TypeOK, ListSound, ~ListRace, NEW t \in Threads, job[t] \in Jobs,
         AppendHead(t) \/ (Link(t) /\ ptr[t] \in 1..Len(node))
  PROVE  ListSound'
<1>1. /\ Len(node) \in Nat
      /\ \A n \in 1..Len(node) : node[n] \in Correction(Len(node))
      /\ node \in Seq(Correction(Len(node)))
      /\ node \in [1..Len(node) -> Correction(Len(node))]
  BY ListIs, LenProperties
<1>2. Place(t)
  BY DEF ListSound
<1>3. node \in Seq(Correction(Len(node) + 1))
  <2>1. \A c \in Correction(Len(node)) : c \in Correction(Len(node) + 1)
    BY <1>1 DEF Correction, Garbage
  <2>2. node \in [1..Len(node) -> Correction(Len(node) + 1)]
    BY <1>1, <2>1
  <2> QED BY <1>1, <2>2, SeqDef
<1>4. CASE AppendHead(t)
  <2>1. /\ pc[t] = "append" /\ head = NULL /\ node' = Append(node, FreshNode)
        /\ head' = Len(node) + 1 /\ ptr' = [ptr EXCEPT ![t] = Len(node) + 1]
        /\ pc' = [pc EXCEPT ![t] = "name"] /\ job' = job /\ developed' = developed
    BY <1>4 DEF AppendHead, At, Goto
  <2>2. Len(node) = 0
    BY <2>1 DEF ListSound, Ordered, NULL
  <2>3. node \in Seq(Correction(Len(node) + 1)) /\ head' = 1
    BY <1>3, <2>1, <2>2
  <2>4. \A n \in 1..Len(node) : FALSE
    BY <2>2
  <2> QED BY <2>1, <2>2, <2>3, <2>4, NodeAppended
<1>5. CASE Link(t) /\ ptr[t] \in 1..Len(node)
  <2>1. /\ pc[t] = "link" /\ job' = job /\ developed' = developed /\ head' = head
        /\ node' = Append([node EXCEPT ![ptr[t]].next = Len(node) + 1], FreshNode)
        /\ pc' = [pc EXCEPT ![t] = "name"] /\ ptr' = [ptr EXCEPT ![t] = Len(node) + 1]
    BY <1>5 DEF Link, At, Goto
  <2>2. ptr[t] = Len(node) /\ \A n \in 1..Len(node) : Whole(n)
    BY <1>2, <2>1 DEF Place, Filling
  <2> DEFINE r == [node[Len(node)] EXCEPT !.next = Len(node) + 1]
             s == [node EXCEPT ![Len(node)] = r]
  <2>3. Len(node) \in 1..Len(node) /\ node[Len(node)] \in Correction(Len(node))
    BY <1>1, <1>5, <2>2
  <2>4. /\ r \in Correction(Len(node) + 1)
        /\ r.clip = node[Len(node)].clip /\ r.from = node[Len(node)].from
        /\ r.needed = node[Len(node)].needed /\ r.next = Len(node) + 1
    <3>1. Len(node) + 1 \in Garbage..Len(node) + 1 /\ Len(node) + 1 \in Nat
      BY <1>1 DEF Garbage
    <3>2. /\ r \in Correction(Len(node) + 1)
          /\ r.clip = node[Len(node)].clip /\ r.from = node[Len(node)].from
      BY <1>1, <2>3, <3>1, FieldsLinked
    <3>3. r.needed = node[Len(node)].needed /\ r.next = Len(node) + 1
      BY <2>3 DEF Correction
    <3> QED BY <3>2, <3>3
  <2>5. /\ s \in Seq(Correction(Len(node) + 1)) /\ Len(s) = Len(node)
        /\ s[Len(node)] = r
        /\ \A j \in 1..Len(node) : j # Len(node) => s[j] = node[j]
    <3> HIDE DEF r
    <3> QED BY <2>3, <2>4, <1>3, EntryChanged
  <2>6. node' = Append(s, FreshNode)
    BY <1>1, <2>1, <2>2, <2>3
  <2>7. ASSUME NEW n \in 1..Len(node)
        PROVE  /\ s[n].clip = node[n].clip /\ s[n].from = node[n].from
               /\ s[n].needed = node[n].needed /\ s[n].next = n + 1
    <3>1. CASE n = Len(node)
      BY <2>4, <2>5, <3>1
    <3>2. CASE n # Len(node)
      BY <2>2, <2>5, <3>2 DEF Whole
    <3> QED BY <3>1, <3>2
  <2>8. head' = 1
    BY <1>1, <2>1, <2>3 DEF ListSound, Ordered
  <2> HIDE DEF s, r
  <2> QED BY <2>1, <2>5, <2>6, <2>7, <2>8, NodeAppended
<1> QED BY <1>4, <1>5

-----------------------------------------------------------------------------
(* The steps that fill in the last node.                                   *)

(* While a node is filled in, the frames developed have other nodes. *)
LEMMA ExplainedBefore ==
  ASSUME TypeOK, ListSound, NEW t \in Threads, pc[t] \in Filling, job[t] \in Jobs,
         ptr[t] \in 1..Len(node), NEW d \in developed
  PROVE  \E n \in 1..Len(node) : n # Len(node) /\ Whole(n) /\ node[n].clip = d.job.clip
                                 /\ d.by = Factors(n)
<1>1. Explained(d) /\ Place(t)
  BY DEF ListSound
<1>2. d.job.clip # job[t].clip /\ ptr[t] = Len(node)
  BY <1>1 DEF Place, Undeveloped
<1>3. job[t].clip # None
  BY ConstantsAssumption DEF Jobs
<1>4. ~Broken
  BY <1>1, <1>3 DEF Broken, Place, Filling
<1>5. PICK n \in 1..Len(node) : Whole(n) /\ node[n].clip = d.job.clip /\ d.by = Factors(n)
  BY <1>1, <1>4 DEF Explained, Failed
<1>6. n # Len(node)
  BY <1>1, <1>2, <1>5 DEF Place, Filling, Whole
<1> QED BY <1>5, <1>6

(* The last node is written by its thread, which goes on with it or without *)
(* any.                                                                    *)
LEMMA LastRewritten ==
  ASSUME TypeOK, ListSound, ~ListRace, NEW t \in Threads, pc[t] \in Filling, job[t] \in Jobs,
         ptr[t] \in 1..Len(node),
         NEW r \in Correction(Len(node)), NEW l \in {"init", "compute", "apply"},
         NEW q \in {ptr[t], NULL},
         node' = [node EXCEPT ![ptr[t]] = r],
         pc' = [pc EXCEPT ![t] = l], ptr' = [ptr EXCEPT ![t] = q],
         head' = head, job' = job, developed' = developed,
         \/ l = "init" /\ q = ptr[t] /\ r.clip = job[t].clip
         \/ l = "compute" /\ q = ptr[t] /\ r.clip = job[t].clip /\ r.next = NULL
         \/ l = "apply" /\ q = ptr[t] /\ r.clip = job[t].clip /\ r.next = NULL
            /\ r.needed # None /\ r.from = job[t]
         \/ l = "apply" /\ q = NULL /\ r.clip = None /\ pc[t] = "name"
  PROVE  ListSound'
<1> DEFINE m == Len(node)
<1>1. /\ Len(node) \in Nat /\ ptr \in [Threads -> 0..Len(node)]
      /\ pc \in [Threads -> {"idle", "get", "append", "link", "name", "init", "compute", "apply"}]
      /\ node \in Seq(Correction(Len(node)))
  BY ListIs
<1>2. Place(t)
  BY DEF ListSound
<1>3. ptr[t] = m /\ m \in 1..m
  BY <1>2 DEF Place
<1>4. /\ Len(node') = m
      /\ node'[m] = r
      /\ \A j \in 1..m : j # m => node'[j] = node[j]
  BY <1>1, <1>3, EntryChanged
<1>5. /\ pc'[t] = l /\ ptr'[t] = q
      /\ \A u \in Threads \ {t} : pc'[u] = pc[u] /\ pc[u] \in {"idle", "get"}
  BY <1>1, Alone DEF InList
<1>6. job[t] # None /\ job[t].clip # None
  BY ConstantsAssumption DEF Jobs
<1>7. ASSUME NEW n \in 1..m, n # m, Whole(n) PROVE Whole(n)'
  BY <1>4, <1>7 DEF Whole
<1>8. ASSUME NEW n \in 1..m, n # m PROVE Whole(n) /\ node[n].clip # r.clip
  <2>1. Whole(n)
    BY <1>8 DEF ListSound, Ordered
  <2>2. CASE pc[t] = "name"
    <3>1. Missing(job[t].clip)
      BY <1>2, <2>2 DEF Place
    <3> QED BY <2>1, <3>1 DEF Missing, Whole
  <2>3. CASE pc[t] \in {"init", "compute"}
    <3>1. node[m].clip = r.clip
      BY <1>2, <2>3 DEF Place
    <3> QED BY <1>3, <1>8, <2>1, <3>1 DEF ListSound, Ordered
  <2> QED BY <2>1, <2>2, <2>3 DEF Filling
<1>9. (l = "apply" /\ q # NULL) => Whole(m)'
  BY <1>3, <1>4, <1>6 DEF Whole, NULL
<1>10. Ordered'
  <2>1. head' = IF Len(node') = 0 THEN NULL ELSE 1
    BY <1>4 DEF ListSound, Ordered
  <2>2. ASSUME NEW n \in 1..m
        PROVE  \/ Whole(n)'
               \/ n = m /\ node'[n].clip = None
               \/ n = m /\ \E u \in Threads : pc'[u] \in {"init", "compute"}
    <3>1. CASE n = m
      <4>1. ptr[t] # NULL
        BY <1>3 DEF NULL
      <4> QED BY <1>4, <1>5, <1>9, <3>1, <4>1
    <3>2. CASE n # m
      BY <1>7, <1>8, <3>2
    <3> QED BY <3>1, <3>2
  <2>3. ASSUME NEW n \in 1..m, NEW k \in 1..m, node'[n].clip = node'[k].clip
        PROVE  n = k
    <3>1. CASE n # m /\ k # m
      BY <1>4, <2>3, <3>1 DEF ListSound, Ordered
    <3>2. CASE n = m \/ k = m
      BY <1>4, <1>8, <2>3, <3>2
    <3> QED BY <3>1, <3>2
  <2> QED BY <1>4, <2>1, <2>2, <2>3 DEF Ordered
<1>11. ASSUME NEW d \in developed PROVE Explained(d)'
  <2>1. PICK n \in 1..m : n # m /\ Whole(n) /\ node[n].clip = d.job.clip /\ d.by = Factors(n)
    BY ExplainedBefore
  <2>2. node'[n] = node[n] /\ Whole(n)'
    BY <1>4, <1>7, <2>1
  <2>3. Factors(n)' = Factors(n)
    BY <2>2 DEF Factors
  <2> QED BY <1>4, <2>1, <2>2, <2>3 DEF Explained
<1>12. Undeveloped(job[t].clip)'
  BY <1>2 DEF Place, Undeveloped
<1>13. l = "apply" /\ q = NULL => Failed(job[t].clip)'
  <2> SUFFICES ASSUME l = "apply", q = NULL PROVE Failed(job[t].clip)'
    OBVIOUS
  <2>1. ptr[t] # NULL
    BY <1>3 DEF NULL
  <2>2. r.clip = None /\ pc[t] = "name"
    BY <2>1
  <2>3. Broken'
    BY <1>3, <1>4, <1>5, <2>2 DEF Broken
  <2>4. Missing(job[t].clip)
    BY <1>2, <2>2 DEF Place
  <2>5. Missing(job[t].clip)'
    BY <1>4, <1>6, <2>2, <2>4 DEF Missing
  <2> QED BY <2>3, <2>5 DEF Failed
<1>14. Place(t)'
  <2>1. CASE l # "apply"
    BY <1>3, <1>4, <1>5, <1>12, <2>1 DEF Place, Filling
  <2>2. CASE l = "apply" /\ q = NULL
    BY <1>5, <1>13, <2>2 DEF Place, Filling
  <2>3. CASE l = "apply" /\ q # NULL
    BY <1>3, <1>4, <1>5, <1>9, <2>3 DEF Place, Filling
  <2> QED BY <2>1, <2>2, <2>3
<1>15. ASSUME NEW u \in Threads \ {t} PROVE Place(u)'
  BY <1>5 DEF Place, Filling
<1> QED BY <1>10, <1>11, <1>14, <1>15 DEF ListSound

(* Name, NameFails, Initialise and Compute. *)
LEMMA FilledSound ==
  ASSUME TypeOK, ListSound, ~ListRace, NEW t \in Threads, job[t] \in Jobs,
         ptr[t] \in 1..Len(node),
         Name(t) \/ NameFails(t) \/ Initialise(t) \/ Compute(t)
  PROVE  ListSound'
<1>1. /\ Len(node) \in Nat /\ ptr \in [Threads -> 0..Len(node)]
      /\ node \in [1..Len(node) -> Correction(Len(node))]
      /\ node[ptr[t]] \in Correction(Len(node))
  BY ListIs, LenProperties
<1>2. Place(t)
  BY DEF ListSound
<1>3. job[t].clip \in Clips
  BY DEF Jobs
<1>4. ptr' = ptr => ptr' = [ptr EXCEPT ![t] = ptr[t]]
  BY <1>1
<1>5. CASE Name(t)
  <2> DEFINE r == [node[ptr[t]] EXCEPT !.clip = job[t].clip]
  <2>1. /\ pc[t] = "name" /\ pc' = [pc EXCEPT ![t] = "init"] /\ ptr' = ptr
        /\ head' = head /\ job' = job /\ developed' = developed
    BY <1>5 DEF Name, At, Goto
  <2>2. node' = [node EXCEPT ![ptr[t]] = r]
    BY <1>1, <1>5 DEF Name
  <2>3. r \in Correction(Len(node)) /\ r.clip = job[t].clip
    BY <1>1, <1>3 DEF Correction
  <2> HIDE DEF r
  <2> QED BY <1>4, <2>1, <2>2, <2>3, LastRewritten DEF Filling
<1>6. CASE NameFails(t)
  <2>1. /\ pc[t] = "name" /\ pc' = [pc EXCEPT ![t] = "apply"] /\ ptr' = [ptr EXCEPT ![t] = NULL]
        /\ head' = head /\ job' = job /\ developed' = developed
        /\ node' = [node EXCEPT ![ptr[t]] = FreshNode]
    BY <1>6 DEF NameFails, At, Goto
  <2>2. FreshNode \in Correction(Len(node)) /\ FreshNode.clip = None
    BY <1>1 DEF FreshNode, Correction, Needed, Garbage
  <2> QED BY <2>1, <2>2, LastRewritten DEF Filling
<1>7. CASE Initialise(t)
  <2> DEFINE r == [node[ptr[t]] EXCEPT !.needed = FALSE, !.next = NULL]
  <2>1. /\ pc[t] = "init" /\ pc' = [pc EXCEPT ![t] = "compute"] /\ ptr' = ptr
        /\ head' = head /\ job' = job /\ developed' = developed
    BY <1>7 DEF Initialise, At, Goto
  <2>2. node' = [node EXCEPT ![ptr[t]] = r]
    BY <1>1, <1>7 DEF Initialise
  <2>3. FALSE \in Needed /\ NULL \in Garbage..Len(node)
    BY <1>1 DEF Needed, NULL, Garbage
  <2>4. r \in Correction(Len(node)) /\ r.clip = node[ptr[t]].clip /\ r.next = NULL
    BY <1>1, <2>3 DEF Correction
  <2>5. node[ptr[t]].clip = job[t].clip
    BY <1>2, <2>1 DEF Place, Filling
  <2> HIDE DEF r
  <2> QED BY <1>4, <2>1, <2>2, <2>4, <2>5, LastRewritten DEF Filling
<1>8. CASE Compute(t)
  <2>1. /\ pc[t] = "compute" /\ pc' = [pc EXCEPT ![t] = "apply"] /\ ptr' = ptr
        /\ head' = head /\ job' = job /\ developed' = developed
    BY <1>8 DEF Compute, At, Goto
  <2>2. PICK needed \in BOOLEAN :
          node' = [node EXCEPT ![ptr[t]].needed = needed, ![ptr[t]].from = job[t]]
    BY <1>8 DEF Compute
  <2>3. PICK v \in Needed : v = needed /\ v # None
    <3>1. needed \in Needed
      BY DEF Needed
    <3>2. needed # None
      BY ConstantsAssumption
    <3> QED BY <3>1, <3>2
  <2> DEFINE r == [node[ptr[t]] EXCEPT !.needed = v, !.from = job[t]]
  <2>4. node' = [node EXCEPT ![ptr[t]] = r]
    BY <1>1, <2>2, <2>3
  <2>5. /\ r \in Correction(Len(node)) /\ r.clip = node[ptr[t]].clip
        /\ r.next = node[ptr[t]].next /\ r.needed = v /\ r.from = job[t]
    BY <1>1 DEF Correction
  <2>6. node[ptr[t]].clip = job[t].clip /\ node[ptr[t]].next = NULL
    BY <1>2, <2>1 DEF Place, Filling
  <2> HIDE DEF r
  <2> QED BY <1>4, <2>1, <2>3, <2>4, <2>5, <2>6, LastRewritten DEF Filling
<1> QED BY <1>5, <1>6, <1>7, <1>8

-----------------------------------------------------------------------------
(* A frame is corrected.                                                   *)

(* What Apply corrects a frame with explains it. *)
LEMMA AppliedExplained ==
  ASSUME TypeOK, ListSound, ~ListRace, NEW t \in Threads, Apply(t), job[t] \in Jobs
  PROVE  ListSound' /\ \A d \in developed' : Explained(d)
<1>1. /\ Len(node) \in Nat /\ ptr \in [Threads -> 0..Len(node)]
      /\ pc \in [Threads -> {"idle", "get", "append", "link", "name", "init", "compute", "apply"}]
      /\ job \in [Threads -> Jobs \cup {None}]
  BY ListIs
<1>2. PICK needed \in BOOLEAN, by \in Jobs \cup {None} :
        /\ ptr[t] = NULL => ~needed
        /\ (ptr[t] # NULL /\ node[ptr[t]].needed # None) => needed = node[ptr[t]].needed
        /\ by = IF needed /\ job[t].clip \notin OddClips THEN node[ptr[t]].from ELSE None
        /\ developed' = developed \cup {[job |-> job[t], by |-> by]}
  BY DEF Apply
<1>3. /\ pc[t] = "apply" /\ pc' = [pc EXCEPT ![t] = "idle"]
      /\ job' = [job EXCEPT ![t] = None] /\ ptr' = [ptr EXCEPT ![t] = NULL]
      /\ head' = head /\ node' = node
  BY DEF Apply, At, Goto
<1>4. /\ pc'[t] = "idle"
      /\ \A u \in Threads \ {t} : pc'[u] = pc[u] /\ job'[u] = job[u] /\ ptr'[u] = ptr[u]
  BY <1>1, <1>3
<1>5. \A u \in Threads : pc[u] \notin {"append", "link"} \cup Filling
  BY <1>3, Alone DEF InList, Filling
<1>6. Place(t)
  BY DEF ListSound
<1> DEFINE new == [job |-> job[t], by |-> by]
<1>7. Explained(new)
  <2>1. CASE ptr[t] = NULL
    <3>1. Failed(job[t].clip)
      BY <1>3, <1>6, <2>1 DEF Place
    <3>2. by = None
      BY <1>2, <2>1
    <3> QED BY <3>1, <3>2 DEF Explained
  <2>2. CASE ptr[t] # NULL
    <3>1. ptr[t] \in 1..Len(node) /\ Whole(ptr[t]) /\ node[ptr[t]].clip = job[t].clip
      BY <1>3, <1>6, <2>2 DEF Place
    <3>2. needed = node[ptr[t]].needed
      BY <1>2, <2>2, <3>1 DEF Whole
    <3>3. by = Factors(ptr[t])
      BY <1>2, <3>1, <3>2, Zenon DEF Factors
    <3> QED BY <3>1, <3>3 DEF Explained
  <2> QED BY <2>1, <2>2
<1>8. \A d \in developed' : Explained(d)
  <2>1. \A d \in developed : Explained(d)
    BY DEF ListSound
  <2> HIDE DEF new
  <2>2. developed' = developed \cup {new}
    BY <1>2 DEF new
  <2> QED BY <1>7, <2>1, <2>2
<1>9. Broken' = Broken
  <2>1. (\A u \in Threads : pc'[u] # "name") /\ (\A u \in Threads : pc[u] # "name")
    BY <1>4, <1>5 DEF Filling
  <2> QED BY <1>3, <2>1 DEF Broken
<1>10. \A n \in 1..Len(node) : (Whole(n)' <=> Whole(n)) /\ Factors(n)' = Factors(n)
  BY <1>3 DEF Whole, Factors
<1>11. \A c : Failed(c)' <=> Failed(c)
  BY <1>3, <1>9 DEF Failed, Missing
<1>12. ASSUME NEW d \in developed' PROVE Explained(d)'
  <2>1. Explained(d)
    BY <1>8
  <2> QED BY <1>3, <1>10, <1>11, <2>1 DEF Explained
<1>13. Ordered'
  BY <1>3, <1>5, <1>10 DEF ListSound, Ordered, Filling
<1>14. ASSUME NEW u \in Threads PROVE Place(u)'
  <2>1. CASE u = t
    BY <1>4, <2>1 DEF Place, Filling
  <2>2. CASE u # t
    <3>1. Place(u) /\ pc'[u] = pc[u] /\ pc[u] \notin {"append", "link"} \cup Filling
          /\ job'[u] = job[u] /\ ptr'[u] = ptr[u]
      BY <1>4, <1>5, <2>2 DEF ListSound
    <3> QED BY <1>3, <1>10, <1>11, <3>1 DEF Place, Filling
  <2> QED BY <2>1, <2>2
<1> QED BY <1>8, <1>12, <1>13, <1>14 DEF ListSound

(* A frame reaches the stripes. *)
LEMMA BegunSound ==
  ASSUME TypeOK, ListSound, NEW t \in Threads, NEW c, NEW f, Begin(t, c, f)
  PROVE  ListSound'
<1>1. /\ pc \in [Threads -> {"idle", "get", "append", "link", "name", "init", "compute", "apply"}]
      /\ job \in [Threads -> Jobs \cup {None}]
  BY ListIs
<1>2. /\ pc[t] = "idle" /\ pc' = [pc EXCEPT ![t] = "get"]
      /\ node' = node /\ head' = head /\ developed' = developed /\ ptr' = ptr
      /\ \A u \in Threads \ {t} : job'[u] = job[u]
  BY <1>1 DEF Begin, At, Goto
<1>3. pc'[t] = "get"
  BY <1>1, <1>2
<1>4. Place(t)'
  BY <1>3 DEF Place, Filling
<1> QED BY <1>1, <1>2, <1>4, ListKept DEF Filling

(* Every step within stripes.c. *)
LEMMA DevelopSound ==
  ASSUME TypeOK, CorrectionInv, ~ListRace, ~undefined, Sound,
         NEW t \in Threads, Develop(t), job[t] \in Jobs
  PROVE  CorrectionInv'
<1>1. ListSound /\ OneCorrection
  BY DEF CorrectionInv
<1>2. ASSUME developed' = developed PROVE OneCorrection'
  BY <1>1, <1>2 DEF OneCorrection
<1>3. CASE GetFound(t)
  <2>1. developed' = developed
    BY <1>3 DEF GetFound
  <2> QED BY <1>1, <1>2, <1>3, <2>1, FoundWhole DEF CorrectionInv
<1>4. CASE GetMissing(t)
  <2>1. developed' = developed
    BY <1>4 DEF GetMissing
  <2> QED BY <1>1, <1>2, <1>4, <2>1, MissedUndeveloped DEF CorrectionInv
<1>5. CASE WalkGarbage(t)
  <2>1. developed' = developed /\ undefined'
    BY <1>5 DEF WalkGarbage
  <2> QED BY <1>2, <2>1 DEF CorrectionInv
<1>6. CASE FindTail(t)
  <2>1. developed' = developed
    BY <1>6 DEF FindTail
  <2> QED BY <1>1, <1>2, <1>6, <2>1, TailFound DEF CorrectionInv
<1>7. CASE AppendHead(t) \/ Link(t)
  <2>1. developed' = developed
    BY <1>7 DEF AppendHead, Link
  <2>2. Link(t) => ptr[t] \in 1..Len(node)
    BY DEF Link, At, Sound
  <2> QED BY <1>1, <1>2, <1>7, <2>1, <2>2, AppendedSound DEF CorrectionInv
<1>8. CASE Name(t) \/ NameFails(t) \/ Initialise(t) \/ Compute(t)
  <2>1. developed' = developed
    BY <1>8 DEF Name, NameFails, Initialise, Compute
  <2>2. ptr[t] \in 1..Len(node)
    BY <1>8 DEF Name, NameFails, Initialise, Compute, At, Sound
  <2> QED BY <1>1, <1>2, <1>8, <2>1, <2>2, FilledSound DEF CorrectionInv
<1>9. CASE Apply(t)
  <2>1. ListSound' /\ \A d \in developed' : Explained(d)
    BY <1>1, <1>9, AppliedExplained
  <2>2. OneCorrection'
    BY <1>1, <2>1, ExplainedOnce DEF OneCorrection, ListSound
  <2> QED BY <2>1, <2>2 DEF CorrectionInv
<1> QED BY <1>3, <1>4, <1>5, <1>6, <1>7, <1>8, <1>9 DEF Develop

(* A step that has nothing to do with the stripes. *)
LEMMA CorrectionStill ==
  ASSUME CorrectionInv, UNCHANGED vars
  PROVE  CorrectionInv'
<1>1. /\ head' = head /\ node' = node /\ pc' = pc /\ job' = job /\ ptr' = ptr
      /\ developed' = developed /\ undefined' = undefined
  BY DEF vars
<1>2. OneCorrection'
  BY <1>1 DEF CorrectionInv, OneCorrection
<1>3. CASE ListRace
  BY <1>1, <1>2, <1>3 DEF CorrectionInv, ListRace, InList
<1>4. CASE undefined
  <2>1. undefined'
    BY <1>1, <1>4, Zenon
  <2> QED BY <1>2, <2>1 DEF CorrectionInv
<1>5. CASE ListSound
  <2>1. Ordered'
    BY <1>1, <1>5 DEF ListSound, Ordered, Whole
  <2>2. ASSUME NEW t \in Threads PROVE Place(t)'
    BY <1>1, <1>5 DEF ListSound, Place, Whole, Missing, Undeveloped, Failed, Broken
  <2>3. ASSUME NEW d \in developed' PROVE Explained(d)'
    <3>1. Explained(d)
      BY <1>1, <1>5 DEF ListSound
    <3>2. \A n \in 1..Len(node) : (Whole(n)' <=> Whole(n)) /\ Factors(n)' = Factors(n)
      BY <1>1 DEF Whole, Factors
    <3>3. \A c : Failed(c)' <=> Failed(c)
      BY <1>1 DEF Failed, Missing, Broken
    <3> QED BY <1>1, <3>1, <3>2, <3>3 DEF Explained
  <2> QED BY <1>2, <2>1, <2>2, <2>3 DEF CorrectionInv, ListSound
<1> QED BY <1>3, <1>4, <1>5 DEF CorrectionInv

(* Every step of the program keeps all frames of a clip with one           *)
(* correction.                                                             *)
LEMMA CorrectionNext ==
  FrameInd /\ CorrectionInv /\ [FrameNext]_frameVars => CorrectionInv'
<1> SUFFICES ASSUME FrameInd, CorrectionInv, [FrameNext]_frameVars PROVE CorrectionInv'
  OBVIOUS
<1>1. TypeOK /\ JobInv /\ WorkInv /\ (~Stopped => Sound)
  BY DEF FrameInd, SharedInv, StripesInv, TableInv
<1>2. CASE UNCHANGED frameVars
  BY <1>2, CorrectionStill DEF frameVars
<1>3. CASE Over
  BY <1>2, <1>3 DEF Over
<1>4. CASE SetValue \/ WriteOption
  BY <1>4, CorrectionStill DEF SetValue, WriteOption
<1>5. ASSUME NEW t \in Threads, NEW c \in Clips, NEW f \in Frames, BeginFrame(t, c, f)
      PROVE  CorrectionInv'
  BY <1>5, BeginElsewhere, CorrectionStill DEF Elsewhere
<1>6. ASSUME ~Stopped PROVE ~ListRace /\ ~undefined /\ ListSound
  <2>1. ~ListRace
    BY <1>1, <1>6, StripesRace DEF ListRace, InList, Filling
  <2>2. ~undefined
    BY <1>6 DEF Stopped
  <2> QED BY <2>1, <2>2 DEF CorrectionInv
<1>7. ASSUME ~Stopped, NEW t \in Threads, process_frame(t)
      PROVE  CorrectionInv'
  <2>1. CASE Elsewhere(t)
    BY <2>1, CorrectionStill DEF Elsewhere
  <2>2. CASE \/ FindFocusMap(t) \/ LoadFocusMap(t) \/ RepairFocusPixels(t)
             \/ FindBadMap(t) \/ FillBadMap(t) \/ RepairBadPixels(t)
    <3>1. UNCHANGED vars
      BY <2>2 DEF FindFocusMap, LoadFocusMap, RepairFocusPixels, FindBadMap, FillBadMap,
         RepairBadPixels, OnlyMaps
    <3> QED BY <3>1, CorrectionStill
  <2>3. CASE FixStripes(t)
    <3>1. PICK c, f : Begin(t, c, f)
      BY <2>3 DEF FixStripes
    <3>2. ListSound'
      BY <1>1, <1>6, <1>7, <3>1, BegunSound
    <3>3. developed' = developed
      BY <3>1 DEF Begin
    <3> QED BY <3>2, <3>3 DEF CorrectionInv, OneCorrection
  <2>4. CASE CorrectStripes(t)
    <3>1. Develop(t) /\ Stage(t) = "in stripes"
      BY <2>4 DEF CorrectStripes, Is
    <3>2. pc[t] # "idle"
      BY <1>1, <3>1, DevelopOne
    <3>3. job[t] \in Jobs
      <4>1. work[t].job \in Jobs
        BY <1>1, <3>1, JobOf
      <4> QED BY <1>1, <3>2, <4>1 DEF JobInv
    <3> QED BY <1>1, <1>6, <1>7, <3>1, <3>3, DevelopSound
  <2> QED BY <1>1, <1>7, <2>1, <2>2, <2>3, <2>4, OthersElsewhere
<1> QED BY <1>2, <1>3, <1>4, <1>5, <1>7 DEF FrameNext

(* "Correction factors are computed from the first frame only": all frames *)
(* of a clip are developed with one correction, that of their own clip,    *)
(* until two threads race in the list, where the model stops.              *)
THEOREM AlwaysOneCorrection == FrameSpec => []OneCorrection
<1>1. FrameInit => CorrectionInv
  <2> SUFFICES ASSUME FrameInit PROVE CorrectionInv
    OBVIOUS
  <2>1. /\ head = NULL /\ node = <<>> /\ developed = {}
        /\ \A t \in Threads : pc[t] = "idle"
    BY DEF FrameInit, Init
  <2>2. Len(node) = 0
    BY <2>1
  <2>3. Ordered
    BY <2>1, <2>2 DEF Ordered
  <2>4. \A t \in Threads : Place(t)
    BY <2>1 DEF Place, Filling
  <2>5. OneCorrection
    BY <2>1 DEF OneCorrection
  <2> QED BY <2>1, <2>3, <2>4, <2>5 DEF CorrectionInv, ListSound
<1>2. CorrectionInv => OneCorrection
  BY DEF CorrectionInv
<1> QED BY <1>1, <1>2, CorrectionNext, FrameIndInit, FrameIndNext, PTL DEF FrameSpec

=============================================================================
