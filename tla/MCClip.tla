------------------------------- MODULE MCClip -------------------------------
(* Small recordings: a first chunk that begins as the camera               *)
(* writes it, and a second one of this or of another recording.            *)
EXTENDS FrameReads

B(type, time, size, stored) == [type |-> type, time |-> time, size |-> size, stored |-> stored]

Whole == {B("RAWI", 1, 12, 0), B("VIDF", 1, 0, 0), B("VIDF", 2, 0, 0), B("RAWI", 2, 10, 0),
          B("AUDF", 1, 2, 2), B("AUDF", 2, 1, 1)}

(* Only the last thing in a file: sound broken off, in its bytes or in its *)
(* header.                                                                 *)
Ends == {B("NULL", 1, 0, 0), B("bad", 0, 0, 0), B("AUDF", 1, 2, 1), B("AUDF", 1, 2, 0)}

UpTo(len) == UNION {[1..k -> Whole] : k \in 0..len}
Tails == UpTo(2) \cup {Append(s, e) : s \in UpTo(1), e \in Ends}

Starts == {<<B("MLVI", 0, 0, 0), B("WAVI", 0, 0, 0)>>,
           <<B("MLVI", 0, 0, 0), B("RAWI", 0, 14, 0)>>}

MCRecordings ==
  {<<s \o t>> : s \in Starts, t \in Tails \cup [1..3 -> Whole]} \cup
  {<<s \o t, <<B(m, 3, 0, 0)>> \o u>> : s \in Starts, t \in Tails, u \in Tails, m \in {"MLVI", "foreign"}}

(* Two rounds of sub blocks, and the end of the fifth. *)
MCPreviewSizes == 0..10 \cup {19, 20, 21}

(* Any numbers that differ from place to place and from pixel to pixel. *)
MCSample(place, pixel) == place[1] * 5003 + place[2] * 1237 + pixel * 2741
=============================================================================
