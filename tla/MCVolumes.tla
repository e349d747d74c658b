----------------------------- MODULE MCVolumes -----------------------------
(***************************************************************************)
(* Two tasks on one pool, in several configurations.  The disk i1 presents *)
(* is larger than its file, that of i2 smaller.                            *)
(***************************************************************************)
EXTENDS Volumes, TLC

CONSTANTS t1, t2, i1, i2, s1

Empty   == [image |-> None, volume |-> None, chained |-> FALSE, size |-> 2]
Overlay == [Empty EXCEPT !.image = i1, !.chained = TRUE]
Image   == [Empty EXCEPT !.image = i2]
Clone   == [Empty EXCEPT !.volume = s1]
Tight   == [Empty EXCEPT !.image = i1, !.size = 1]
Chained == [Clone EXCEPT !.chained = TRUE]
Small   == [Clone EXCEPT !.size = 1]
Padded  == [Overlay EXCEPT !.image = i2]
Exact   == [Padded EXCEPT !.size = 1]

\* Two tasks chained to one image; one that cannot shrink what it uploaded;
\* one on top of a shared volume beside one that is refused; one that fits the
\* parent volume of another for a moment only.
MCJobs == {
  t1 :> <<Overlay, Image>>   @@ t2 :> <<Overlay, Clone>>,
  t1 :> <<Overlay>>          @@ t2 :> <<Overlay, Tight>>,
  t1 :> <<Chained, Overlay>> @@ t2 :> <<Image, Small>>,
  t1 :> <<Chained, Image>>   @@ t2 :> <<Empty, Overlay>>,
  t1 :> <<Padded>>           @@ t2 :> <<Exact>> }

MCVirtualSize == i1 :> 2 @@ i2 :> 1 @@ s1 :> 2
MCFileSize == i1 :> 1 @@ i2 :> 2
=============================================================================
