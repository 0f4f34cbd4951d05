------------------------------ MODULE FrameQueue ------------------------------
(***************************************************************************)
(* What the receiving side of the network card promises to the network     *)
(* code: the frames it accepted come out in the order they came in, each   *)
(* once and whole, and an acceptable one comes out in the end, unless a    *)
(* frame the driver does not accept came in before it and stays in its way.*)
(***************************************************************************)
EXTENDS Naturals, Sequences

CONSTANTS
    Frames,             \* what may come in
    Acceptable(_)       \* is this one the driver takes

VARIABLES
    accepted,           \* the frames that came in, first to last
    delivered           \* the frames that came out

QueueTypeOK == accepted \in Seq(Frames) /\ delivered \in Seq(Frames)

Init == accepted = <<>> /\ delivered = <<>>

Accept(frame) ==
    /\ accepted' = Append(accepted, frame)
    /\ UNCHANGED delivered

Deliver ==
    /\ Len(delivered) < Len(accepted)
    /\ LET frame == accepted[Len(delivered) + 1]
       IN  Acceptable(frame) /\ delivered' = Append(delivered, frame)
    /\ UNCHANGED accepted

Next == Deliver \/ \E frame \in Frames : Accept(frame)

Spec == Init /\ [][Next]_<<accepted, delivered>>
FairSpec == Spec /\ WF_<<accepted, delivered>>(Deliver)
=============================================================================
