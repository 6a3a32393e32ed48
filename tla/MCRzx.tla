------------------------------- MODULE MCRzx -------------------------------
(***************************************************************************)
(* The recordings of rzx.c on small instances: one snapshot, recordings of  *)
(* up to three blocks, frames that read nothing, one byte or another.       *)
(***************************************************************************)
EXTENDS Rzx

MCByteOrNone == {<<>>, <<1>>}
MCInBytes == {<<>>, <<1>>, <<2>>}

(* A signed file of another program: a creator block, a run whose second    *)
(* frame is a repetition, and a signature.                                  *)
MCForeignFile ==
  <<[type |-> "CREATOR"],
    [type |-> "INPUT", tstates |-> 0, frames |-> <<
       [instructions |-> 1, count |-> 1, in |-> <<1>>],
       [instructions |-> 1, count |-> RepeatFrame, in |-> <<>>]>>],
    [type |-> "SIGN"]>>

(* Bound: once a file was written, the object that is read or recorded next *)
(* is small.                                                                *)
SmallAfterWrite ==
  file # ForeignFile =>
    /\ Len(blocks) + Len(file) <= 3
    /\ FrameCount(blocks) <= 2 /\ FrameCount(file) <= 2

=============================================================================
