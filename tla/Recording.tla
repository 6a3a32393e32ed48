----------------------------- MODULE Recording -----------------------------
(***************************************************************************)
(* What an input recording promises to the emulator that makes it: a list   *)
(* of snapshots and of runs of frames, every frame with the bytes that the  *)
(* program read from the ports, exactly as they were handed over.  How      *)
(* frames are stored, merged and written to a file does not show.           *)
(***************************************************************************)
EXTENDS Integers, Sequences, SequencesExt, Places

CONSTANTS Snaps, Frames, Tstates

VARIABLES
  log,     \* the recording: SNAP, INPUT and SIGN items
  open,    \* the run that frames are added to, 0 if none
  saved    \* what the file holds

recordingVars == <<log, open, saved>>

Snap(s) == [type |-> "SNAP", snap |-> s]
Run(t, frames) == [type |-> "INPUT", tstates |-> t, frames |-> frames]
IsSnap(item) == item.type = "SNAP"
IsRun(item) == item.type = "INPUT"

Init == log = <<>> /\ open = 0

Start == \E t \in Tstates : log' = Append(log, Run(t, <<>>)) /\ open' = Len(log')

Stop == log' = log /\ open' = 0

Store ==
  /\ open # 0
  /\ \E f \in Frames : log' = [log EXCEPT ![open].frames = Append(@, f)]
  /\ open' = open

Add == \E s \in Snaps : log' = Append(log, Snap(s)) /\ open' = 0

(* Back to the moment at which one of the snapshots was added.              *)
Rollback ==
  \E k \in 1..Len(log) :
    IsSnap(log[k]) /\ log' = SubSeq(log, 1, k) /\ open' = 0

Insert ==
  \E k \in 1..Len(log) + 1, s \in Snaps :
    log' = InsertAt(log, k, Snap(s)) /\ open' = IF open >= k THEN open + 1 ELSE open

Delete ==
  \E k \in 1..Len(log) \ {open} :
    log' = RemoveAt(log, k) /\ open' = IF open > k THEN open - 1 ELSE open

(* Only the first snapshot stays, and runs that have become neighbours are  *)
(* one run.                                                                 *)
AddFinal(acc, item) ==
  IF IsSnap(item) /\ \E i \in 1..Len(acc) : IsSnap(acc[i]) THEN acc
  ELSE IF acc # <<>> /\ IsRun(item) /\ IsRun(Last(acc))
    THEN [acc EXCEPT ![Len(acc)].frames = @ \o item.frames]
  ELSE Append(acc, item)

Finalise == log' = FoldLeft(AddFinal, <<>>, log) /\ open' = 0

Save ==
  saved' = Pick(log, {i \in 1..Len(log) : log[i].type # "SIGN"}) /\ UNCHANGED <<log, open>>

(* The file, or as much of it as could be read, behind what is there.       *)
Load == \E n \in 0..Len(saved) : log' = log \o SubSeq(saved, 1, n) /\ open' = open

Clear == log' = <<>> /\ open' = 0

Edit ==
  Start \/ Stop \/ Store \/ Add \/ Rollback \/ Insert \/ Delete \/ Finalise \/ Load \/ Clear

Next == (Edit /\ UNCHANGED saved) \/ Save

Spec == Init /\ [][Next]_recordingVars

=============================================================================
