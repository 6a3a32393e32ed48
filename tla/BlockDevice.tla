---------------------------- MODULE BlockDevice ----------------------------
(***************************************************************************)
(* What a drive with a write cache promises: a removable block device.      *)
(*                                                                         *)
(* `content` is what the machine sees of the inserted image, `saved` what   *)
(* each image holds when it is not inserted.  Writes change the content     *)
(* only; saving copies any of it to the image, also parts of a sector.      *)
(* An image may be shorter than its geometry says: a sector it does not     *)
(* hold cannot be read, and may become one when another is saved.           *)
(***************************************************************************)
EXTENDS Integers

CONSTANTS Images, NoDisk, Contents, NoReply

VARIABLES disk, content, saved, reply

deviceVars == <<disk, content, saved, reply>>

Empty == [s \in {} |-> 0]

Init ==
  /\ disk \in Images \union {NoDisk}
  /\ DOMAIN saved = Images
  /\ content = IF disk = NoDisk THEN Empty ELSE saved[disk]
  /\ reply = NoReply

Insert(image) ==
  /\ disk' = image
  /\ content' = saved[image]
  /\ reply' = NoReply
  /\ UNCHANGED saved

(* The writes that were not saved are gone.                                 *)
Eject ==
  /\ disk' = NoDisk
  /\ content' = Empty
  /\ reply' = NoReply
  /\ UNCHANGED saved

(* The same data is written to all sectors of S.                            *)
Write(S, data) ==
  /\ disk # NoDisk
  /\ content' = [s \in DOMAIN content \union S |-> IF s \in S THEN data ELSE content[s]]
  /\ reply' = NoReply
  /\ UNCHANGED <<disk, saved>>

(* Each byte of a sector that the image holds becomes the one of the        *)
(* content, or stays.  The machine notices nothing, but that the image may  *)
(* have more sectors than it had.                                           *)
Save ==
  /\ disk # NoDisk
  /\ UNCHANGED <<disk, reply>>
  /\ \A s \in DOMAIN content : s \in DOMAIN content' /\ content'[s] = content[s]
  /\ \A s \in DOMAIN content' \ DOMAIN content :
       s \in DOMAIN saved'[disk] /\ content'[s] = saved'[disk][s]
  /\ DOMAIN saved' = Images
  /\ \A i \in Images \ {disk} : saved'[i] = saved[i]
  /\ \A s \in DOMAIN saved[disk] :
       /\ s \in DOMAIN saved'[disk]
       /\ \A i \in DOMAIN saved[disk][s] :
            saved'[disk][s][i] \in {saved[disk][s][i], content[s][i]}

Read(s) ==
  /\ disk # NoDisk
  /\ reply' = content[s]
  /\ UNCHANGED <<disk, content, saved>>

(* The host took the reply, or another command replaced it.                 *)
Forget == reply' = NoReply /\ UNCHANGED <<disk, content, saved>>

(* The sectors written together are consecutive.                            *)
Next ==
  \/ Forget
  \/ \E image \in Images : Insert(image)
  \/ Eject
  \/ \E s, t \in DOMAIN content' :
       s <= t /\ content'[s] \in Contents /\ Write(s..t, content'[s])
  \/ Save
  \/ \E s \in DOMAIN content : Read(s)

Spec == Init /\ [][Next]_deviceVars

=============================================================================
