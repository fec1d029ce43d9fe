------------------------------- MODULE Drives -------------------------------
(***************************************************************************)
(* What the disk drives promise, with no threads, no locks and no pointers *)
(* in sight.  A drive is empty or holds one image, and an image is in one  *)
(* drive at most.  The Atari has one conversation at a time; until it ends *)
(* no image enters, leaves or moves.  Images get unsaved changes only while *)
(* they are in a drive: from the Atari in a conversation with that drive,  *)
(* or from an editor while there is none.                                  *)
(*                                                                         *)
(* Module SioDevices implements this one.                                  *)
(***************************************************************************)
CONSTANTS Slots,   \* the drives
          Images,  \* the disk images
          Empty,   \* no image in the drive
          Nobody   \* no drive in conversation

VARIABLES drive,   \* the image in each drive
          unsaved, \* the images with unsaved changes
          busy     \* the drive in conversation with the Atari

vars == <<drive, unsaved, busy>>

Init ==
  /\ drive = [s \in Slots |-> Empty]
  /\ unsaved = {}
  /\ busy = Nobody

Quiet == busy = Nobody /\ UNCHANGED busy

Begin(s) ==
  /\ busy = Nobody
  /\ drive[s] # Empty
  /\ busy' = s
  /\ UNCHANGED <<drive, unsaved>>

End ==
  /\ busy # Nobody
  /\ unsaved' \in {unsaved, unsaved \cup {drive[busy]}}
  /\ busy' = Nobody
  /\ UNCHANGED drive

\* An image goes into a drive; one still in it goes, with its changes.
Insert(s, i) ==
  /\ Quiet
  /\ \A t \in Slots : drive[t] # i
  /\ drive' = [drive EXCEPT ![s] = i]
  /\ unsaved' = unsaved \ {drive[s]}

\* Drives are emptied, with the changes of their images or without.
Remove(S) ==
  /\ Quiet
  /\ drive' = [s \in Slots |-> IF s \in S THEN Empty ELSE drive[s]]
  /\ unsaved' \in {unsaved, unsaved \ {drive[s] : s \in S}}

Exchange(a, b) ==
  /\ Quiet
  /\ drive' = [drive EXCEPT ![a] = drive[b], ![b] = drive[a]]
  /\ UNCHANGED unsaved

Edit(s) ==
  /\ drive[s] # Empty /\ busy # s
  /\ unsaved' = unsaved \cup {drive[s]}
  /\ UNCHANGED <<drive, busy>>

\* Changes of the images I have been saved or given up.
Settle(I) ==
  /\ unsaved' = unsaved \ I
  /\ UNCHANGED <<drive, busy>>

Next ==
  \/ End
  \/ \E s \in Slots : Begin(s) \/ Edit(s) \/ \E i \in Images : Insert(s, i)
  \/ \E S \in SUBSET Slots : Remove(S)
  \/ \E a, b \in Slots : Exchange(a, b)
  \/ \E I \in SUBSET Images : Settle(I)

Spec == Init /\ [][Next]_vars

TypeOK ==
  /\ drive \in [Slots -> Images \cup {Empty}]
  /\ unsaved \subseteq Images \cup {Empty}
  /\ busy \in Slots \cup {Nobody}

\* No image is ever in two drives.
OneDrive == \A s, t \in Slots : drive[s] = drive[t] /\ drive[s] # Empty => s = t

\* The drive in conversation with the Atari holds an image until it ends.
InConversation == busy # Nobody => drive[busy] # Empty
=============================================================================
