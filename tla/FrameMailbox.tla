---------------------------- MODULE FrameMailbox ----------------------------
(***************************************************************************)
(* What the frame pipeline promises, without buffers, locks or threads: a  *)
(* mailbox with one slot for the newest published picture.  A publication  *)
(* overwrites an untaken one and brings a notification; a notification     *)
(* still outstanding may absorb the next one; a take uses one up.  A take  *)
(* that finds the slot filled serves its picture; one that finds it empty, *)
(* because an earlier notification was already used to take that picture,  *)
(* serves some complete older picture instead.                             *)
(***************************************************************************)
EXTENDS Integers

CONSTANT MaxFrames

VARIABLES published,    \* the newest picture of this projection, 0: none yet
          fresh,        \* it has not been taken yet
          outstanding,  \* notifications sent and not yet used up
          served        \* the picture the clients are served from

mailbox == <<published, fresh, outstanding, served>>

Init == published = 0 /\ ~fresh /\ outstanding = 0 /\ served = 0

Publish ==
  /\ outstanding <= 1
  /\ published' \in (published + 1)..MaxFrames
  /\ fresh' = TRUE
  /\ outstanding' = outstanding + 1
  /\ UNCHANGED served

Absorb ==
  /\ outstanding = 2
  /\ outstanding' = 1
  /\ UNCHANGED <<published, fresh, served>>

Take ==
  /\ outstanding > 0
  /\ outstanding' = outstanding - 1
  /\ IF fresh THEN served' = published ELSE served' \in 0..MaxFrames
  /\ fresh' = FALSE
  /\ UNCHANGED published

\* A new projection: the slot is emptied, an untaken picture is dropped.
Restart ==
  /\ outstanding <= 1
  /\ published' = 0 /\ fresh' = FALSE
  /\ UNCHANGED <<outstanding, served>>

\* The server is stopped; a later one starts from here.
Reset == published' = 0 /\ fresh' = FALSE /\ outstanding' = 0 /\ served' = 0

Next == Publish \/ Absorb \/ Take \/ Restart \/ Reset

Spec == Init /\ [][Next]_mailbox
=============================================================================
