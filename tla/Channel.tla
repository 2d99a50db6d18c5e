------------------------------ MODULE Channel -------------------------------
(***************************************************************************)
(* What the radio driver promises the listener, whatever happens between   *)
(* it and the chip: a channel that loses packets in the air and nowhere    *)
(* else, and hands the others over in order.  Once a transfer of this run  *)
(* has failed the driver may also hand over the last payload again, or     *)
(* rubbish, and what an earlier run left behind.                           *)
(***************************************************************************)
EXTENDS Integers, Sequences

CONSTANT Garbage   \* a payload that no packet has

VARIABLES
  sent,     \* packets the station has transmitted
  chip,     \* those the chip has taken and nobody has been given
  given,    \* payloads this run has been given
  ready,    \* whether this run may be given any
  faulty    \* whether a transfer of this run has failed

vars == <<sent, chip, given, ready, faulty>>

Init == sent = 0 /\ chip = <<>> /\ given = <<>> /\ ready = FALSE /\ faulty = FALSE

Transmit ==
  /\ sent' = sent + 1
  /\ chip' \in {chip, Append(chip, sent + 1)}
  /\ UNCHANGED <<given, ready, faulty>>

(* What is left over from earlier runs goes, unless that fails. *)
Open ==
  /\ ~ready /\ ready' = TRUE
  /\ \/ chip' = <<>> /\ UNCHANGED faulty
     \/ faulty' = TRUE /\ UNCHANGED chip
  /\ UNCHANGED <<sent, given>>

Give ==
  /\ ready /\ chip # <<>>
  /\ given' = Append(given, Head(chip))
  /\ chip' = Tail(chip)
  /\ UNCHANGED <<sent, ready, faulty>>

GiveFalse ==
  /\ ready /\ faulty' = TRUE
  /\ \/ given' = Append(given, Garbage)
     \/ given # <<>> /\ given' = Append(given, given[Len(given)])
  /\ UNCHANGED <<sent, chip, ready>>

Fault ==
  /\ faulty' = TRUE
  /\ UNCHANGED <<sent, chip, given, ready>>

(* The process ends, and what it was given is gone with it. *)
End ==
  /\ ready' = FALSE /\ given' = <<>>
  /\ faulty' \in {faulty, TRUE}
  /\ UNCHANGED <<sent, chip>>

Boot ==
  /\ ~ready /\ faulty' = FALSE
  /\ UNCHANGED <<sent, chip, given, ready>>

Next == Transmit \/ Open \/ Give \/ GiveFalse \/ Fault \/ End \/ Boot

Spec == Init /\ [][Next]_vars

-----------------------------------------------------------------------------

IsPacket(p) == p # Garbage

(***************************************************************************)
(* Packets are given in the order they were sent, whatever fails; and none *)
(* is given twice, nor anything else, in a run without a failed transfer.  *)
(***************************************************************************)
GivenInOrder ==
  /\ \A i, j \in DOMAIN given : i < j /\ IsPacket(given[i]) /\ IsPacket(given[j]) =>
       given[i] < given[j] \/ (faulty /\ given[i] = given[j])
  /\ faulty \/ \A i \in DOMAIN given : IsPacket(given[i])

(* Towards an inductive invariant: what is in the chip comes after what was given. *)
ChannelInv ==
  /\ sent \in Nat /\ chip \in Seq(Nat) /\ given \in Seq(Nat \cup {Garbage})
  /\ ~ready => given = <<>>
  /\ \A k \in DOMAIN chip : chip[k] <= sent
  /\ \A i, j \in DOMAIN chip : i < j => chip[i] < chip[j]
  /\ \A i \in DOMAIN given : IsPacket(given[i]) =>
       given[i] <= sent /\ \A k \in DOMAIN chip : given[i] < chip[k]
  /\ GivenInOrder
=============================================================================
