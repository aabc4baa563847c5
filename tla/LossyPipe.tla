----------------------------- MODULE LossyPipe ------------------------------
(***************************************************************************)
(* What the GNSS receivers can rely on about their corrections: each gets  *)
(* bytes in the order in which they arrived at the board, none twice and   *)
(* none that did not arrive; some may be missing.                          *)
(***************************************************************************)
EXTENDS Integers, SequencesExt

CONSTANT Output

VARIABLES
  arrived,     (* how many bytes arrived; they are numbered from 1         *)
  sent         (* the bytes handed on to each output                       *)

Increasing(bytes) == \A i, j \in DOMAIN bytes : i < j => bytes[i] < bytes[j]

Init == arrived = 0 /\ sent = [r \in Output |-> <<>>]

Arrive == arrived' > arrived /\ UNCHANGED sent

Deliver(r) ==
  /\ IsStrictPrefix(sent[r], sent'[r])
  /\ Increasing(sent'[r])
  /\ \A i \in DOMAIN sent'[r] : sent'[r][i] \in 1 .. arrived
  /\ sent' = [sent EXCEPT ![r] = sent'[r]]
  /\ UNCHANGED arrived

Next == Arrive \/ \E r \in Output : Deliver(r)

Spec == Init /\ [][Next]_<<arrived, sent>>
=============================================================================
