--------------------------- MODULE GnssReceivers ----------------------------
(***************************************************************************)
(* src/components/gnss_um980/gnss_um980.c, two instances, and the heading  *)
(* computed from their positions,                                          *)
(* src/components/gnss_dual_heading/gnss_dual_heading.c.                   *)
(*                                                                         *)
(* A sentence is what the NMEA parser makes of its characters:             *)
(*   "gga"    accepted, with a fix quality and a position;                 *)
(*   "other"  accepted, of a type no component reads (RMC, GST, GSV, GSA); *)
(*   "bad"    refused by checksum or length.                               *)
(* A heading is represented by the pair of positions it is computed from.  *)
(***************************************************************************)
EXTENDS TransportUart, SnapshotBuffer

CONSTANTS
  Place,              (* positions                                         *)
  Nowhere,            (* the all-zero position, which is a position, too   *)
  FixQuality,         (* qualities a receiver reports                      *)
  SentencesPerPass    (* sentences the 64-byte read window completes       *)

Gga == [fix_quality : FixQuality, place : Place]

NoGga == [fix_quality |-> 0, place |-> Nowhere]

ASSUME GnssAssumption ==
  /\ FixQuality \subseteq Nat /\ 0 \in FixQuality
  /\ Nowhere \in Place
  /\ Sentence \subseteq [kind : {"gga", "other", "bad"}, gga : Gga]
  /\ SentencesPerPass \in Nat \ {0}

HeadingResult ==
  [heading : Place \X Place, valid : BOOLEAN,
   primary_fix : FixQuality, secondary_fix : FixQuality]

VARIABLES
  gga,                (* each receiver's latest GGA                        *)
  gga_valid,
  position_snapshot,
  result,             (* of the latest heading computation                 *)
  heading_snapshot

gnssVars == <<gga, gga_valid, position_snapshot, result, heading_snapshot>>

NoHeading ==
  [heading |-> <<Nowhere, Nowhere>>, valid |-> FALSE,
   primary_fix |-> 0, secondary_fix |-> 0]

GnssInit ==
  /\ gga = [r \in Receiver |-> NoGga]
  /\ gga_valid = [r \in Receiver |-> FALSE]
  /\ position_snapshot = [r \in Receiver |-> SnapshotInit(NoGga)]
  /\ result = NoHeading
  /\ heading_snapshot = SnapshotInit(NoHeading)

(* gnss_um980_feed, sentence by sentence: the last GGA decides.            *)
Feed(r, sentences) ==
  LET positions == {i \in DOMAIN sentences : sentences[i].kind = "gga"} IN
  \/ positions = {} /\ UNCHANGED <<gga, gga_valid, position_snapshot>>
  \/ \E i \in positions :
       /\ \A j \in positions : j <= i
       /\ gga' = [gga EXCEPT ![r] = sentences[i].gga]
       /\ gga_valid' = [gga_valid EXCEPT ![r] = TRUE]
       /\ position_snapshot' =
            [position_snapshot EXCEPT ![r] = SnapshotSet(sentences[i].gga)]

(* gnss_um980_service_step: one window of the receive ring.  The window is *)
(* shorter than a long sentence, so a pass may complete none.              *)
GnssStep(r) ==
  \E n \in 0 .. AtMost(SentencesPerPass, Len(uart_rx[r])) :
    /\ Feed(r, SubSeq(uart_rx[r], 1, n))
    /\ uart_rx' = [uart_rx EXCEPT ![r] = SubSeq(@, n + 1, Len(@))]
    /\ UNCHANGED <<uart_opened, uart_tx, uart_sent, result, heading_snapshot>>

HasFix(r) == gga_valid[r] /\ gga[r].fix_quality > 0

FixQualities(valid) ==
  [heading |-> result.heading, valid |-> valid,
   primary_fix |-> gga["primary"].fix_quality,
   secondary_fix |-> gga["secondary"].fix_quality]

(* gnss_dual_heading_service_step, its three early returns: the result     *)
(* becomes invalid, and nothing is published.                              *)
HeadingMissing ==
  /\ \E r \in Receiver : ~gga_valid[r]
  /\ result' = [result EXCEPT !.valid = FALSE]
  /\ UNCHANGED heading_snapshot

HeadingWithoutFix ==
  /\ \A r \in Receiver : gga_valid[r]
  /\ \/ \E r \in Receiver : gga[r].fix_quality = 0
     \/ gga["primary"].place = gga["secondary"].place
  /\ result' = FixQualities(FALSE)
  /\ UNCHANGED heading_snapshot

HeadingComputed ==
  /\ \A r \in Receiver : HasFix(r)
  /\ gga["primary"].place # gga["secondary"].place
  /\ result' = [FixQualities(TRUE) EXCEPT
                  !.heading = <<gga["primary"].place, gga["secondary"].place>>]
  /\ heading_snapshot' = SnapshotSet(result')

HeadingStep ==
  /\ HeadingMissing \/ HeadingWithoutFix \/ HeadingComputed
  /\ UNCHANGED <<uartVars, gga, gga_valid, position_snapshot>>

GnssTypeOK ==
  /\ gga \in [Receiver -> Gga]
  /\ gga_valid \in [Receiver -> BOOLEAN]
  /\ position_snapshot \in [Receiver -> SnapshotType(Gga)]
  /\ result \in HeadingResult
  /\ heading_snapshot \in SnapshotType(HeadingResult)
=============================================================================
