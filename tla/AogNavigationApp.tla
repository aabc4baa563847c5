-------------------------- MODULE AogNavigationApp --------------------------
(***************************************************************************)
(* src/components/aog_navigation_app/aog_navigation_app.c: answers hello   *)
(* requests and sends position and heading every aog_send_interval_ms.     *)
(* A frame it receives is "hello" (PGN 253) or "other".                    *)
(***************************************************************************)
EXTENDS TransportUdp, GnssReceivers

CONSTANTS
  FramesPerPass,      (* frames that fit the 64-byte read window           *)
  SendInterval,       (* AOG_SEND_INTERVAL_MS                              *)
  MsModulus,          (* 2^32: where the millisecond count wraps           *)
  HelloSize,          (* bytes of a hello response frame                   *)
  PositionSize,       (* bytes of a position frame                         *)
  HeadingSize         (* bytes of a heading frame                          *)

ASSUME NavigationAppAssumption ==
  /\ HostFrame \subseteq {"hello", "other"}
  /\ FramesPerPass \in Nat \ {0}
  /\ SendInterval \in Nat \ {0}
  /\ MsModulus \in Nat /\ MsModulus > SendInterval
  /\ HelloSize \in Nat \ {0}
  /\ PositionSize \in Nat \ {0}
  /\ HeadingSize \in Nat \ {0}

VARIABLES
  last_aog_send_ms,
  since_output        (* history: time since the latest output round, up   *)
                      (* to SendInterval                                   *)

navAppVars == <<last_aog_send_ms, since_output>>

NavAppInit == last_aog_send_ms = 0 /\ since_output = 0

HelloPending(frames) == \E i \in DOMAIN frames : frames[i] = "hello"

(* Mutant: the times are compared, not their difference.                   *)
OutputDueCompared(now_ms) == now_ms >= last_aog_send_ms + SendInterval

(* Unsigned 32-bit subtraction.                                            *)
OutputDue(now_ms) == (now_ms - last_aog_send_ms) % MsModulus >= SendInterval

PositionFrame ==
  IF position_snapshot["primary"].valid
     /\ position_snapshot["primary"].value.fix_quality > 0
  THEN FrameBytes("position", PositionSize) ELSE <<>>

HeadingFrame ==
  IF heading_snapshot.valid /\ heading_snapshot.value.valid
  THEN FrameBytes("heading", HeadingSize) ELSE <<>>

Push(ring, frame) == FifoWrite(ring, TxCapacity, frame)

(* Mutant: the hello response goes last.                                   *)
RespondHelloLast(frames, now_ms) ==
  LET hello    == IF HelloPending(frames) THEN FrameBytes("hello", HelloSize) ELSE <<>>
      position == IF OutputDue(now_ms) THEN PositionFrame ELSE <<>>
      heading  == IF OutputDue(now_ms) THEN HeadingFrame ELSE <<>>
  IN  tx_buffer' = Push(Push(Push(tx_buffer, position), heading), hello)

(* Mutant: a hello request is dropped in a pass with an output round.      *)
RespondEither(frames, now_ms) ==
  LET hello    == IF HelloPending(frames) THEN FrameBytes("hello", HelloSize) ELSE <<>>
  IN  tx_buffer' = IF OutputDue(now_ms)
                   THEN Push(Push(tx_buffer, PositionFrame), HeadingFrame)
                   ELSE Push(tx_buffer, hello)

(* A hello response, then the position and the heading if they are due.    *)
(* push_aog_pgn ignores how much of each frame the ring accepted.          *)
Respond(frames, now_ms) ==
  LET hello    == IF HelloPending(frames) THEN FrameBytes("hello", HelloSize) ELSE <<>>
      position == IF OutputDue(now_ms) THEN PositionFrame ELSE <<>>
      heading  == IF OutputDue(now_ms) THEN HeadingFrame ELSE <<>>
  IN  tx_buffer' = Push(Push(Push(tx_buffer, hello), position), heading)

(* One pass; a non-empty receive ring yields a frame.                      *)
NavAppStep(now_ms) ==
  \E n \in 0 .. AtMost(FramesPerPass, Len(rx_buffer)) :
    /\ n = 0 => rx_buffer = <<>>
    /\ rx_buffer' = SubSeq(rx_buffer, n + 1, Len(rx_buffer))
    /\ Respond(SubSeq(rx_buffer, 1, n), now_ms)
    /\ last_aog_send_ms' = IF OutputDue(now_ms) THEN now_ms ELSE last_aog_send_ms
    /\ since_output' = IF OutputDue(now_ms) THEN 0 ELSE since_output
    /\ UNCHANGED wire

NavAppTypeOK ==
  /\ last_aog_send_ms \in 0 .. MsModulus - 1
  /\ since_output \in 0 .. SendInterval
=============================================================================
