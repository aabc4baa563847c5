----------------------------- MODULE AogStream ------------------------------
(***************************************************************************)
(* A sender of AOG frames, a byte stream that may lose the tail of a frame *)
(* and carry foreign bytes between frames, and the parser at its end.  The *)
(* code's own transmit rings lose tails: push_aog_pgn                      *)
(* (src/components/aog_steering_app/aog_steering_app.c) ignores how much   *)
(* of a frame the ring took.                                               *)
(***************************************************************************)
EXTENDS AogFrame

CONSTANTS
  Pgns,      (* PGNs sent                                                  *)
  Payloads,  (* data sent                                                  *)
  Noise      (* foreign bytes                                              *)

ASSUME StreamAssumption ==
  /\ Pgns \subseteq Byte \X Byte
  /\ \A payload \in Payloads : payload \in Seq(Byte) /\ Len(payload) <= MaxData
  /\ Noise \subseteq Byte

VARIABLES
  sent,      (* the frame being sent, or sent last                         *)
  left,      (* its bytes still to come                                    *)
  in_sync,   (* it was begun outside a frame and has lost nothing          *)
  noisy,     (* the stream may still lose and add bytes                    *)
  quiet      (* history: bytes of clean frames since the last disturbance  *)

vars == <<parserVars, sent, left, in_sync, noisy, quiet>>

Init ==
  /\ ParserInit
  /\ sent \in [pgn : Pgns, payload : Payloads]
  /\ left = <<>>
  /\ in_sync = FALSE
  /\ noisy = TRUE
  /\ quiet = 0

(* A frame without the two preamble bytes, one after the other, behind its *)
(* own preamble.                                                           *)
Clean(bytes) ==
  \A i \in 3 .. Len(bytes) - 1 : <<bytes[i], bytes[i + 1]>> # <<Preamble1, Preamble2>>

Current == EncodeFrame(sent.pgn, sent.payload)

(* Bound, and what RecoversInTime is about: the longest rest of a false    *)
(* frame, from its length byte to its checksum, and the longest frame.     *)
Enough == (MaxByte + 2) + (6 + MaxData)

(* The sender encodes its next frame; a clean one when the noise is over.  *)
BeginFrame ==
  /\ left = <<>>
  /\ \E p \in Pgns, payload \in Payloads :
       /\ noisy \/ Clean(EncodeFrame(p, payload))
       /\ sent' = [pgn |-> p, payload |-> payload]
       /\ left' = EncodeFrame(p, payload)
  /\ in_sync' = (state \in {"IDLE", "PREAMBLE"})
  /\ UNCHANGED <<parserVars, noisy, quiet>>

SendByte ==
  /\ left # <<>>
  /\ Feed(Head(left))
  /\ left' = Tail(left)
  /\ quiet' = CASE ~Clean(Current) -> 0
                [] Clean(Current) /\ quiet < Enough -> quiet + 1
                [] OTHER -> quiet
  /\ UNCHANGED <<sent, in_sync, noisy>>

(* The rest of a frame is lost.                                            *)
LoseTail ==
  /\ noisy
  /\ left # <<>>
  /\ left' = <<>>
  /\ in_sync' = FALSE
  /\ quiet' = 0
  /\ UNCHANGED <<parserVars, sent, noisy>>

ForeignByte ==
  /\ noisy
  /\ left = <<>>
  /\ \E byte \in Noise : Feed(byte)
  /\ in_sync' = FALSE
  /\ quiet' = 0
  /\ UNCHANGED <<sent, left, noisy>>

NoiseEnds ==
  /\ noisy
  /\ noisy' = FALSE
  /\ UNCHANGED <<parserVars, sent, left, in_sync, quiet>>

Next == BeginFrame \/ SendByte \/ LoseTail \/ ForeignByte \/ NoiseEnds

(* The sender keeps sending.  That the noise ends is not assumed.          *)
Fairness == WF_vars(BeginFrame) /\ WF_vars(SendByte)

Spec == Init /\ [][Next]_vars /\ Fairness
-----------------------------------------------------------------------------
(* The frame sent last has just been handed out, as it was sent.           *)
Delivered ==
  /\ left = <<>>
  /\ ready /\ crc_valid
  /\ pgn = sent.pgn
  /\ length = 2 + Len(sent.payload)
  /\ Payload = sent.payload

(* The type of every variable; data beyond the buffer is never stored      *)
(* (aog_frame.c:122).                                                      *)
TypeOK ==
  /\ ParserTypeOK
  /\ sent \in [pgn : Pgns, payload : Payloads]
  /\ left \in Seq(Byte)
  /\ in_sync \in BOOLEAN /\ noisy \in BOOLEAN
  /\ quiet \in 0 .. Enough

(* The streaming parser and the encoder and verifier of whole frames agree *)
(* on every byte stream: of the frames whose data fits, the parser accepts *)
(* exactly those aog_frame_verify_crc accepts, and hands out what          *)
(* aog_frame_encode would have put into them.                              *)
AcceptedIsVerified ==
  ready /\ length - 2 <= MaxData =>
    /\ crc_valid <=> VerifyCrc(frame)
    /\ crc_valid => frame = EncodeFrame(pgn, Payload)

(* A frame that begins at a parser in no frame, though perhaps behind a    *)
(* stray first preamble byte, and loses no byte is handed out with its     *)
(* last byte, whatever the parser still holds of earlier frames.           *)
InSyncIsDelivered == in_sync /\ left = <<>> => Delivered

(* However the stream was disturbed before, a false frame cannot hold the  *)
(* parser for longer than its length byte can say: after so many bytes of  *)
(* clean frames in a row, every frame is handed out with its last byte     *)
(* (aog_frame.c:79-131).                                                   *)
RecoversInTime == quiet = Enough /\ left = <<>> => Delivered

(* After lost tails and foreign bytes the parser finds the frames again,   *)
(* whatever false frame it is in, as long as the frames that follow are    *)
(* clean (aog_frame.c:81-86).                                              *)
HearsAgain == ~noisy ~> Delivered
=============================================================================
