----------------------------- MODULE WireFrame ------------------------------
(***************************************************************************)
(* Frames of the wire protocol (node/p2p protocol.rs), and what a receiver *)
(* makes of one that was damaged, cut short or followed by other bytes.    *)
(*                                                                         *)
(* On the wire a frame is a sequence of units: the 4 bytes of the magic,   *)
(* the 4 of the length and the 32 of the checksum are one unit each, every *)
(* payload byte is one.  The length is a u32, counted modulo WordSize.     *)
(* The checksum is taken to be injective.                                  *)
(***************************************************************************)
EXTENDS Naturals, Sequences

CONSTANTS
    Byte,       \* payload bytes
    WordSize,   \* 2^32
    MaxPayload, \* bounds the payloads that are sent
    Garbage     \* a magic or a checksum that was damaged

ASSUME FrameAssumption ==
    /\ WordSize \in Nat \ {0}
    /\ MaxPayload \in Nat

\* Damage is always noticed: no checksum comes out of it.
ASSUME GarbageAssumption ==
    \A n \in 0..MaxPayload + 1 : \A data \in [1..n -> Byte] : Garbage # <<data>>

VARIABLES
    payload,    \* what was sent
    bytes,      \* what has arrived
    damaged     \* a unit has been altered or lost

vars == <<payload, bytes, damaged>>

MAGIC_BYTES == "CCP1"

compute_checksum(data) == <<data>>

\* Units of the magic, the length and the checksum.
HeaderLength == 3

\* Mutant: the length counts the header too.
new_WholeLength(data) ==
    [magic |-> MAGIC_BYTES, length |-> (HeaderLength + Len(data)) % WordSize,
     checksum |-> compute_checksum(data), payload |-> data]

new(data) ==
    [magic |-> MAGIC_BYTES, length |-> Len(data) % WordSize,
     checksum |-> compute_checksum(data), payload |-> data]

to_bytes(frame) == <<frame.magic, frame.length, frame.checksum>> \o frame.payload

\* Mutant: the checksum is not compared.
validate_NoChecksum(frame) ==
    CASE frame.magic # MAGIC_BYTES -> "InvalidMagic"
      [] Len(frame.payload) % WordSize # frame.length -> "InvalidLength"
      [] OTHER -> "Ok"

validate(frame) ==
    CASE frame.magic # MAGIC_BYTES -> "InvalidMagic"
      [] Len(frame.payload) % WordSize # frame.length -> "InvalidLength"
      [] frame.checksum # compute_checksum(frame.payload) -> "ChecksumMismatch"
      [] OTHER -> "Ok"

\* The bytes hold a header and as many payload bytes as it says.
longEnough(units) ==
    /\ Len(units) >= HeaderLength
    /\ Len(units) >= HeaderLength + units[2]

\* from_bytes, when it does not return TooShort.
from_bytes(units) ==
    [magic |-> units[1], length |-> units[2], checksum |-> units[3],
     payload |-> SubSeq(units, HeaderLength + 1, HeaderLength + units[2])]

\* The receiver decodes and validates the frame.
accepted == longEnough(bytes) /\ validate(from_bytes(bytes)) = "Ok"

-----------------------------------------------------------------------------

Payload == UNION {[1..n -> Byte] : n \in 0..MaxPayload}

\* What may arrive in place of the i-th unit.
Damaged(i) ==
    CASE i = 2 -> 0..WordSize - 1
      [] i \in {1, 3} -> {Garbage}
      [] OTHER -> Byte

Send ==
    /\ payload \in Payload
    /\ bytes = to_bytes(new(payload))
    /\ damaged = FALSE

\* A unit arrives as another one of its kind.
Damage(i) ==
    /\ i \in 1..Len(bytes)
    /\ \E unit \in Damaged(i) : bytes' = [bytes EXCEPT ![i] = unit]
    /\ damaged' = TRUE
    /\ UNCHANGED payload

\* The last unit has not arrived.
Truncate ==
    /\ bytes # <<>>
    /\ bytes' = SubSeq(bytes, 1, Len(bytes) - 1)
    /\ damaged' = TRUE
    /\ UNCHANGED payload

\* A byte that does not belong to the frame follows it.
Follow(b) ==
    /\ Len(bytes) >= HeaderLength
    /\ Len(bytes) < HeaderLength + MaxPayload + 1
    /\ bytes' = Append(bytes, b)
    /\ UNCHANGED <<payload, damaged>>

Next ==
    \/ \E i \in 1..HeaderLength + MaxPayload + 1 : Damage(i)
    \/ Truncate
    \/ \E b \in Byte : Follow(b)

Spec == Send /\ [][Next]_vars

-----------------------------------------------------------------------------
(* Properties *)

\* A frame that is accepted carries the payload that was sent, however it was
\* damaged, cut short or followed by other bytes, and also when the length of
\* the payload did not fit its field.
AcceptedIsSent == accepted => from_bytes(bytes).payload = payload

\* An undamaged frame is accepted, whatever follows it, unless its payload is
\* too long for the length field: such a frame is sent, but never accepted.
RoundTrip == ~damaged => (accepted <=> Len(payload) < WordSize)

=============================================================================
