----------------------------- MODULE FrameProofs ----------------------------
(***************************************************************************)
(* Proofs about WireFrame, for every alphabet, word size and bound.        *)
(***************************************************************************)
EXTENDS WireFrame, SequenceTheorems, TLAPS

Units == {MAGIC_BYTES, Garbage, compute_checksum(payload)} \cup 0..WordSize - 1 \cup Byte

\* The bytes are a sequence of units, each of its kind, no more of them than a
\* frame and one byte; those of an undamaged frame begin with the frame.
FrameInv ==
    /\ payload \in Seq(Byte) /\ Len(payload) =< MaxPayload
    /\ damaged \in BOOLEAN
    /\ bytes \in Seq(Units)
    /\ Len(bytes) =< HeaderLength + MaxPayload + 1
    /\ \A i \in 1..Len(bytes) :
          /\ i = 2 => bytes[i] \in 0..WordSize - 1
          /\ i = 3 => bytes[i] \in {Garbage, compute_checksum(payload)}
          /\ i > HeaderLength => bytes[i] \in Byte
    /\ ~damaged =>
          /\ Len(bytes) >= HeaderLength + Len(payload)
          /\ bytes[1] = MAGIC_BYTES
          /\ bytes[2] = Len(payload) % WordSize
          /\ bytes[3] = compute_checksum(payload)
          /\ \A k \in 1..Len(payload) : bytes[HeaderLength + k] = payload[k]

-----------------------------------------------------------------------------

\* A sequence without its last element.
LEMMA Front ==
    ASSUME NEW S, NEW s \in Seq(S), s # <<>>
    PROVE  /\ SubSeq(s, 1, Len(s) - 1) \in Seq(S)
           /\ Len(SubSeq(s, 1, Len(s) - 1)) = Len(s) - 1
           /\ \A k \in 1..Len(s) - 1 : SubSeq(s, 1, Len(s) - 1)[k] = s[k]
<1>1. Len(s) \in Nat /\ Len(s) > 0 /\ \A k \in 1..Len(s) - 1 : s[k] \in S
  OBVIOUS
<1> DEFINE n == Len(s) - 1
<1>2. 1 \in Int /\ n \in Int /\ n >= 0
  BY <1>1
<1> HIDE DEF n
<1>3. \A k \in 1..n : s[k] \in S
  BY <1>1 DEF n
<1>4. /\ SubSeq(s, 1, n) \in Seq(S)
      /\ Len(SubSeq(s, 1, n)) = IF 1 =< n THEN n - 1 + 1 ELSE 0
      /\ \A i \in 1..n - 1 + 1 : SubSeq(s, 1, n)[i] = s[1 + i - 1]
  BY <1>2, <1>3, SubSeqProperties
<1>5. /\ Len(SubSeq(s, 1, n)) = n
      /\ \A i \in 1..n : SubSeq(s, 1, n)[i] = s[i]
  <2>1. n - 1 + 1 = n /\ \A i \in 1..n : 1 + i - 1 = i
    BY <1>2
  <2> QED
    BY <1>2, <1>4, <2>1
<1> QED
  BY <1>4, <1>5 DEF n

\* A frame that has just been sent satisfies the invariant.
LEMMA SendInv == Send => FrameInv
<1> SUFFICES ASSUME Send PROVE FrameInv
  OBVIOUS
<1> USE FrameAssumption DEF HeaderLength
<1> DEFINE header == <<MAGIC_BYTES, Len(payload) % WordSize, compute_checksum(payload)>>
<1>1. payload \in Seq(Byte) /\ Len(payload) =< MaxPayload
  BY DEF Send, Payload
<1>2. bytes = header \o payload
  BY DEF Send, to_bytes, new
<1>3. Len(payload) % WordSize \in 0..WordSize - 1
  BY <1>1
<1>4. header \in Seq(Units) /\ payload \in Seq(Units) /\ Len(header) = 3
  BY <1>1, <1>3 DEF Units
<1>5. /\ bytes \in Seq(Units)
      /\ Len(bytes) = 3 + Len(payload)
      /\ \A k \in 1..Len(payload) : bytes[3 + k] = payload[k]
      /\ \A k \in 1..3 : bytes[k] = header[k]
  BY <1>2, <1>4, <1>1
<1>6. \A i \in 1..Len(bytes) : i > 3 => bytes[i] \in Byte
  <2> SUFFICES ASSUME NEW i \in 1..Len(bytes), i > 3 PROVE bytes[i] \in Byte
    OBVIOUS
  <2>1. i - 3 \in 1..Len(payload) /\ i = 3 + (i - 3)
    BY <1>1, <1>5
  <2> QED
    BY <2>1, <1>5, <1>1
<1>7. /\ bytes[1] = MAGIC_BYTES
      /\ bytes[2] = Len(payload) % WordSize
      /\ bytes[3] = compute_checksum(payload)
  BY <1>5
<1>8. Len(payload) \in Nat /\ damaged = FALSE
  BY <1>1 DEF Send
<1>9. \A i \in 1..Len(bytes) :
          /\ i = 2 => bytes[i] \in 0..WordSize - 1
          /\ i = 3 => bytes[i] \in {Garbage, compute_checksum(payload)}
          /\ i > HeaderLength => bytes[i] \in Byte
  BY <1>3, <1>6, <1>7
<1>10. Len(bytes) =< HeaderLength + MaxPayload + 1 /\ Len(bytes) >= HeaderLength + Len(payload)
  BY <1>1, <1>5, <1>8
<1> HIDE DEF header
<1> QED
  BY <1>1, <1>5, <1>7, <1>8, <1>9, <1>10 DEF FrameInv

\* Damage, loss and further bytes preserve it.
LEMMA NextInv == FrameInv /\ [Next]_vars => FrameInv'
<1> SUFFICES ASSUME FrameInv, [Next]_vars PROVE FrameInv'
  OBVIOUS
<1> USE FrameAssumption DEF HeaderLength
<1>1. ASSUME NEW i \in 1..HeaderLength + MaxPayload + 1, Damage(i) PROVE FrameInv'
  <2>1. PICK unit \in Damaged(i) : bytes' = [bytes EXCEPT ![i] = unit]
    BY <1>1 DEF Damage
  <2>2. unit \in Units /\ i \in 1..Len(bytes) /\ payload' = payload /\ damaged' = TRUE
    BY <1>1 DEF Damage, Damaged, Units
  <2>3. bytes' \in Seq(Units) /\ Len(bytes') = Len(bytes)
    BY <2>1, <2>2 DEF FrameInv
  <2>4. ASSUME NEW k \in 1..Len(bytes')
        PROVE  /\ k = 2 => bytes'[k] \in 0..WordSize - 1
               /\ k = 3 => bytes'[k] \in {Garbage, compute_checksum(payload)}
               /\ k > 3 => bytes'[k] \in Byte
    <3>1. bytes'[k] = IF k = i THEN unit ELSE bytes[k]
      BY <2>1, <2>2, <2>3 DEF FrameInv
    <3> QED
      BY <3>1, <2>1, <2>3 DEF FrameInv, Damaged
  <2> QED
    BY <2>2, <2>3, <2>4 DEF FrameInv, Units, compute_checksum
<1>2. ASSUME Truncate PROVE FrameInv'
  <2>1. bytes # <<>> /\ bytes' = SubSeq(bytes, 1, Len(bytes) - 1) /\ payload' = payload /\ damaged' = TRUE
    BY <1>2 DEF Truncate
  <2>2. /\ bytes' \in Seq(Units)
        /\ Len(bytes') = Len(bytes) - 1
        /\ \A k \in 1..Len(bytes') : bytes'[k] = bytes[k]
    BY <2>1, Front DEF FrameInv
  <2> QED
    BY <2>1, <2>2 DEF FrameInv, Units, compute_checksum
<1>3. ASSUME NEW b \in Byte, Follow(b) PROVE FrameInv'
  <2>1. /\ Len(bytes) >= 3 /\ Len(bytes) < 3 + MaxPayload + 1
        /\ bytes' = Append(bytes, b) /\ payload' = payload /\ damaged' = damaged
    BY <1>3 DEF Follow
  <2>2. /\ bytes' \in Seq(Units)
        /\ Len(bytes') = Len(bytes) + 1
        /\ \A k \in 1..Len(bytes) : bytes'[k] = bytes[k]
        /\ bytes'[Len(bytes) + 1] = b
    BY <2>1 DEF FrameInv, Units
  <2> QED
    BY <2>1, <2>2 DEF FrameInv, Units, compute_checksum
<1>4. ASSUME UNCHANGED vars PROVE FrameInv'
  BY <1>4 DEF FrameInv, vars, Units, compute_checksum
<1> QED
  BY <1>1, <1>2, <1>3, <1>4 DEF Next

\* What from_bytes returns, when the bytes are long enough.
LEMMA Decoded ==
    FrameInv /\ longEnough(bytes) =>
        LET data == from_bytes(bytes).payload
        IN  /\ bytes[2] \in 0..WordSize - 1
            /\ bytes[2] =< MaxPayload + 1
            /\ data \in [1..bytes[2] -> Byte]
            /\ Len(data) = bytes[2]
            /\ \A k \in 1..bytes[2] : data[k] = bytes[HeaderLength + k]
<1> SUFFICES ASSUME FrameInv, longEnough(bytes)
             PROVE  LET data == from_bytes(bytes).payload
                    IN  /\ bytes[2] \in 0..WordSize - 1
                        /\ bytes[2] =< MaxPayload + 1
                        /\ data \in [1..bytes[2] -> Byte]
                        /\ Len(data) = bytes[2]
                        /\ \A k \in 1..bytes[2] : data[k] = bytes[HeaderLength + k]
  OBVIOUS
<1> USE FrameAssumption DEF HeaderLength
<1> DEFINE n == bytes[2]
<1>1. n \in 0..WordSize - 1 /\ Len(bytes) >= 3 + n /\ n =< MaxPayload + 1
  BY DEF FrameInv, longEnough
<1>2. from_bytes(bytes).payload = [k \in 1..n |-> bytes[3 + k]]
  <2>1. SubSeq(bytes, 4, 3 + n) = [k \in 1..n |-> bytes[3 + k]]
    BY <1>1, SMTT(30)
  <2> QED
    BY <2>1 DEF from_bytes
<1>3. \A k \in 1..n : bytes[3 + k] \in Byte
  BY <1>1 DEF FrameInv
<1> QED
  BY <1>1, <1>2, <1>3

\* An accepted frame carries the payload that was sent, since only that has
\* the checksum that was sent.
LEMMA AcceptedPayload == FrameInv /\ accepted => from_bytes(bytes).payload = payload
<1> SUFFICES ASSUME FrameInv, accepted PROVE from_bytes(bytes).payload = payload
  OBVIOUS
<1> USE FrameAssumption
<1> DEFINE data == from_bytes(bytes).payload
<1>1. bytes[2] \in 0..MaxPayload + 1 /\ data \in [1..bytes[2] -> Byte]
  BY Decoded DEF accepted
<1>2. from_bytes(bytes).checksum = <<data>>
  BY DEF accepted, validate, compute_checksum
<1>3. from_bytes(bytes).checksum = bytes[3]
  BY DEF from_bytes
<1>4. bytes[3] \in {Garbage, <<payload>>}
  BY DEF accepted, longEnough, FrameInv, HeaderLength, compute_checksum
<1>5. Garbage # <<data>>
  BY <1>1, GarbageAssumption
<1>6. <<data>> = <<payload>>
  BY <1>2, <1>3, <1>4, <1>5
<1> QED
  BY <1>6

-----------------------------------------------------------------------------

\* The invariant holds of every behaviour.
LEMMA FrameInvariance == Spec => []FrameInv
  BY SendInv, NextInv, PTL DEF Spec

\* No damage, loss or further byte makes a receiver accept another payload than
\* the one that was sent.
THEOREM AcceptedIsSentHolds == Spec => []AcceptedIsSent
<1>1. FrameInv => AcceptedIsSent
  BY AcceptedPayload DEF AcceptedIsSent
<1> QED
  BY <1>1, FrameInvariance, PTL

\* Every frame arrives, whatever follows it, if and only if the length of its
\* payload fits the field.
THEOREM RoundTripHolds == Spec => []RoundTrip
<1>1. ASSUME FrameInv, ~damaged, accepted PROVE Len(payload) < WordSize
  <2>1. Len(payload) = bytes[2] /\ bytes[2] \in 0..WordSize - 1
    BY <1>1, AcceptedPayload, Decoded DEF accepted
  <2> QED
    BY <2>1, FrameAssumption
<1>2. ASSUME FrameInv, ~damaged, Len(payload) < WordSize PROVE accepted
  <2>1. bytes[2] = Len(payload) /\ Len(payload) \in Nat /\ payload \in Seq(Byte)
    <3>1. bytes[2] = Len(payload) % WordSize /\ Len(payload) \in Nat /\ payload \in Seq(Byte)
      BY <1>2 DEF FrameInv
    <3>2. \A n \in Nat : n < WordSize => n % WordSize = n
      BY FrameAssumption
    <3> QED
      BY <3>1, <3>2, <1>2
  <2>2. longEnough(bytes)
    BY <1>2, <2>1 DEF longEnough, FrameInv, HeaderLength
  <2>3. from_bytes(bytes).payload = payload
    <3>1. \A k \in 1..Len(payload) : from_bytes(bytes).payload[k] = payload[k]
      BY <1>2, <2>1, <2>2, Decoded DEF FrameInv
    <3>2. from_bytes(bytes).payload \in [1..Len(payload) -> Byte] /\ payload \in [1..Len(payload) -> Byte]
      BY <1>2, <2>1, <2>2, Decoded
    <3> QED
      BY <3>1, <3>2
  <2>4. /\ from_bytes(bytes).magic = MAGIC_BYTES
        /\ from_bytes(bytes).length = Len(payload) % WordSize
        /\ from_bytes(bytes).checksum = compute_checksum(payload)
    BY <1>2 DEF from_bytes, FrameInv
  <2>5. validate(from_bytes(bytes)) = "Ok"
    BY <2>3, <2>4 DEF validate
  <2> QED
    BY <2>2, <2>5 DEF accepted
<1>3. FrameInv => RoundTrip
  BY <1>1, <1>2 DEF RoundTrip
<1> QED
  BY <1>3, FrameInvariance, PTL

=============================================================================
