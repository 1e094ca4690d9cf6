------------------------------ MODULE Keyspace ------------------------------
(***************************************************************************)
(* The key space of key.rs: keys are strings of bits, most significant     *)
(* first, a distance is the bitwise XOR of two keys, distances are ordered *)
(* as big-endian integers, and a distance falls into the bucket of its     *)
(* most significant set bit.  Peers and contents share the space: a peer's *)
(* key is its id verbatim.  A key has Bytes * ByteBits bits (32 * 8 in the *)
(* code): bucket_index and random_key_in_bucket go byte by byte.            *)
(*                                                                         *)
(* Operators with an underscore in their name are faulty variants kept to  *)
(* show that the properties notice the fault.                              *)
(***************************************************************************)
EXTENDS Integers

CONSTANTS Bytes,        \* bytes of a key
          ByteBits      \* bits of a byte

ASSUME KeyspaceAssumption == /\ Bytes \in Nat \ {0}
                             /\ ByteBits \in Nat \ {0}

Bits == Bytes * ByteBits
Positions == 0 .. Bits - 1          \* bit positions, 0 the most significant
Key == [Positions -> {0, 1}]

Zero == [i \in Positions |-> 0]
Distance(a, b) == [i \in Positions |-> IF a[i] = b[i] THEN 0 ELSE 1]

(* Big-endian order: the first bit in which two distances differ decides. *)
AgreeBefore(d, e, i) == \A j \in Positions : j < i => d[j] = e[j]
Closer_LastBitDecides(d, e) ==
  \E i \in Positions :
    /\ d[i] = 0 /\ e[i] = 1
    /\ \A j \in Positions : j > i => d[j] = e[j]
Closer(d, e) == \E i \in Positions : d[i] = 0 /\ e[i] = 1 /\ AgreeBefore(d, e, i)

(* The bucket of a distance: its first byte that is not zero, and the       *)
(* leading zeros of that byte.  The zero distance has none.                *)
ByteOf(i) == i \div ByteBits
FirstByte(d) ==
  CHOOSE b \in 0 .. Bytes - 1 :
    /\ \E i \in Positions : ByteOf(i) = b /\ d[i] = 1
    /\ \A i \in Positions : ByteOf(i) < b => d[i] = 0
LeadingZeros_Trailing(d, b) ==
  CHOOSE z \in 0 .. ByteBits - 1 :
    /\ d[b * ByteBits + z] = 1
    /\ \A y \in z + 1 .. ByteBits - 1 : d[b * ByteBits + y] = 0
LeadingZeros(d, b) ==
  CHOOSE z \in 0 .. ByteBits - 1 :
    /\ d[b * ByteBits + z] = 1
    /\ \A y \in 0 .. z - 1 : d[b * ByteBits + y] = 0
BucketIndex(d) ==
  Bits - 1 - (FirstByte(d) * ByteBits + LeadingZeros(d, FirstByte(d)))
BucketIndices == 0 .. Bits - 1

(* random_key_in_bucket: the keys a refresh of a bucket may target.  The    *)
(* bucket's bit of the distance is set, the bytes after that bit's byte are *)
(* random and all else is zero, the later bits of its own byte included.    *)
RefreshDistances_OneBitOff(idx) ==
  LET bit == Bits - idx
  IN  {d \in Key : \A i \in Positions :
         ByteOf(i) <= ByteOf(bit) => d[i] = (IF i = bit THEN 1 ELSE 0)}
RefreshDistances(idx) ==
  LET bit == Bits - 1 - idx
  IN  {d \in Key : \A i \in Positions :
         ByteOf(i) <= ByteOf(bit) => d[i] = (IF i = bit THEN 1 ELSE 0)}
RefreshTargets(local, idx) == {Distance(local, d) : d \in RefreshDistances(idx)}
=============================================================================
