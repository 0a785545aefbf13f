----------------------------- MODULE LenPrefix ------------------------------
(***************************************************************************)
(* _encode_len_prefixed: the byte string the HMAC of a message is computed *)
(* from, chunk by chunk, and the chunks a reader gets back from it.  Bytes *)
(* may have few values and prefixes few bytes, so that a chunk can be as   *)
(* long as its prefix can say, or too long for it.                         *)
(***************************************************************************)
EXTENDS Naturals, Sequences

CONSTANTS
  Base,       \* values of a byte
  Width,      \* bytes of a prefix
  MaxChunks,  \* chunks in the list (bound)
  MaxChunk    \* bytes of the longest chunk that is tried (bound)

ASSUME PrefixAssumption ==
  /\ Base \in Nat \ {0} /\ Width \in Nat \ {0}
  /\ MaxChunks \in Nat /\ MaxChunk \in Nat

VARIABLES
  chunks,  \* the part of the list that has been encoded
  out      \* what it is encoded as

prefixvars == <<chunks, out>>

-----------------------------------------------------------------------------
Bytes == 0..(Base - 1)

LastByte(n) == n % Base
Without(n) == n \div Base

(* n without its last bytes, so many of them. *)
Shifted(n) ==
  LET rest[i \in 0..Width] == IF i = 0 THEN n ELSE Without(rest[i - 1])
  IN rest

(* len(c).to_bytes(Width, "big"): an OverflowError if something is left. *)
Fits(n) == Shifted(n)[Width] = 0
BigEndian(n) == [i \in 1..Width |-> LastByte(Shifted(n)[Width - i])]

(* Mutant: the chunks are joined as they are. *)
Encoded_Joined(c) == c
Encoded(c) == BigEndian(Len(c)) \o c

PrefixInit == chunks = << >> /\ out = << >>

Extend(c) ==
  /\ Len(chunks) < MaxChunks
  /\ Fits(Len(c))
  /\ chunks' = Append(chunks, c)
  /\ out' = out \o Encoded(c)

PrefixNext == \E n \in 0..MaxChunk : \E c \in [1..n -> Bytes] : Extend(c)

PrefixSpec == PrefixInit /\ [][PrefixNext]_prefixvars

-----------------------------------------------------------------------------
(* Properties. *)

With(n, byte) == Base * n + byte

(* What a prefix says, after each of its digits. *)
Values(digits) ==
  LET value[i \in 0..Len(digits)] == IF i = 0 THEN 0 ELSE With(value[i - 1], digits[i])
  IN value
Value(digits) == Values(digits)[Len(digits)]

(* A chunk no sender has. *)
Garbled == <<Base>>

(* The reader is before the byte `at` and has a list of chunks: it takes a  *)
(* prefix and as many bytes as it says, and at the end nothing more.       *)
ReadChunk(bytes, reader) ==
  LET start == reader.at + Width
      end == start + Value(SubSeq(bytes, reader.at, start - 1))
  IN IF reader.at = Len(bytes) + 1 THEN reader
     ELSE IF start > Len(bytes) + 1 \/ end > Len(bytes) + 1
       THEN [at |-> Len(bytes) + 1, list |-> Append(reader.list, Garbled)]
     ELSE [at |-> end, list |-> Append(reader.list, SubSeq(bytes, start, end - 1))]

Readers(bytes) ==
  LET reader[i \in 0..Len(bytes)] ==
        IF i = 0 THEN [at |-> 1, list |-> << >>] ELSE ReadChunk(bytes, reader[i - 1])
  IN reader

Decoded(bytes) == Readers(bytes)[Len(bytes)].list

(* No two lists of chunks have the same encoding, whatever bytes they hold, *)
(* empty chunks and those that look like a prefix included: a reader gets  *)
(* the list back, so the HMAC signs the list.                              *)
EncodingRoundTrip == Decoded(out) = chunks
=============================================================================
