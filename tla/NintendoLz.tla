------------------------------ MODULE NintendoLz ------------------------------
(***************************************************************************)
(* encode_lz10 and decode_lz10 of jwc24/forecast.py and encode_lz11 and    *)
(* decode_lz11 of jwc24/lz11.py, the encoder's output read back by the     *)
(* decoder: every native forecast and news file passes through the first   *)
(* pair, and the patched channel executables through the second.           *)
(*                                                                         *)
(* The output is a sequence of cells: the flags of a group, a literal, or  *)
(* a reference, of which marker holds the leading four bits and rest the   *)
(* bits that follow.  Position 0 of the code is index 1.                   *)
(***************************************************************************)
EXTENDS Naturals, Sequences, FiniteSets

CONSTANTS
  Byte, MaxLength,  \* payloads: sequences of bytes, and the bound on their length
  Window,     \* the farthest distance of a reference (4096)
  Markers,    \* the values of a marker (16)
  LongCodes,  \* lz11: the codes of the lengths beyond the markers' (256)
  GroupSize   \* tokens under one byte of flags (8)

VARIABLES
  format,     \* "lz10" or "lz11"
  payload,
  positions,  \* the encoder's positions, of all keys
  cursor,
  output,     \* the encoded cells
  group,      \* the place of the current group's flags, and its flags
  decoded,    \* the decoder's output
  source,     \* the decoder's place in output
  phase       \* "encode", "decode", "done", or "error" (ValueError)

task    == <<format, payload>>
encoder == <<positions, cursor, output>>
decoder == <<decoded, source>>
vars    == <<task, encoder, group, decoder, phase>>

Shortest   == 3                   \* a key has three bytes
LongBase   == Markers + 1         \* 0x11
Longest    == IF format = "lz10" THEN Shortest + Markers - 1 ELSE LongBase + LongCodes - 1
NoGroup    == [at |-> 0, flags |-> <<>>]
KeyOf(p)   == SubSeq(payload, p, p + Shortest - 1)
HasKey(p)  == p + Shortest - 1 <= Len(payload)
Smaller(m, n) == IF m < n THEN m ELSE n

\* encode_lz11 refuses an empty payload.
Init ==
  /\ format \in {"lz10", "lz11"}
  /\ \E n \in 0 .. MaxLength : payload \in [1 .. n -> Byte]
  /\ format = "lz10" \/ payload # <<>>
  /\ positions = {} /\ cursor = 1 /\ output = <<>> /\ group = NoGroup
  /\ decoded = <<>> /\ source = 1 /\ phase = "encode"

------------------------------------------------------------------------------
(* encode_lz10 and encode_lz11 *)

\* remember, for the positions first .. last in this order: a position leaves its
\* key's bucket when a later one of that key is too far from it.
Remembered(first, last) ==
  LET new == {p \in first .. last : HasKey(p)} IN
  {p \in positions \cup new :
     \A q \in new : p < q /\ KeyOf(p) = KeyOf(q) => q - p <= Window}

MatchAt(c) ==
  LET maximum == Smaller(Longest, Len(payload) - cursor + 1)
      Fits(n) == \A i \in 0 .. n - 1 : payload[c + i] = payload[cursor + i] IN
  CHOOSE n \in Shortest .. maximum : Fits(n) /\ ~(n < maximum /\ Fits(n + 1))

\* Mutant: a candidate may be one position too far away.
Candidates_TooFar ==
  IF ~HasKey(cursor) THEN {}
  ELSE {c \in positions : KeyOf(c) = KeyOf(cursor) /\ cursor - c <= Window + 1}

Candidates ==
  IF ~HasKey(cursor) THEN {}
  ELSE {c \in positions : KeyOf(c) = KeyOf(cursor) /\ cursor - c <= Window}

\* The longest match, and of those the nearest.
Best ==
  CHOOSE c \in Candidates : \A o \in Candidates :
    MatchAt(o) < MatchAt(c) \/ (MatchAt(o) = MatchAt(c) /\ o <= c)

Reference(length, displacement) ==
  LET Bits(code, width) == [marker |-> (code * Window + displacement) \div width,
                            rest |-> (code * Window + displacement) % width] IN
  CASE format = "lz10"      -> Bits(length - Shortest, Window)
    [] format = "lz11" /\ length < LongBase  -> Bits(length - 1, Window)
    [] format = "lz11" /\ length >= LongBase -> Bits(length - LongBase, LongCodes * Window)

OpenGroup ==
  /\ phase = "encode" /\ group.at = 0 /\ cursor <= Len(payload)
  /\ output' = Append(output, [flags |-> <<>>])
  /\ group' = [at |-> Len(output) + 1, flags |-> <<>>]
  /\ UNCHANGED <<task, positions, cursor, decoder, phase>>

Emit(cell, flag, length) ==
  /\ output' = Append(output, cell)
  /\ group' = [group EXCEPT !.flags = Append(group.flags, flag)]
  /\ positions' = Remembered(cursor, cursor + length - 1)
  /\ cursor' = cursor + length
  /\ UNCHANGED <<task, decoder, phase>>

Encode ==
  /\ phase = "encode" /\ group.at # 0
  /\ Len(group.flags) < GroupSize /\ cursor <= Len(payload)
  /\ IF Candidates # {}
       THEN Emit(Reference(MatchAt(Best), cursor - Best - 1), TRUE, MatchAt(Best))
       ELSE Emit([byte |-> payload[cursor]], FALSE, 1)

\* The flags are written over the byte that holds their place.
CloseGroup ==
  /\ phase = "encode" /\ group.at # 0
  /\ Len(group.flags) = GroupSize \/ cursor > Len(payload)
  /\ output' = [output EXCEPT ![group.at] = [flags |-> group.flags]]
  /\ group' = NoGroup
  /\ UNCHANGED <<task, positions, cursor, decoder, phase>>

Encoded ==
  /\ phase = "encode" /\ group.at = 0 /\ cursor > Len(payload)
  /\ phase' = "decode"
  /\ UNCHANGED <<task, encoder, group, decoder>>

------------------------------------------------------------------------------
(* decode_lz10 and decode_lz11, given the length of the payload in the header. *)
(* The flags that are left of a group are in group.flags.  A marker of 1 in    *)
(* lz11 stands before lengths that the encoder does not make.                  *)

Whole == Len(decoded) >= Len(payload)

LengthOf(cell) ==
  CASE format = "lz10" -> cell.marker + Shortest
    [] format = "lz11" /\ cell.marker = 0 -> (cell.rest \div Window) + LongBase
    [] format = "lz11" /\ cell.marker # 0 -> cell.marker + 1
DistanceOf(cell) == (cell.rest % Window) + 1

Reject == phase' = "error" /\ UNCHANGED <<task, encoder, group, decoder>>

DecodeFlags ==
  /\ phase = "decode" /\ ~Whole /\ group.flags = <<>>
  /\ IF source > Len(output) THEN Reject
     ELSE /\ group' = [group EXCEPT !.flags = output[source].flags]
          /\ source' = source + 1
          /\ UNCHANGED <<task, encoder, decoded, phase>>

\* A byte at a time, so that a reference may reach into its own copy.
Copy(distance, length) ==
  LET n == Smaller(length, Len(payload) - Len(decoded)) IN
  decoded \o [i \in 1 .. n |-> decoded[Len(decoded) - distance + 1 + ((i - 1) % distance)]]

DecodeToken ==
  /\ phase = "decode" /\ ~Whole /\ group.flags # <<>>
  /\ IF source > Len(output) \/ (Head(group.flags)
                                 /\ DistanceOf(output[source]) > Len(decoded)) THEN Reject
     ELSE /\ decoded' = LET cell == output[source] IN
                        IF Head(group.flags) THEN Copy(DistanceOf(cell), LengthOf(cell))
                                             ELSE Append(decoded, cell.byte)
          /\ group' = [group EXCEPT !.flags = Tail(group.flags)]
          /\ source' = source + 1
          /\ UNCHANGED <<task, encoder, phase>>

Decoded ==
  /\ phase = "decode" /\ Whole
  /\ phase' = "done"
  /\ UNCHANGED <<task, encoder, group, decoder>>

Next ==
  \/ OpenGroup \/ Encode \/ CloseGroup \/ Encoded
  \/ DecodeFlags \/ DecodeToken \/ Decoded

Spec == Init /\ [][Next]_vars

------------------------------------------------------------------------------
(* Properties *)

\* What was encoded is decoded to the same bytes, and to the last of its own,
\* for every payload: with references that reach into their own copy, at the
\* edge of the window and of each class of lengths, and with a last group that
\* is not full (forecast.py, lz11.py).
EncodedReadsBack ==
  /\ phase # "error"
  /\ decoded = SubSeq(payload, 1, Len(decoded))
  /\ phase = "done" => decoded = payload /\ source = Len(output) + 1
===============================================================================
