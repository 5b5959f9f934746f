------------------------------- MODULE Framing -------------------------------
(***************************************************************************)
(* The wire format of message/serializer.hpp and message/helper.hpp:       *)
(*                                                                         *)
(*    content length | message type | payload                              *)
(*                                                                         *)
(* with both integers big-endian.  A byte is a digit in base Base, and the *)
(* widths are constants, so that a small instance has short headers whose  *)
(* integers still take more than one byte.                                 *)
(***************************************************************************)
EXTENDS Integers, Sequences, SequencesExt

CONSTANTS
  Base,        \* values of a byte: 256
  ContentLen,  \* kContentLen: 8
  TypeLen,     \* kType: 4
  MaxPayload   \* kMaxPayloadSize: 64 * 1024

ASSUME FramingAssumption ==
  /\ {Base, ContentLen, TypeLen, MaxPayload} \subseteq Nat \ {0}
  /\ MaxPayload + 1 < Base ^ ContentLen

HeaderSize == ContentLen + TypeLen

(* The bytes that mset_be appends for an integer of the given width. *)
MsetBe(value, width) == [n \in 1..width |-> (value \div Base ^ (width - n)) % Base]

(* The integer mget_be reads from bytes. *)
MgetBe(bytes) == FoldLeft(LAMBDA value, byte : value * Base + byte, 0, bytes)

(* serialize(), for a payload that its caller keeps within MaxPayload. *)
Serialize(type, payload) ==
  MsetBe(Len(payload), ContentLen) \o MsetBe(type, TypeLen) \o payload

Incomplete == [status |-> "incomplete"]
Invalid == [status |-> "invalid"]

(* The frame that starts a buffer which holds all of it. *)
Frame(buffer, size) ==
  [status |-> "complete", size |-> size,
   type |-> MgetBe(SubSeq(buffer, ContentLen + 1, HeaderSize)),
   payload |-> SubSeq(buffer, HeaderSize + 1, size)]

(* Variant of DestructBuffer: refuses the largest payload too. *)
DestructStrict(buffer) ==
  IF Len(buffer) < ContentLen
  THEN Incomplete
  ELSE LET length == MgetBe(SubSeq(buffer, 1, ContentLen))
       IN  IF length >= MaxPayload THEN Invalid
           ELSE IF Len(buffer) < HeaderSize + length THEN Incomplete
           ELSE Frame(buffer, HeaderSize + length)

(* destruct_buffer(): the first frame of a buffer.  A length over the      *)
(* limit is refused as soon as it is there, before the type has arrived.   *)
DestructBuffer(buffer) ==
  IF Len(buffer) < ContentLen
  THEN Incomplete
  ELSE LET length == MgetBe(SubSeq(buffer, 1, ContentLen))
       IN  IF length > MaxPayload THEN Invalid
           ELSE IF Len(buffer) < HeaderSize + length THEN Incomplete
           ELSE Frame(buffer, HeaderSize + length)

=============================================================================
