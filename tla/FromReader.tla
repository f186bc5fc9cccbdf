----------------------------- MODULE FromReader -----------------------------
(***************************************************************************)
(* A text that comes in pieces.  A program reads a rope with               *)
(* Rope::from_reader, or feeds a RopeBuilder chunk by chunk.  How many     *)
(* bytes a read returns is up to the reader: a read may end inside a code  *)
(* point, which is kept back in the buffer until the rest of it has come.  *)
(* What the builder makes of the chunks is in Builder.                     *)
(***************************************************************************)
EXTENDS RopeText, SequencesExt

CONSTANTS
  Inputs,  (* byte sequences that a reader hands out.                      *)
  Feeds    (* texts that are fed to a builder, in chunks.                  *)

ASSUME InputsAssumption == Inputs \subseteq Seq(Byte)
ASSUME FeedsAssumption == Feeds \subseteq {t \in Seq(Byte) : Utf8(t)}

VARIABLES
  coming,    \* the bytes that the reader, or the feeding program, has left
  given,     \* those that it has handed out
  buffer,    \* the buffer of from_reader, of which
  fill_idx,  \* so many bytes are from the reader and not in the builder
  appended,  \* the chunks that were appended to the RopeBuilder
  at         \* which call is being made, or what the last one returned

reading == <<buffer, fill_idx>>
intake == <<coming, given, reading, appended, at>>

BUFFER_SIZE == MAX_BYTES * 2

-----------------------------------------------------------------------------
(* std: from_utf8 and Utf8Error::valid_up_to                               *)

IsUtf8(t) == Utf8(t)

\* How many bytes of t, from its start, are whole chars.
ValidUpTo(t) == Max({b \in 0..Len(t) : Utf8(Slice(t, 0, b))})

-----------------------------------------------------------------------------
(* from_reader                                                             *)

\* Mutant: what is read is inserted into the buffer.
InsertedInto(b, fill, bytes) == Slice(b, 0, fill) \o bytes \o From(b, fill)

ReadInto(b, fill, bytes) == Slice(b, 0, fill) \o bytes \o From(b, fill + Len(bytes))

\* Mutant: what is kept back stays where it was.
NotShifted(b, valid, fill) == b

\* buffer.copy_within(valid..fill, 0)
Shifted(b, valid, fill) ==
  IF valid < fill THEN Slice(b, valid, fill) \o From(b, fill - valid) ELSE b

Fed(chunk) == IF chunk = <<>> THEN appended ELSE Append(appended, chunk)

\* Mutant: an end of the stream inside a code point is waited out.
AfterReadPatient(n, left) ==
  CASE left = BUFFER_SIZE -> "invalid"
    [] left # BUFFER_SIZE /\ n = 0 /\ left = 0 -> "built"
    [] left # BUFFER_SIZE /\ (n # 0 \/ left > 0) -> "from_reader"

\* Mutant: what is left at the end of the stream is dropped.
AfterReadLossy(n, left) ==
  CASE left = BUFFER_SIZE -> "invalid"
    [] left # BUFFER_SIZE /\ n = 0 -> "built"
    [] left # BUFFER_SIZE /\ n # 0 -> "from_reader"

\* After a read of n bytes, when so many could not be consumed: the call goes
\* on, or returns a rope or an error.
AfterRead(n, left) ==
  CASE left = BUFFER_SIZE \/ (n = 0 /\ left > 0) -> "invalid"
    [] left = 0 /\ n = 0 -> "built"
    [] left # BUFFER_SIZE /\ n # 0 -> "from_reader"

\* The buffer b holds fill bytes, valid of them whole chars, n of them new.
Consume(b, fill, valid, n) ==
  /\ buffer' = Shifted(b, valid, fill)
  /\ fill_idx' = fill - valid
  /\ appended' = Fed(Slice(b, 0, valid))
  /\ at' = AfterRead(n, fill - valid)

\* A read returns some of what is coming, and nothing only if nothing is, or if
\* there is no room for it.
Read ==
  /\ at = "from_reader"
  /\ \E n \in 0..Min2(BUFFER_SIZE - fill_idx, Len(coming)) :
       /\ n = 0 => coming = <<>> \/ fill_idx = BUFFER_SIZE
       /\ coming' = From(coming, n)
       /\ given' = given \o Slice(coming, 0, n)
       /\ \E b \in {ReadInto(buffer, fill_idx, Slice(coming, 0, n))} :
          \E valid \in {ValidUpTo(Slice(b, 0, fill_idx + n))} :
            Consume(b, fill_idx + n, valid, n)

ReadFails ==
  /\ at = "from_reader"
  /\ at' = "read error"
  /\ UNCHANGED <<coming, given, reading, appended>>

-----------------------------------------------------------------------------
(* RopeBuilder::append and finish, as FromIterator calls them              *)

AppendChunk ==
  /\ at = "feeding"
  /\ \E n \in {k \in 1..Len(coming) : IsCharBoundary(coming, k)} :
       /\ coming' = From(coming, n)
       /\ given' = given \o Slice(coming, 0, n)
       /\ appended' = Append(appended, Slice(coming, 0, n))
  /\ UNCHANGED <<reading, at>>

FinishBuild ==
  /\ at = "feeding"
  /\ coming = <<>>
  /\ at' = "built"
  /\ UNCHANGED <<coming, given, reading, appended>>

-----------------------------------------------------------------------------

ReaderInit ==
  /\ \/ at = "from_reader" /\ coming \in Inputs
     \/ at = "feeding" /\ coming \in Feeds
  /\ given = <<>>
  /\ buffer = [i \in 1..BUFFER_SIZE |-> Ascii]
  /\ fill_idx = 0
  /\ appended = <<>>

ReaderNext == Read \/ ReadFails \/ AppendChunk \/ FinishBuild

ReaderSpec == ReaderInit /\ [][ReaderNext]_intake

-----------------------------------------------------------------------------
(* Properties                                                              *)

ReaderTyped ==
  /\ coming \in Seq(Byte) /\ given \in Seq(Byte)
  /\ buffer \in Seq(Byte) /\ Len(buffer) = BUFFER_SIZE
  /\ fill_idx \in 0..BUFFER_SIZE
  /\ appended \in Seq(Seq(Byte))
  /\ at \in {"from_reader", "read error", "invalid", "feeding", "built"}

\* However the bytes are cut into reads or chunks, what has come is what was
\* appended to the builder and what from_reader keeps back: nothing is lost,
\* doubled, or read from the buffer after it was consumed.  What is appended
\* is whole chars, as the unsafe block claims.  from_reader keeps back what
\* follows the last whole char, and no more; so it never asks its reader for no
\* bytes, whose answer it would take for the end.
NothingLost ==
  /\ FlattenSeq(appended) \o Slice(buffer, 0, fill_idx) = given
  /\ \A i \in DOMAIN appended : IsUtf8(appended[i])
  /\ at = "from_reader" =>
       /\ fill_idx = Len(given) - ValidUpTo(given)
       /\ fill_idx < BUFFER_SIZE

\* A rope is returned for the whole stream and only if that is UTF-8, and
\* invalid data is reported only if it is not.
OutcomeRight ==
  /\ at = "built" => coming = <<>> /\ FlattenSeq(appended) = given /\ IsUtf8(given)
  /\ at = "invalid" => ~ IsUtf8(given)
=============================================================================
