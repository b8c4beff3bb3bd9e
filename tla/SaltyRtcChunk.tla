---------------------------- MODULE SaltyRtcChunk ----------------------------
(***************************************************************************)
(* The chunks in which GraphQL messages and file uploads travel over a     *)
(* data channel (crates/data_channel/src/saltyrtc_chunk.rs): the encoder   *)
(* that splits a message, and the decoder that puts messages together from *)
(* chunks that arrive in any order.  The bytes of a payload are abstracted *)
(* to its size and to a token that tells whose part it is.                 *)
(***************************************************************************)
EXTENDS Integers, FiniteSets, FiniteSetsExt, Functions, SequencesExt

CONSTANT ChunkPayload   \* bytes of payload of a full chunk of the server (u16::MAX - header)

ASSUME ChunkAssumption == ChunkPayload \in Nat \ {0, 1}

Modes == {"ReliableOrdered", "UnreliableUnordered"}

\* The bytes of a header, the bit field included.
HeaderBytes(mode, multipart) ==
  (IF mode = "ReliableOrdered" THEN 1 ELSE 9) + (IF multipart THEN 4 ELSE 0)

\* Long headers alone carry the id of the message and the serial of the chunk.
Chunk(mode, id, serial, last, multipart, start, bytes, token) ==
  [mode |-> mode, last |-> last, multipart |-> multipart,
   id |-> IF mode = "ReliableOrdered" THEN 0 ELSE id,
   serial |-> IF mode = "ReliableOrdered" THEN 0 ELSE serial,
   start |-> IF multipart THEN start ELSE 0,
   len |-> HeaderBytes(mode, multipart) + bytes, token |-> token]

\* A message of some bytes becomes full chunks and one with what is left; an
\* empty message becomes no chunk at all.
ChunkCount(bytes, max) == (bytes + max - 1) \div max

\* mutant: serials start at one
EncodeMessageFromOne(mode, id, bytes) ==
  LET n == ChunkCount(bytes, ChunkPayload) IN
  [i \in 1 .. n |->
     Chunk(mode, id, i, i = n, FALSE, 0,
           IF i = n THEN bytes - (n - 1) * ChunkPayload ELSE ChunkPayload, <<id, i>>)]

EncodeMessage(mode, id, bytes) ==
  LET n == ChunkCount(bytes, ChunkPayload) IN
  [i \in 1 .. n |->
     Chunk(mode, id, i - 1, i = n, FALSE, 0,
           IF i = n THEN bytes - (n - 1) * ChunkPayload ELSE ChunkPayload, <<id, i>>)]

-----------------------------------------------------------------------------
\* The decoder keeps what it has of each message that is not complete.

NoFinal == -1
NewPartial == [serials |-> {}, sections |-> << >>, final |-> NoFinal]

Partial(partials, id) == IF id \in DOMAIN partials THEN partials[id] ELSE NewPartial

\* mutant: the header is taken to be longer than it is
RefusedEarly(mode, c) == c.mode # mode \/ c.len - 1 < HeaderBytes(mode, c.multipart) + 2

\* The length is compared when the byte of the bit field has been taken off.
Refused(mode, c) ==
  \/ c.len < 1
  \/ c.mode # mode
  \/ c.len - 1 < HeaderBytes(mode, c.multipart) + 1

\* A chunk that is in its section already is replaced by the later one.
AddToSection(sections, c) ==
  LET section == IF c.start \in DOMAIN sections THEN sections[c.start] ELSE << >>
      grown   == [s \in DOMAIN section \cup {c.serial} |->
                    IF s = c.serial THEN c.token ELSE section[s]]
  IN  [s \in DOMAIN sections \cup {c.start} |->
         IF s = c.start THEN grown ELSE sections[s]]

\* The order of a BTreeMap's keys.
Ascending(S) ==
  [i \in 1 .. Cardinality(S) |-> CHOOSE x \in S : Cardinality({y \in S : y < x}) = i - 1]

Content(section) == LET order == Ascending(DOMAIN section)
                    IN  [i \in DOMAIN order |-> section[order[i]]]

\* The section that comes first is the message, the others are its files.
CompleteMessage(partial) ==
  LET order == Ascending(DOMAIN partial.sections)
      sections == [i \in DOMAIN order |-> Content(partial.sections[order[i]])]
  IN  [payload |-> Head(sections), files |-> Tail(sections)]

\* mutant: completion is looked at with the last chunk only
CompleteAtTheLast(mode, c, partial) ==
  /\ c.last
  /\ mode = "ReliableOrdered" \/ Cardinality(partial.serials) = partial.final + 1

\* mutant: the last chunk completes a message, whatever is still on its way
CompleteByTheLast(mode, c, partial) == c.last

\* Over an ordered link the last chunk completes a message; over another, the
\* number of its chunks does, once the last one has told it.
Complete(mode, c, partial) ==
  IF mode = "ReliableOrdered" THEN c.last
  ELSE partial.final # NoFinal /\ Cardinality(partial.serials) = partial.final + 1

\* What one chunk does: it is refused, and the channel ends; it is a duplicate;
\* or it is kept, and completes the message if all its chunks are there.
Decode(mode, partials, c) ==
  LET reliable == mode = "ReliableOrdered"
      old == Partial(partials, c.id)
      duplicate == ~reliable /\ c.serial \in old.serials
      new == [serials  |-> old.serials \cup {c.serial},
              sections |-> AddToSection(old.sections, c),
              final    |-> IF c.last /\ ~reliable THEN c.serial ELSE old.final]
      complete == Complete(mode, c, new)
  IN
  CASE Refused(mode, c) -> [ok |-> FALSE, partials |-> partials, message |-> << >>]
    [] ~Refused(mode, c) /\ duplicate -> [ok |-> TRUE, partials |-> partials, message |-> << >>]
    [] ~Refused(mode, c) /\ ~duplicate /\ complete ->
         [ok |-> TRUE, partials |-> Restrict(partials, DOMAIN partials \ {c.id}),
          message |-> <<CompleteMessage(new)>>]
    [] OTHER -> [ok |-> TRUE, message |-> << >>,
                 partials |-> [i \in DOMAIN partials \cup {c.id} |->
                                 IF i = c.id THEN new ELSE partials[i]]]
=============================================================================
