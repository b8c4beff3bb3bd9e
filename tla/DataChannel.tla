---------------------------- MODULE DataChannel ----------------------------
(***************************************************************************)
(* The server's side of its clients' connections (crates/data_channel): a  *)
(* subscription at the signalling server announces clients, each is given  *)
(* a WebSocket of its own by way of a bridge, and GraphQL messages travel  *)
(* over it in the chunks of SaltyRtcChunk.  The client's encoder is that   *)
(* of the web interface (webrtc/saltyRTCChunk.ts).  Its chunks are marked  *)
(* unreliable and unordered, so that the decoder is to put up with a link  *)
(* that reorders, loses and repeats them.                                  *)
(***************************************************************************)
EXTENDS SaltyRtcChunk

CONSTANTS
  Sessions,
  MessagePayload, \* bytes of payload of a full chunk of a client's message (256 KiB - header)
  FilePayload,    \* of one of its files: the header has 4 bytes more
  Shapes,         \* messages of clients: the bytes of payload and of each file
  MaxSent,        \* how many messages the clients send
  MaxLinkFaults   \* how often a link or a connection fails

ASSUME ChannelAssumption ==
  /\ IsFiniteSet(Sessions) /\ MaxSent \in Nat /\ MaxLinkFaults \in Nat
  /\ MessagePayload \in Nat \ {0, 1} /\ FilePayload \in Nat \ {0, 1}

\* The payload is JSON and never empty. A file may be.
ASSUME ShapesAssumption ==
  \A shape \in Shapes : shape \in Seq(Nat) /\ shape # << >> /\ Head(shape) > 0

VARIABLES
  signalling,   \* the connection to the signalling server
  signals,      \* announced clients that are still to be connected
  channels,     \* each session's channel, as the server has it
  links,        \* chunks on their way to the server
  sentMessages, \* history: what each session has sent, by the message's id
  repeated,     \* history: messages of which a chunk came twice
  lost,         \* history: messages of which a chunk got lost
  linkFaults

channelVars == <<signalling, signals, channels, links, sentMessages, repeated, lost,
                 linkFaults>>

ChannelMode == "UnreliableUnordered"

NoChannel == [open |-> FALSE, refused |-> FALSE, partials |-> << >>, got |-> << >>,
              replies |-> << >>]

ChannelInit ==
  /\ signalling = "connecting"
  /\ signals = << >>
  /\ channels = [s \in Sessions |-> NoChannel]
  /\ links = [s \in Sessions |-> {}]
  /\ sentMessages = [s \in Sessions |-> << >>]
  /\ repeated = {} /\ lost = {}
  /\ linkFaults = 0

LinkFault == linkFaults < MaxLinkFaults /\ linkFaults' = linkFaults + 1

channelHistory == <<sentMessages, repeated, lost>>

-----------------------------------------------------------------------------
\* listen_for_signalling: connect, await the acknowledgement, subscribe, and
\* start over 100 ms after any error or the end of the stream.

ConnectSignalling ==
  /\ signalling = "connecting" /\ signalling' = "initialising"
  /\ UNCHANGED <<signals, channels, links, channelHistory, linkFaults>>

AcknowledgeInit ==
  /\ signalling = "initialising" /\ signalling' = "listening"
  /\ UNCHANGED <<signals, channels, links, channelHistory, linkFaults>>

\* What had been announced over a connection that ends is gone with it.
LoseSignalling ==
  /\ signalling \in {"initialising", "listening"}
  /\ LinkFault
  /\ signalling' = "waiting" /\ signals' = << >>
  /\ UNCHANGED <<channels, links, channelHistory>>

RetrySignalling ==
  /\ signalling = "waiting" /\ signalling' = "connecting"
  /\ UNCHANGED <<signals, channels, links, channelHistory, linkFaults>>

\* A client that has no channel asks for one; it asks again if nobody listens.
AskForChannel(s) ==
  /\ signalling = "listening" /\ ~channels[s].open /\ s \notin ToSet(signals)
  /\ signals' = Append(signals, s)
  /\ UNCHANGED <<signalling, channels, links, channelHistory, linkFaults>>

\* The channel runs in a task of its own, with ids of messages that start over.
ConnectClient ==
  /\ signalling = "listening" /\ signals # << >>
  /\ LET s == Head(signals) IN
       /\ channels' = [channels EXCEPT ![s] = [NoChannel EXCEPT !.open = TRUE]]
       /\ links' = [links EXCEPT ![s] = {}]
       /\ sentMessages' = [sentMessages EXCEPT ![s] = << >>]
       /\ repeated' = {r \in repeated : r[1] # s}
       /\ lost' = {r \in lost : r[1] # s}
  /\ signals' = Tail(signals)
  /\ UNCHANGED <<signalling, linkFaults>>

\* mutant: the error ends the loop
BridgeFailsForGood ==
  /\ signalling = "listening" /\ signals # << >>
  /\ LinkFault
  /\ signalling' = "ended" /\ signals' = << >>
  /\ UNCHANGED <<channels, links, channelHistory>>

\* The error of one bridge ends the connection to the signalling server.
BridgeFails ==
  /\ signalling = "listening" /\ signals # << >>
  /\ LinkFault
  /\ signalling' = "waiting" /\ signals' = << >>
  /\ UNCHANGED <<channels, links, channelHistory>>

-----------------------------------------------------------------------------
\* A client's message: its payload is the first section, each file is one more,
\* named by the serial of its first chunk.  An empty section has no chunk.

SectionPayload(i) == IF i = 1 THEN MessagePayload ELSE FilePayload
SectionCount(shape, i) == ChunkCount(shape[i], SectionPayload(i))

SectionStart(shape, i) ==
  LET before[j \in 0 .. Len(shape)] ==
        IF j = 0 THEN 0 ELSE before[j - 1] + SectionCount(shape, j)
  IN  before[i - 1]

SectionChunks(id, shape, i) ==
  LET n == SectionCount(shape, i)  first == SectionStart(shape, i) IN
  {Chunk(ChannelMode, id, first + k, i = Len(shape) /\ k = n - 1, first > 0, first,
         IF k = n - 1 THEN shape[i] - k * SectionPayload(i) ELSE SectionPayload(i),
         <<id, first + k>>) : k \in 0 .. n - 1}

ClientChunks(id, shape) ==
  UNION {SectionChunks(id, shape, i) : i \in DOMAIN shape}

SendMessage(s, shape) ==
  /\ channels[s].open
  /\ Cardinality({m \in Sessions \X (1 .. MaxSent) :
                    m[2] <= Len(sentMessages[m[1]])}) < MaxSent
  /\ sentMessages' = [sentMessages EXCEPT ![s] = Append(@, shape)]
  /\ links' = [links EXCEPT ![s] = @ \cup ClientChunks(Len(sentMessages[s]) + 1, shape)]
  /\ UNCHANGED <<signalling, signals, channels, repeated, lost, linkFaults>>

\* What the server answers: here, a message of the size of the one it has got.
AnswerTo(s, message) ==
  LET id == Head(message.payload)[1] IN sentMessages[s][id][1]

\* A refused chunk ends the channel.
ReceiveChunk(s, c, again) ==
  LET d == Decode(ChannelMode, channels[s].partials, c)
      old == channels[s]
  IN
  /\ old.open /\ c \in links[s]
  /\ channels' = [channels EXCEPT ![s] =
       IF ~d.ok THEN [old EXCEPT !.open = FALSE, !.refused = TRUE]
       ELSE [old EXCEPT !.partials = d.partials, !.got = @ \o d.message,
                        !.replies = IF d.message = << >> THEN @
                                    ELSE Append(@, AnswerTo(s, Head(d.message)))]]
  /\ links' = [links EXCEPT ![s] = IF again THEN @ ELSE @ \ {c}]
  /\ repeated' = IF again THEN repeated \cup {<<s, c.id>>} ELSE repeated
  /\ IF again THEN LinkFault ELSE UNCHANGED linkFaults
  /\ UNCHANGED <<signalling, signals, sentMessages, lost>>

LoseChunk(s, c) ==
  /\ channels[s].open /\ c \in links[s]
  /\ LinkFault
  /\ links' = [links EXCEPT ![s] = @ \ {c}]
  /\ lost' = lost \cup {<<s, c.id>>}
  /\ UNCHANGED <<signalling, signals, channels, sentMessages, repeated>>

\* The client leaves, or its socket breaks.
LeaveChannel(s) ==
  /\ channels[s].open
  /\ LinkFault
  /\ channels' = [channels EXCEPT ![s] = NoChannel]
  /\ links' = [links EXCEPT ![s] = {}]
  /\ UNCHANGED <<signalling, signals, channelHistory>>

SignallingStep ==
  \/ ConnectSignalling \/ AcknowledgeInit \/ LoseSignalling \/ RetrySignalling
  \/ ConnectClient \/ BridgeFails

ChannelStep(s) ==
  \/ AskForChannel(s)
  \/ \E shape \in Shapes : SendMessage(s, shape)
  \/ \E c \in links[s] : \/ \E again \in BOOLEAN : ReceiveChunk(s, c, again)
                         \/ LoseChunk(s, c)
  \/ LeaveChannel(s)

ChannelNext == SignallingStep \/ \E s \in Sessions : ChannelStep(s)

\* The server's loop goes on; clients without a channel keep asking, and the
\* link delivers what is on its way.
ChannelFairness ==
  /\ WF_channelVars(ConnectSignalling) /\ WF_channelVars(AcknowledgeInit)
  /\ WF_channelVars(RetrySignalling) /\ WF_channelVars(ConnectClient)
  /\ \A s \in Sessions : WF_channelVars(AskForChannel(s))

ChannelSpec == ChannelInit /\ [][ChannelNext]_channelVars /\ ChannelFairness

-----------------------------------------------------------------------------
(* Properties *)

\* What the decoder can know of a message: its payload and the files that are
\* not empty, of which alone there are chunks.
MessageOf(id, shape) ==
  LET section(i) == [k \in 1 .. SectionCount(shape, i) |->
                       <<id, SectionStart(shape, i) + k - 1>>]
      files == Ascending({i \in DOMAIN shape \ {1} : shape[i] > 0})
  IN  [payload |-> section(1), files |-> [j \in DOMAIN files |-> section(files[j])]]

SentMessage(s, id) == MessageOf(id, sentMessages[s][id])

\* Every message the decoder hands over is one that the client sent, whole and
\* with its files in their order, whatever the link did to its chunks; and only
\* a message of which a chunk was repeated can be handed over twice.
DeliveredIntact ==
  \A s \in Sessions :
    LET got == channels[s].got IN
    /\ \A i \in DOMAIN got : \E id \in DOMAIN sentMessages[s] : got[i] = SentMessage(s, id)
    /\ \A i, j \in DOMAIN got :
         i # j /\ got[i] = got[j] => <<s, Head(got[i].payload)[1]>> \in repeated

\* A message all of whose chunks have arrived has been handed over, and nothing
\* is kept of it, unless a chunk was repeated or its last file is empty: the end
\* of such a message is never told.
NothingStaysPartial ==
  \A s \in Sessions : channels[s].open =>
    \A id \in DOMAIN sentMessages[s] :
      /\ <<s, id>> \notin repeated \cup lost
      /\ \A c \in links[s] : c.id # id
      /\ Last(sentMessages[s][id]) > 0
      =>
        /\ id \notin DOMAIN channels[s].partials
        /\ \E i \in DOMAIN channels[s].got : channels[s].got[i] = SentMessage(s, id)

\* The decoder ends a channel only for a chunk of a single byte of payload.
RefusalHasACause ==
  \A s \in Sessions : channels[s].refused =>
    \E id \in DOMAIN sentMessages[s] : \E i \in DOMAIN sentMessages[s][id] :
      sentMessages[s][id][i] % SectionPayload(i) = 1

\* Chunks that the decoder gets from the last to the first.
DecodedFromTheLast(chunks) ==
  LET n == Len(chunks)
      upto[k \in 0 .. n] ==
        IF k = 0 THEN [ok |-> TRUE, partials |-> << >>, message |-> << >>]
        ELSE IF upto[k - 1].ok
        THEN Decode(ChannelMode, upto[k - 1].partials, chunks[n + 1 - k])
        ELSE upto[k - 1]
  IN  upto[n]

\* What the server's encoder makes of an answer, its decoder puts together again
\* from the last chunk to the first; it refuses those with a chunk of one byte.
AnswersDecode ==
  \A s \in Sessions : \A i \in DOMAIN channels[s].replies :
    LET bytes  == channels[s].replies[i]
        chunks == EncodeMessage(ChannelMode, i - 1, bytes)
        end    == DecodedFromTheLast(chunks)
    IN  /\ end.ok <=> bytes % ChunkPayload # 1
        /\ end.ok => /\ end.partials = << >>
                     /\ end.message = <<[files |-> << >>,
                                         payload |-> [k \in DOMAIN chunks |-> chunks[k].token]]>>

\* A client that asks is connected, although its bridge, the bridge of another
\* or the connection to the signalling server fails.
ClientsConnect == \A s \in Sessions : []<>(channels[s].open)
=============================================================================
