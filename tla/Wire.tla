-------------------------------- MODULE Wire --------------------------------
(***************************************************************************)
(* What crosses the network: frames (frame.cpp, encode.cpp, verify.cpp)    *)
(* and the chunks of a bulk asset (invariants.cpp, with the two ends that  *)
(* cut and reassemble them, session.cpp and task_loop.cpp).                *)
(*                                                                         *)
(* A frame is its size, the fields of its header, and what the FlatBuffers *)
(* verifier would say of its envelope.  Lengths are those of size_t: the   *)
(* browser's worker is a 32-bit program, so sums wrap at SizeMax.          *)
(***************************************************************************)
EXTENDS Integers, FiniteSets

CONSTANTS
  HeaderBytes,    \* kHeaderBytes
  MaxEnvelope,    \* kMaxEnvelopeBytes
  MaxOutput,      \* kMaxOutputBytes
  SizeMax,        \* size_t counts modulo SizeMax, and so does fb_len
  FrameSizes,     \* bound: sizes of the foreign frames looked at
  ChunkBytes,     \* kChunkBytes
  AssetSizes      \* bound: sizes of the assets looked at

ASSUME WireAssumption ==
  /\ HeaderBytes \in Nat \ {0} /\ MaxEnvelope \in Nat /\ MaxOutput \in Nat
  /\ SizeMax \in Nat /\ HeaderBytes + MaxEnvelope + MaxOutput < SizeMax
  /\ FrameSizes \subseteq 0 .. (SizeMax - 1)
  /\ ChunkBytes \in 1 .. (SizeMax - 1)
  /\ AssetSizes \subseteq 1 .. (SizeMax - 1)

VARIABLES
  frame,      \* the frame that arrived
  parts,      \* what its sender put in, <<envelope, payload>>, or <<>> for a stranger's
  verdict,    \* what became of it; "None" before it arrives
  assetSize,  \* AssetFetch::expected_bytes, the coordinator's word
  landed,     \* AssetFetch::have and bytes: the length each chunk has brought
  fate        \* what became of the last chunk, and whether a holder cut it

wireVars == <<frame, parts, verdict, assetSize, landed, fate>>

WireFrame == [aligned : BOOLEAN, size : FrameSizes, magic : BOOLEAN, version : BOOLEAN,
              flag : BOOLEAN, fbLen : 0 .. (SizeMax - 1), reserved : BOOLEAN,
              verifies : BOOLEAN, body : BOOLEAN]

-----------------------------------------------------------------------------
(* Frames.                                                                 *)

\* EncodeFrame around an envelope this code built.
EncodeFrame(envelope, payload) ==
  [aligned |-> TRUE, size |-> HeaderBytes + envelope + payload, magic |-> TRUE,
   version |-> TRUE, flag |-> payload > 0, fbLen |-> envelope, reserved |-> FALSE,
   verifies |-> TRUE, body |-> TRUE]

\* A buffer that is not aligned is copied into one that is.
AlignFrame(f) == [f EXCEPT !.aligned = TRUE]

FbEnd(f) == (HeaderBytes + f.fbLen) % SizeMax

\* Mutant of FbTooLong: the bound is looked at after the sum, on the sum.
FbEndTooLong(f) == FbEnd(f) > HeaderBytes + MaxEnvelope

FbTooLong(f) == f.fbLen > MaxEnvelope

PayloadSize(f) == f.size - FbEnd(f)

\* SplitFrame, then the verifier, in the order of the code: the first check
\* that fails is the answer.
VerifyFrame(f) ==
  LET checks ==
        << <<~f.aligned,                          "Internal">>,
           <<f.size < HeaderBytes,                "MalformedMessage">>,
           <<~f.magic,                            "MalformedMessage">>,
           <<~f.version,                          "VersionMismatch">>,
           <<FbTooLong(f),                        "PayloadTooLarge">>,
           <<f.size < FbEnd(f),                   "MalformedMessage">>,
           <<f.flag /= (PayloadSize(f) > 0),      "OrphanPayload">>,
           <<f.reserved,                          "MalformedMessage">>,
           <<PayloadSize(f) > MaxOutput,          "PayloadTooLarge">>,
           <<~f.verifies,                         "MalformedMessage">>,
           <<~f.body,                             "MalformedMessage">> >>
      failed == {i \in DOMAIN checks : checks[i][1]}
  IN  IF failed = {} THEN "Verified"
      ELSE checks[CHOOSE i \in failed : \A j \in failed : i <= j][2]

\* One of ours arrives, in a buffer the transport may have misaligned.
OwnArrives(envelope, payload, aligned) ==
  /\ frame' = AlignFrame([EncodeFrame(envelope, payload) EXCEPT !.aligned = aligned])
  /\ parts' = <<envelope, payload>>
  /\ verdict' = VerifyFrame(frame')
  /\ UNCHANGED <<assetSize, landed, fate>>

StrangerArrives(f) ==
  /\ frame' = AlignFrame(f)
  /\ parts' = <<>>
  /\ verdict' = VerifyFrame(frame')
  /\ UNCHANGED <<assetSize, landed, fate>>

-----------------------------------------------------------------------------
(* Chunks.                                                                 *)

ChunkCount(size) == (size + ChunkBytes - 1) \div ChunkBytes

\* ChunkOffset refuses an index whose product would wrap, by a division.
HasOffset(i) == i <= (SizeMax - 1) \div ChunkBytes
ChunkOffset(i) == (i * ChunkBytes) % SizeMax

\* How much of an asset a holder puts into chunk i.
CutLength(size, i) ==
  LET left == size - ChunkOffset(i) IN IF left < ChunkBytes THEN left ELSE ChunkBytes

\* OnAssetRequest and ServePeerAssetRequest: the chunks of a request.
Served(size, from, to) ==
  {[index |-> i, total |-> ChunkCount(size), bytes |-> CutLength(size, i)] :
     i \in {j \in from .. (to - 1) : j < ChunkCount(size) /\ HasOffset(j)
                                       /\ ChunkOffset(j) < size}}

CheckAssetChunk(c, expected) ==
  /\ c.total = expected
  /\ c.index < c.total
  /\ c.bytes <= ChunkBytes
  /\ c.bytes = ChunkBytes \/ c.index + 1 = c.total
  /\ HasOffset(c.index)

\* Mutant of Wanted: the last chunk may be short.
WantedAtMost(c) ==
  c.bytes = ChunkBytes \/ c.index + 1 = ChunkCount(assetSize)

\* The length a chunk must have at its place.
Wanted(c) ==
  c.bytes = IF c.index + 1 = ChunkCount(assetSize)
              THEN assetSize - (ChunkCount(assetSize) - 1) * ChunkBytes ELSE ChunkBytes

InsideBuffer(c) == ChunkOffset(c.index) + c.bytes <= assetSize

\* HandleAssetChunk while a fetch is open: taken, had already, or the fetch
\* is abandoned, and then begins anew with nothing.
HandleChunk(c, holder) ==
  LET fits == CheckAssetChunk(c, ChunkCount(assetSize)) /\ InsideBuffer(c)
  IN  /\ \/ /\ fits /\ c.index \in DOMAIN landed
            /\ fate' = [holder |-> holder, took |-> TRUE] /\ UNCHANGED landed
         \/ /\ fits /\ c.index \notin DOMAIN landed /\ Wanted(c)
            /\ fate' = [holder |-> holder, took |-> TRUE]
            /\ landed' = [i \in DOMAIN landed \cup {c.index} |->
                            IF i = c.index THEN c.bytes ELSE landed[i]]
         \/ /\ ~fits \/ (c.index \notin DOMAIN landed /\ ~Wanted(c))
            /\ fate' = [holder |-> holder, took |-> FALSE]
            /\ landed' = [i \in {} |-> 0]
      /\ UNCHANGED <<frame, parts, verdict, assetSize>>

\* VerifyAssetMsg drops a message that does not verify; that changes nothing.
HolderSends(from, to) == \E c \in Served(assetSize, from, to) : HandleChunk(c, TRUE)

StrangerSends(c) == HandleChunk(c, FALSE)

-----------------------------------------------------------------------------
WireBegins(size) ==
  /\ frame = EncodeFrame(0, 0) /\ parts = <<>> /\ verdict = "None"
  /\ assetSize = size
  /\ landed = [i \in {} |-> 0]
  /\ fate = [holder |-> FALSE, took |-> TRUE]

WireInit == \E size \in AssetSizes : WireBegins(size)

FrameArrives ==
  \/ \E e \in 0 .. MaxEnvelope, p \in 0 .. MaxOutput, aligned \in BOOLEAN :
       OwnArrives(e, p, aligned)
  \/ \E f \in WireFrame : StrangerArrives(f)

ChunkArrives ==
  \/ \E i \in 0 .. (ChunkCount(assetSize) - 1) : HolderSends(i, i + 1)
  \/ \E i, t \in 0 .. (ChunkCount(assetSize) + 1), n \in 0 .. (ChunkBytes + 1) :
       StrangerSends([index |-> i, total |-> t, bytes |-> n])

\* Verifying a frame keeps nothing, so one frame or one fetch is looked at.
WireNext ==
  \/ verdict = "None" /\ DOMAIN landed = {} /\ FrameArrives
  \/ verdict = "None" /\ ChunkArrives

WireSpec == WireInit /\ [][WireNext]_wireVars

-----------------------------------------------------------------------------
(* Properties.                                                             *)

\* The envelope and the payload of an accepted frame are the frame's own
\* bytes, all of them and nothing past its end, for every fb_len a stranger
\* may write, also where size_t wraps ("reversing them reintroduces the
\* classic wrap", frame.hpp:105), and both are within their limits.
RegionsInsideFrame ==
  verdict = "Verified" =>
    /\ HeaderBytes + frame.fbLen + PayloadSize(frame) = frame.size
    /\ frame.fbLen <= MaxEnvelope /\ PayloadSize(frame) \in 0 .. MaxOutput

\* What one side encodes within the limits the other accepts and takes apart
\* as it was put together, wherever the receive buffer begins.
OwnFrameComesThrough ==
  parts # <<>> => /\ verdict = "Verified"
                  /\ parts = <<frame.fbLen, PayloadSize(frame)>>

\* The two ends agree on what a frame is: all that one may send the other
\* takes, and what it takes is inside the frame.
FramesAgree == RegionsInsideFrame /\ OwnFrameComesThrough

\* Whoever the chunks come from, when the last one is there they fill the
\* buffer and no byte was written twice: no hole is left to the hash.
ReassembledIsWhole ==
  LET bytes(i) == (i * ChunkBytes) .. (i * ChunkBytes + landed[i] - 1)
  IN  /\ \A i, j \in DOMAIN landed : i # j => bytes(i) \cap bytes(j) = {}
      /\ Cardinality(DOMAIN landed) = ChunkCount(assetSize)
           => UNION {bytes(i) : i \in DOMAIN landed} = 0 .. (assetSize - 1)

\* The two ends agree on how an asset is cut: a chunk of somebody who holds
\* the asset never costs the fetch, the last and shorter one included.
ServedIsTaken == fate.holder => fate.took

\* The two ends agree on how an asset is cut, so that honest chunks are taken
\* and the chunks that were taken are the whole of it.
ChunksAgree == ReassembledIsWhole /\ ServedIsTaken
=============================================================================
