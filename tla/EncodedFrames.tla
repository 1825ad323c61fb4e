----------------------------- MODULE EncodedFrames -----------------------------
(***************************************************************************)
(* The bytes of an encoded frame of a track, from the encoder of one page to the    *)
(* decoder of another: e2ee/worker/FrameCryptor.ts with naluUtils.ts, sifPayload.ts  *)
(* and the escapes of e2ee/utils.ts, and frameMetadata/frameMetadata.ts. Which key   *)
(* is used is in EndToEndEncryption; the cipher is what it can turn a payload into,   *)
(* and it gives back the payload only for the very bytes it was sealed with.         *)
(***************************************************************************)
EXTENDS Integers, Sequences, SequencesExt

CONSTANTS
  Frames,      \* bound: what is sent: its kind, its bytes, what either end is told of the codec,
               \* and what its vector is made from
  Texts,       \* bound: what the cipher makes of a payload
  Infos,       \* bound: the metadata that goes along, and what else a newer writer adds
  SifPayloads, \* the payloads of which the hashes are known
  SifTrailer,  \* what the server ends the frames with that it injects
  Strange      \* a payload of an injected frame that is not known

VARIABLES
  parcel   \* a frame: how far it is, what it was, how it was sealed, its bytes, and what was read

IvLength == 12
Unencrypted == [key |-> 10, delta |-> 3, audio |-> 1]
NoInfo == [time |-> <<>>, id |-> <<>>, user |-> <<>>]

IsVideo(f) == f.kind # "audio"
First(d, n) == SubSeq(d, 1, n)
Rest(d, n)  == SubSeq(d, n + 1, Len(d))
Last4(d)    == SubSeq(d, Len(d) - 3, Len(d))
Least(S)    == CHOOSE x \in S : \A y \in S : x <= y

-----------------------------------------------------------------------------
(* The network abstraction layer units of a frame. *)

\* Where a unit begins, behind a start code of three or four bytes
Starts(d) == {q + 3 : q \in {q \in 1..(Len(d) - 3) : SubSeq(d, q, q + 2) = <<0, 0, 1>>}}

\* findNALUIndices does not look for a unit in the last three bytes.
Nalus(d) == {s \in Starts(d) : s + 3 <= Len(d)}
HasLeadingData(d) ==
  Len(d) > 3 /\ \E i \in DOMAIN d : d[i] # 0 /\ \A s \in Starts(d) : i < s - 3

IsH264Slice(b) == b % 32 \in {1, 5}
IsH265Slice(b) == (b \div 2) % 64 \in (0..9) \union (16..21)

DetectedCodec(d) ==
  LET slices == {s \in Nalus(d) : IsH264Slice(d[s]) \/ IsH265Slice(d[s])} IN
  IF slices = {} THEN "unknown" ELSE IF IsH264Slice(d[Least(slices)]) THEN "h264" ELSE "h265"

Slices(d, codec) ==
  {s \in Nalus(d) : IF codec = "h265" THEN IsH265Slice(d[s]) ELSE codec = "h264" /\ IsH264Slice(d[s])}

\* How much of a frame stays as it is, and whether the rest is escaped. What cannot be told is
\* handled as VP8.
UnencryptedBytes(kind, d, told) ==
  LET codec  == IF told \in {"h264", "h265"} THEN told ELSE DetectedCodec(d)
      slices == Slices(d, codec) IN
  CASE told = "vp9" /\ kind # "audio" -> [bytes |-> 0, nalu |-> FALSE]
    [] kind = "audio" \/ told = "vp8" \/ HasLeadingData(d) \/ slices = {} ->
         [bytes |-> Unencrypted[kind], nalu |-> FALSE]
    [] OTHER -> [bytes |-> Least(slices) + 1, nalu |-> TRUE]

-----------------------------------------------------------------------------
(* Escapes, so that no start code is in what was encrypted. *)

WriteRbsp(d) ==
  FoldLeft(LAMBDA a, b :
             LET escaped == b <= 3 /\ a.zeros >= 2 IN
             [out |-> a.out \o (IF escaped THEN <<3, b>> ELSE <<b>>),
              zeros |-> IF b # 0 THEN 0 ELSE IF escaped THEN 1 ELSE a.zeros + 1],
           [out |-> <<>>, zeros |-> 0], d).out

IsEmulation(d, i) == SubSeq(d, i, i + 2) = <<0, 0, 3>>

\* An escape in the last three bytes is not looked for.
NeedsUnescaping(d) == \E i \in 1..(Len(d) - 3) : IsEmulation(d, i)

ParseRbsp(d) ==
  LET from[i \in 1..(Len(d) + 1)] ==
        IF i > Len(d) THEN <<>>
        ELSE IF i + 2 <= Len(d) /\ IsEmulation(d, i) THEN <<0, 0>> \o from[i + 3]
        ELSE <<d[i]>> \o from[i + 1] IN
  from[1]

-----------------------------------------------------------------------------
(* The metadata behind a frame: entries of a tag, a length and data, all bits turned. *)

Magic == <<76, 75, 84, 83>>
EnvelopeSize == 5
Turned(d) == [i \in DOMAIN d |-> 255 - d[i]]

Entry(tag, data) == IF data = <<>> THEN <<>> ELSE <<tag, Len(data)>> \o data

AppendTrailer(d, info) ==
  LET entries == Entry(1, info.time) \o Entry(2, info.id) \o info.more IN
  IF entries = <<>> THEN d
  ELSE d \o Turned(entries \o <<Len(entries) + EnvelopeSize>>) \o Magic

ReadEntries(d) ==
  LET from[i \in 1..(Len(d) + 1)] ==
        IF i + 1 > Len(d) \/ i + 1 + d[i + 1] > Len(d) THEN <<>>
        ELSE <<[tag |-> d[i], data |-> SubSeq(d, i + 2, i + 1 + d[i + 1])]>> \o from[i + 2 + d[i + 1]] IN
  from[1]

IsKnown(e) == (e.tag = 1 /\ Len(e.data) = 8) \/ (e.tag = 2 /\ Len(e.data) = 4) \/ e.tag = 3

\* The last entry of a tag counts.
ValueOf(tag, entries) ==
  LET found == SelectSeq(entries, LAMBDA e : e.tag = tag) IN
  IF found = <<>> THEN <<>> ELSE Last(found).data

\* Where the trailer is found but holds nothing that is read, it stays.
ExtractTrailer(d) ==
  LET size    == 255 - d[Len(d) - 4]
      entries == SelectSeq(ReadEntries(Turned(SubSeq(d, Len(d) - size + 1, Len(d) - EnvelopeSize))), IsKnown)
      found   == /\ Len(d) >= EnvelopeSize /\ Last4(d) = Magic
                 /\ EnvelopeSize <= size /\ size <= Len(d)
                 /\ entries # <<>> IN
  IF found THEN [data |-> First(d, Len(d) - size),
                 info |-> [time |-> ValueOf(1, entries), id |-> ValueOf(2, entries), user |-> ValueOf(3, entries)]]
  ELSE [data |-> d, info |-> NoInfo]

-----------------------------------------------------------------------------
(* Sending. *)

\* A negative number is what its 32 bits say.
Word32(n) == <<(n \div 16777216) % 256, (n \div 65536) % 256, (n \div 256) % 256, n % 256>>

MakeIV(f) == Word32(f.ssrc) \o Word32(f.timestamp) \o Word32(f.timestamp - (f.count % 65535))

\* What is behind the clear bytes: the cipher text, the vector, its length and the index of the key
Sealed(f, text) == text \o MakeIV(f) \o <<IvLength, f.index>>

Cleared(f) == UnencryptedBytes(f.kind, f.bytes, f.told.sender)

Encrypted(f, text) ==
  First(f.bytes, Cleared(f).bytes)
    \o (IF Cleared(f).nalu THEN WriteRbsp(Sealed(f, text)) ELSE Sealed(f, text))

WithTrailer(f, d, info) == IF IsVideo(f) THEN AppendTrailer(d, info) ELSE d

\* The codec is refused, and a frame that is shorter than its clear bytes makes the transform fail.
IsRefused(f) == f.told.sender = "av1" \/ Len(f.bytes) < Cleared(f).bytes

EmptyFrame == [kind |-> "delta", bytes |-> <<>>, told |-> [sender |-> "vp8", receiver |-> "vp8"],
            ssrc |-> 0, timestamp |-> 0, count |-> 0, index |-> 0]

PacketOf(f, at, by, text, info, d) ==
  [at |-> at, by |-> by, frame |-> f, text |-> text, info |-> info, data |-> d, read |-> NoInfo,
   behind |-> FALSE, again |-> FALSE]

FrameInit == parcel = PacketOf(EmptyFrame, "none", "page", <<>>, [time |-> <<>>, id |-> <<>>, more |-> <<>>], <<>>)

\* encodeFunction while encryption is off, and the transform of frameMetadata.worker.ts
SendsPlain(f, info) ==
  /\ parcel.at = "none"
  /\ parcel' = PacketOf(f, "sent", "plain", <<>>, info,
                        IF f.bytes = <<>> THEN <<>> ELSE WithTrailer(f, f.bytes, info))

Encodes(f, text, info) ==
  /\ parcel.at = "none"
  /\ parcel' = IF f.bytes = <<>> THEN PacketOf(f, "sent", "page", text, info, <<>>)
               ELSE IF IsRefused(f) THEN PacketOf(f, "refused", "page", text, info, <<>>)
               ELSE PacketOf(f, "sent", "page", text, info, WithTrailer(f, Encrypted(f, text), info))

ServerInjects(d) ==
  /\ parcel.at = "none"
  /\ parcel' = PacketOf(EmptyFrame, "sent", "server", d, [time |-> <<>>, id |-> <<>>, more |-> <<>>], d \o SifTrailer)

-----------------------------------------------------------------------------
(* Receiving. *)

IsServerInjected(d) ==
  SifTrailer # <<>> /\ Len(d) >= Len(SifTrailer) /\ Rest(d, Len(d) - Len(SifTrailer)) = SifTrailer

Payload(d) == First(d, Len(d) - Len(SifTrailer))

\* decodeFunction up to the decryption; behind tells that the key of the frame was ratcheted and is
\* not known yet.
Receives(behind) ==
  /\ parcel.at = "sent"
  /\ LET e == IF IsVideo(parcel.frame) /\ parcel.data # <<>> THEN ExtractTrailer(parcel.data)
              ELSE [data |-> parcel.data, info |-> NoInfo] IN
     parcel' =
       IF e.data = <<>> \/ parcel.by = "plain" THEN [parcel EXCEPT !.at = "read", !.data = e.data, !.read = e.info]
       ELSE IF IsServerInjected(e.data)
       THEN [parcel EXCEPT !.at = IF Payload(e.data) \in SifPayloads THEN "read" ELSE "dropped",
                           !.data = Payload(e.data), !.read = e.info]
       ELSE IF e.data[Len(e.data)] # parcel.frame.index   \* no key is there
       THEN [parcel EXCEPT !.at = "dropped", !.data = e.data, !.read = e.info]
       ELSE [parcel EXCEPT !.at = "decrypt", !.data = e.data, !.read = e.info, !.behind = behind]

\* What decryptFrame takes for the header, and for the rest without its escapes
Split(d, f) ==
  LET c    == UnencryptedBytes(f.kind, d, f.told.receiver)
      rest == Rest(d, c.bytes) IN
  [header |-> First(d, c.bytes),
   rest   |-> IF c.nalu /\ NeedsUnescaping(rest) THEN ParseRbsp(rest) ELSE rest,
   fits   |-> Len(d) >= c.bytes]

Opens(s, f, text) ==
  LET ivLength == s.rest[Len(s.rest) - 1]
      end      == Len(s.rest) - 2 - ivLength IN
  /\ s.fits /\ Len(s.rest) >= 2 /\ end >= 0
  /\ s.header = First(f.bytes, Cleared(f).bytes)
  /\ First(s.rest, end) = text /\ SubSeq(s.rest, end + 1, end + ivLength) = MakeIV(f)

\* decryptFrame: a failed try leaves the frame without its escapes for the try with the next key.
Decrypts ==
  /\ parcel.at = "decrypt"
  /\ LET s == Split(parcel.data, parcel.frame) IN
     parcel' =
       IF parcel.behind
       THEN [parcel EXCEPT !.behind = FALSE, !.again = TRUE, !.data = IF s.fits THEN s.header \o s.rest ELSE @]
       ELSE IF Opens(s, parcel.frame, parcel.text)
       THEN [parcel EXCEPT !.at = "read", !.data = parcel.frame.bytes]
       ELSE [parcel EXCEPT !.at = "dropped"]

FrameNext ==
  \/ \E f \in Frames, i \in Infos : SendsPlain(f, i) \/ \E x \in Texts : Encodes(f, x, i)
  \/ \E d \in SifPayloads \union {Strange} : ServerInjects(d)
  \/ \E behind \in BOOLEAN : Receives(behind)
  \/ Decrypts

-----------------------------------------------------------------------------
(* What holds of it. *)

\* A newer writer added entries only that this client does not read: the trailer stays.
OnlyUnread ==
  LET entries == ReadEntries(Entry(1, parcel.info.time) \o Entry(2, parcel.info.id) \o parcel.info.more) IN
  IsVideo(parcel.frame) /\ parcel.info.more # <<>> /\ \A i \in DOMAIN entries : ~IsKnown(entries[i])

\* The sender found no slice, and did not escape, while the receiver finds what looks like one: in the
\* cipher text, or in what were the last three bytes of the frame.
LooksLikeSlice ==
  LET f == parcel.frame
      d == Encrypted(f, parcel.text) IN
  /\ IsVideo(f) /\ f.told.receiver \notin {"vp8", "vp9"} /\ ~Cleared(f).nalu
  /\ \E s \in Nalus(d) \ Nalus(f.bytes) : IsH264Slice(d[s]) \/ IsH265Slice(d[s])

\* Only one end was told the codec, and a unit before the slice is one by the other codec's numbers.
IsAmbiguous ==
  LET f == parcel.frame IN
  /\ f.told.sender # f.told.receiver
  /\ \E s \in Nalus(f.bytes) : IsH265Slice(f.bytes[s]) /\ ~IsH264Slice(f.bytes[s])

\* The frame was tried with a key before, and what looks like an escape was in it.
IsUnescapedTwice ==
  parcel.again /\ Cleared(parcel.frame).nalu /\ NeedsUnescaping(Sealed(parcel.frame, parcel.text))

\* FrameCryptor.ts and frameMetadata.ts: a frame comes out of the receiver as it went into the sender, with
\* the metadata it was sent with, whether or not its key had to be ratcheted first; it is lost only for
\* the reasons above. Of the frames the server injects only the known ones are shown.
FramesAreRead ==
  LET f == parcel.frame IN
  IF parcel.by = "server"
  THEN /\ parcel.at = "read" => parcel.data = parcel.text /\ parcel.data \in SifPayloads
       /\ parcel.at = "dropped" => parcel.data \notin SifPayloads
  ELSE /\ parcel.at = "read" /\ ~OnlyUnread =>
            /\ parcel.data = f.bytes
            /\ IsVideo(f) /\ f.bytes # <<>> =>
                 parcel.read.time = parcel.info.time /\ parcel.read.id = parcel.info.id
       /\ parcel.at = "dropped" => OnlyUnread \/ LooksLikeSlice \/ IsAmbiguous \/ IsUnescapedTwice

\* writeRbsp: to whoever forwards a frame, no unit seems to begin in what was encrypted.
NoUnitInCipher ==
  LET f == parcel.frame
      c == Cleared(f)
      rest == Rest(Encrypted(f, parcel.text), c.bytes) IN
  parcel.at = "sent" /\ parcel.by = "page" /\ f.bytes # <<>> /\ c.nalu =>
    \A i \in 1..(Len(rest) - 2) : ~(rest[i] = 0 /\ rest[i + 1] = 0 /\ rest[i + 2] <= 2)
=============================================================================
