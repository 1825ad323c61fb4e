--------------------------- MODULE DataTrackPackets ---------------------------
(***************************************************************************)
(* room/data-track/packet and packetizer.ts: the bytes of a data track packet. A   *)
(* frame is cut into packets, each behind a header of its own, which may hold        *)
(* extensions; the reader is as old as this client, the writer may be newer.          *)
(*                                                                         *)
(* A timestamp, a user timestamp and the data of the encryption extension are their   *)
(* bytes, and an extension that is not there is empty.                            *)
(***************************************************************************)
EXTENDS Integers, Sequences, SequencesExt

CONSTANTS
  Frames,  \* bound: the frames to send, with the header fields their packets share
  Mtu      \* mtuSizeBytes

VARIABLES
  trip   \* how far a frame is, the packets it was cut into, their bytes, and what was read of them

Word(n) == <<n \div 256, n % 256>>
WordAt(b, i) == 256 * b[i] + b[i + 1]

BaseLength      == 12
Bits            == [inter |-> 0, final |-> 1, start |-> 2, single |-> 3]
E2eeLength      == 13
TimestampLength == 8

-----------------------------------------------------------------------------
(* Writing. *)

Extension(tag, data) == IF data = <<>> THEN <<>> ELSE <<tag, Len(data)>> \o data
Extensions(h) == Extension(1, h.e2ee) \o Extension(2, h.user)

\* The words of an extension block with its length field, of which one is implied, and its padding
ExtensionWords(extensions) == (2 + Len(extensions) + 3) \div 4
Padded(extensions) ==
  extensions \o [i \in 1..(4 * ExtensionWords(extensions) - 2 - Len(extensions)) |-> 0]

HeaderWith(h, extensions) ==
  <<8 * Bits[h.marker] + (IF extensions = <<>> THEN 0 ELSE 4), 0>>
    \o Word(h.handle) \o Word(h.sequence) \o Word(h.number) \o h.timestamp
    \o (IF extensions = <<>> THEN <<>> ELSE Word(ExtensionWords(extensions) - 1) \o Padded(extensions))

ToBinary(p) == HeaderWith(p.header, Extensions(p.header)) \o p.payload

FrameMarker(k, n) == IF n <= 1 THEN "single" ELSE IF k = 1 THEN "start" ELSE IF k = n THEN "final" ELSE "inter"

\* packetize: a frame that has no room behind its header is refused.
Packetize(f) ==
  LET room == Mtu - Len(HeaderWith(f.header, Extensions(f.header)))
      n == (Len(f.payload) + room - 1) \div room
  IN  [k \in 1..n |->
        [header |-> [f.header EXCEPT !.marker = FrameMarker(k, n), !.sequence = (@ + k - 1) % 65536],
         payload |-> SubSeq(f.payload, room * (k - 1) + 1, IF k = n THEN Len(f.payload) ELSE room * k)]]

MtuTooShort(f) == Len(HeaderWith(f.header, Extensions(f.header))) >= Mtu

-----------------------------------------------------------------------------
(* Reading. *)

NoExtensions == [malformed |-> FALSE, e2ee |-> <<>>, user |-> <<>>]
Malformed    == [NoExtensions EXCEPT !.malformed = TRUE]

\* A padding byte takes the byte behind it along. What is known is as long as this client knows it, and
\* the next one starts where the writer says; of two of a kind the later one counts.
ReadExtensions(b) ==
  LET from[i \in Nat] ==
        IF Len(b) - i < 1 THEN NoExtensions ELSE
        LET tag == b[i] length == b[i + 1]
            rest == from[IF tag = 0 THEN i + 2 ELSE i + 2 + length]
            needs == IF tag = 1 THEN E2eeLength ELSE IF tag = 2 THEN TimestampLength ELSE length
            data == SubSeq(b, i + 2, i + 1 + needs)
        IN
        IF tag = 0 THEN rest
        ELSE IF Len(b) - (i + 1) < needs THEN Malformed
        ELSE IF tag = 1 /\ rest.e2ee = <<>> THEN [rest EXCEPT !.e2ee = data]
        ELSE IF tag = 2 /\ rest.user = <<>> THEN [rest EXCEPT !.user = data]
        ELSE rest
  IN  from[1]

Refused(reason) == [refused |-> reason]

FromBinary(b) ==
  LET flagged == Len(b) > 0 /\ (b[1] \div 4) % 2 = 1
      length == 4 * (WordAt(b, BaseLength + 1) + 1) - 2
      start == IF flagged THEN BaseLength + 2 + length ELSE BaseLength
      extensions == IF flagged THEN ReadExtensions(SubSeq(b, BaseLength + 3, start)) ELSE NoExtensions
  IN
  IF Len(b) < BaseLength THEN Refused("too short")
  ELSE IF b[1] \div 32 > 0 THEN Refused("version")
  ELSE IF WordAt(b, 3) = 0 THEN Refused("handle")
  ELSE IF flagged /\ Len(b) < BaseLength + 2 THEN Refused("no length of extensions")
  ELSE IF start > Len(b) THEN Refused("header overrun")
  ELSE IF extensions.malformed THEN Refused("malformed extension")
  ELSE [refused |-> "no",
        header |-> [marker |-> CHOOSE m \in DOMAIN Bits : Bits[m] = (b[1] \div 8) % 4,
                    handle |-> WordAt(b, 3), sequence |-> WordAt(b, 5), number |-> WordAt(b, 7),
                    timestamp |-> SubSeq(b, 9, 12), e2ee |-> extensions.e2ee, user |-> extensions.user],
        payload |-> SubSeq(b, start + 1, Len(b))]

-----------------------------------------------------------------------------
(* A frame is sent, its bytes may come from a newer writer or be cut short, and are read. *)

PacketInit == \E f \in Frames : trip = [at |-> "frame", frame |-> f, packets |-> <<>>, wire |-> <<>>, read |-> <<>>]

SendsFrame ==
  /\ trip.at = "frame"
  /\ trip' = IF MtuTooShort(trip.frame) THEN [trip EXCEPT !.at = "refused"]
             ELSE LET ps == Packetize(trip.frame) IN
                  [trip EXCEPT !.at = "sent", !.packets = ps, !.wire = [i \in DOMAIN ps |-> ToBinary(ps[i])]]

\* What a later version of the protocol may write: tags this client does not know, with or without
\* padding in front, its own in another order, longer, or twice.
Foreign(h) ==
  LET own == Extensions(h) unknown == <<8, 3, 1, 13, 2>>
      longer(x) == IF x = <<>> THEN <<>> ELSE x \o <<1, 2, 8>>
  IN  {unknown \o own, own \o unknown, Extension(1, h.e2ee) \o <<9, 0>> \o Extension(2, h.user),
       <<0, 0>> \o own, Extension(2, h.user) \o unknown \o Extension(1, h.e2ee),
       Extension(1, longer(h.e2ee)) \o Extension(2, longer(h.user)), own \o own}

IsNewer ==
  /\ trip.at = "sent"
  /\ \E i \in DOMAIN trip.wire : \E x \in Foreign(trip.packets[i].header) :
       /\ x # <<>>
       /\ trip' = [trip EXCEPT !.at = "newer", !.wire[i] = HeaderWith(trip.packets[i].header, x) \o trip.packets[i].payload]

IsCut ==
  /\ trip.at \in {"sent", "newer"} /\ trip.wire # <<>>
  /\ \E n \in 0..(Len(trip.wire[1]) - 1) : trip' = [trip EXCEPT !.at = "cut", !.wire[1] = SubSeq(@, 1, n)]

IsRead ==
  /\ trip.at \in {"sent", "newer", "cut"} /\ trip.read = <<>>
  /\ trip' = [trip EXCEPT !.read = [i \in DOMAIN trip.wire |-> FromBinary(trip.wire[i])]]

PacketNext == SendsFrame \/ IsNewer \/ IsCut \/ IsRead
-----------------------------------------------------------------------------
\* What is written is read again: the packets of a frame, behind one another, hold it, and none is longer
\* than the MTU; each is read with the fields it was written with, whatever a newer writer added, and no
\* extension is longer than it says. Of a packet that was cut short no field is read differently.
PacketsAreReadAsWritten ==
  LET same(i) == trip.read[i] = [refused |-> "no", header |-> trip.packets[i].header, payload |-> trip.packets[i].payload] IN
  /\ trip.at = "sent" =>
       /\ FlattenSeq([i \in DOMAIN trip.packets |-> trip.packets[i].payload]) = trip.frame.payload
       /\ \A i \in DOMAIN trip.wire : Len(trip.wire[i]) <= Mtu /\ (Len(trip.wire[i]) - Len(trip.packets[i].payload)) % 4 = 0
  /\ trip.read # <<>> =>
       \A i \in DOMAIN trip.read :
         IF trip.at = "cut" /\ i = 1
           THEN \/ trip.read[1].refused # "no"
                \/ /\ trip.read[1].header = trip.packets[1].header
                   /\ IsPrefix(trip.read[1].payload, trip.packets[1].payload)
           ELSE same(i)
=============================================================================
