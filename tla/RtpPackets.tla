----------------------------- MODULE RtpPackets -----------------------------
(***************************************************************************)
(* From a buffer of MediaCodec to RTP packets: the buffer is split into    *)
(* NAL units, a key frame gets the parameter sets it lacks, and every unit *)
(* becomes packets of at most an MTU under one running sequence number.    *)
(*                                                                         *)
(* A NAL unit is the sequence of its bytes.  What an encoder may write is  *)
(* external: units without a start code in them (H.264's emulation         *)
(* prevention), in one of three framings.                                  *)
(***************************************************************************)
EXTENDS Integers, Sequences, FiniteSets, SequencesExt, FiniteSetsExt

CONSTANTS NoSets,
          Room,            \* bytes of a packet behind its header
          SequenceNumbers, \* how many there are: 2^16
          AccessUnits      \* what an encoder may write, as sequences of NAL units

NalType(nal) == nal[1] % 32

\* What H.264 lets an encoder write as a NAL unit: bytes, the first of which
\* is a header of a type that is not one of RTP's, no start code among them
\* and no zero at the end.
IsNal(n) ==
    /\ n \in Seq(0..255) /\ Len(n) > 0 /\ Len(n) < 256 * 256 * 256
    /\ NalType(n) \in 1..23
    /\ n[Len(n)] /= 0
    /\ \A i \in 1..(Len(n) - 2) : ~(n[i] = 0 /\ n[i + 1] = 0 /\ n[i + 2] = 1)

ASSUME RtpAssumption == Room \in Nat /\ Room > 2 /\ SequenceNumbers \in Nat \ {0}
ASSUME EncoderAssumption == \A unit \in AccessUnits :
                              unit \in Seq(Seq(0..255)) \ {<<>>} /\ \A i \in DOMAIN unit : IsNal(unit[i])

VARIABLES
    written,   \* the encoder announced its format, with parameter sets
    serving,   \* the server was started
    sets,      \* StreamBroadcaster.parameterSets
    sequence,  \* the next sequence number
    sent       \* of the last unit: what was meant, its packets, its first number

rtpVars == <<written, serving, sets, sequence, sent>>

SPS == <<103, 1>>
PPS == <<104, 3>>
Nothing == [meant |-> <<>>, packets |-> <<>>, first |-> 0]

RtpInit ==
    /\ written = FALSE /\ serving = FALSE
    /\ sets = NoSets
    /\ sequence \in 0..(SequenceNumbers - 1)
    /\ sent = Nothing

-----------------------------------------------------------------------------
(* The encoder's framing.                                                  *)

FramingsOf(unit) == {"annexb", "long annexb", "length"} \cup (IF Len(unit) = 1 THEN {"raw"} ELSE {})

\* Four bytes; the first is 0 because no unit has 2^24 bytes.
Length(n) == <<0, n \div 65536, (n \div 256) % 256, n % 256>>

Framed(unit, framing) ==
    LET frame(nal) == CASE framing = "annexb"      -> <<0, 0, 1>> \o nal
                        [] framing = "long annexb" -> <<0, 0, 0, 1>> \o nal
                        [] framing = "length"      -> Length(Len(nal)) \o nal
                        [] framing = "raw"         -> nal
    IN FlattenSeq([i \in DOMAIN unit |-> frame(unit[i])])

-----------------------------------------------------------------------------
(* H264NalParser.                                                          *)

ShortStart(data, i) == i + 2 <= Len(data) /\ SubSeq(data, i, i + 2) = <<0, 0, 1>>
LongStart(data, i)  == i + 3 <= Len(data) /\ SubSeq(data, i, i + 3) = <<0, 0, 0, 1>>

\* The first start code from a position on, or 0.
FindStartCode(data, from) ==
    LET at == {i \in from..Len(data) : ShortStart(data, i) \/ LongStart(data, i)}
    IN IF at = {} THEN 0 ELSE Min(at)

BugSplitAnnexB(data, first) ==
    LET nals[start \in 0..Len(data)] ==
          IF start = 0 THEN <<>>
          ELSE LET from == start + 3
                   next == FindStartCode(data, from)
                   end  == IF next = 0 THEN Len(data) ELSE next - 1
               IN (IF from <= end THEN <<SubSeq(data, from, end)>> ELSE <<>>) \o nals[next]
    IN nals[first]

SplitAnnexB(data, first) ==
    LET nals[start \in 0..Len(data)] ==
          IF start = 0 THEN <<>>
          ELSE LET from == start + IF ShortStart(data, start) THEN 3 ELSE 4
                   next == FindStartCode(data, from)
                   end  == IF next = 0 THEN Len(data) ELSE next - 1
               IN (IF from <= end THEN <<SubSeq(data, from, end)>> ELSE <<>>) \o nals[next]
    IN nals[first]

\* As a set: the units, or nothing if the data is not made of them.
SplitLengthPrefixed(data) ==
    LET length(o) == ((data[o + 1] * 256 + data[o + 2]) * 256 + data[o + 3]) * 256 + data[o + 4]
        nals[o \in 0..Len(data)] ==
          IF o = Len(data) THEN {<<>>}
          ELSE IF o + 4 > Len(data) \/ length(o) = 0 \/ length(o) > Len(data) - o - 4 THEN {}
          ELSE {<<SubSeq(data, o + 5, o + 4 + length(o))>> \o rest : rest \in nals[o + 4 + length(o)]}
    IN nals[0] \ {<<>>}

Split(data) ==
    LET first == FindStartCode(data, 1)
    IN IF data = <<>> THEN <<>>
       ELSE IF first /= 0 THEN SplitAnnexB(data, first)
       ELSE IF SplitLengthPrefixed(data) /= {} THEN CHOOSE nals \in SplitLengthPrefixed(data) : TRUE
       ELSE <<data>>

HasType(nals, type) == \E i \in DOMAIN nals : NalType(nals[i]) = type

\* parameterSets: the first of each, if both are there.
FirstOf(nals, type) == nals[Min({i \in DOMAIN nals : NalType(nals[i]) = type})]
ParameterSets(nals) ==
    IF HasType(nals, 7) /\ HasType(nals, 8) THEN [sps |-> FirstOf(nals, 7), pps |-> FirstOf(nals, 8)] ELSE NoSets

-----------------------------------------------------------------------------
(* StreamBroadcaster.                                                      *)

AddMissingParameterSets(nals) ==
    IF sets = NoSets THEN nals
    ELSE (IF HasType(nals, 7) THEN <<>> ELSE <<sets.sps>>) \o (IF HasType(nals, 8) THEN <<>> ELSE <<sets.pps>>) \o nals

-----------------------------------------------------------------------------
(* RtpPacketizer.                                                          *)

\* FU-A: the header byte is split over the indicator and the fragment header.
Fragments(nal) ==
    LET chunk == Room - 2
        count == (Len(nal) - 1 + chunk - 1) \div chunk
        low(i) == 2 + (i - 1) * chunk
    IN [i \in 1..count |->
          <<(nal[1] \div 32) * 32 + 28,
            (IF i = 1 THEN 128 ELSE 0) + (IF i = count THEN 64 ELSE 0) + (nal[1] % 32)>>
          \o SubSeq(nal, low(i), Min({low(i) + chunk - 1, Len(nal)}))]

Payloads(nal) == IF Len(nal) <= Room THEN <<nal>> ELSE Fragments(nal)

\* makePacket; the marker is on the last packet of the last unit.
Packetize(nals) ==
    LET payloads == FlattenSeq([i \in DOMAIN nals |-> Payloads(nals[i])])
    IN [k \in DOMAIN payloads |-> [number |-> (sequence + k - 1) % SequenceNumbers,
                                   payload |-> payloads[k], marker |-> k = Len(payloads)]]

-----------------------------------------------------------------------------
\* publishFormat: csd-0 and csd-1, if the format has them.
FormatAnnounced(csd) ==
    /\ ~written
    /\ written' = TRUE
    /\ sets' = IF csd THEN ParameterSets(<<Split(Framed(<<SPS>>, "annexb"))[1], Split(Framed(<<PPS>>, "annexb"))[1]>>)
                      ELSE sets
    /\ UNCHANGED <<serving, sequence, sent>>

\* onEncoderOutputFormat, on the main thread: RtspServer.start resets the
\* broadcaster.
ServerStarts ==
    /\ written /\ ~serving
    /\ serving' = TRUE /\ sets' = NoSets
    /\ UNCHANGED <<written, sequence, sent>>

\* A codec-config buffer is no access unit.
ConfigBuffer(framing) ==
    /\ written
    /\ LET found == ParameterSets(Split(Framed(<<SPS, PPS>>, framing)))
       IN sets' = IF found = NoSets THEN sets ELSE found
    /\ UNCHANGED <<written, serving, sequence, sent>>

\* What the receiver is to have of a unit: a key frame after the sets that are
\* known and not in it.
Meant(unit, key) ==
    LET lacking == {type \in {7, 8} : key /\ sets /= NoSets /\ ~HasType(unit, type)}
    IN CASE lacking = {}     -> unit
         [] lacking = {7}    -> <<sets.sps>> \o unit
         [] lacking = {8}    -> <<sets.pps>> \o unit
         [] lacking = {7, 8} -> <<sets.sps, sets.pps>> \o unit

\* processOutputBuffer and publish, to a client that plays.  A length that
\* reads as a start code is left out.
AccessUnit(unit, framing, flagged) ==
    LET data  == Framed(unit, framing)
        nals  == Split(data)
        key   == flagged \/ HasType(nals, 5)
        found == ParameterSets(nals)
    IN /\ framing = "length" => FindStartCode(data, 1) = 0
       /\ sets' = IF found = NoSets THEN sets ELSE found
       /\ LET packets == Packetize(IF key THEN AddMissingParameterSets(nals) ELSE nals)
          IN /\ sent' = [meant |-> Meant(unit, flagged \/ HasType(unit, 5)), packets |-> packets, first |-> sequence]
             /\ sequence' = (sequence + Len(packets)) % SequenceNumbers
       /\ UNCHANGED <<written, serving>>

\* The client takes the packets.
Delivered ==
    /\ sent /= Nothing
    /\ sent' = Nothing
    /\ UNCHANGED <<written, serving, sets, sequence>>

RtpNext ==
    \/ \E csd \in BOOLEAN : FormatAnnounced(csd)
    \/ ServerStarts \/ Delivered
    \/ \E framing \in {"annexb", "long annexb"} : ConfigBuffer(framing)
    \/ /\ serving /\ sent = Nothing
       /\ \E unit \in AccessUnits : \E framing \in FramingsOf(unit) :
            \E flagged \in IF HasType(unit, 5) THEN BOOLEAN ELSE {FALSE} : AccessUnit(unit, framing, flagged)

RtpSpec == RtpInit /\ [][RtpNext]_rtpVars

-----------------------------------------------------------------------------
(* A receiver (RFC 6184) joins fragments and undoes the split header.      *)
Joined(packets) ==
    LET nals[k \in 0..Len(packets)] ==
          IF k = 0 THEN <<>>
          ELSE LET p == packets[k].payload
                   got == nals[k - 1]
               IN IF p[1] % 32 /= 28 THEN Append(got, p)
                  ELSE IF p[2] >= 128 THEN Append(got, <<(p[1] \div 32) * 32 + (p[2] % 32)>> \o SubSeq(p, 3, Len(p)))
                  ELSE [got EXCEPT ![Len(got)] = @ \o SubSeq(p, 3, Len(p))]
    IN nals[Len(packets)]

RtpTypeOK ==
    /\ written \in BOOLEAN /\ serving \in BOOLEAN
    /\ sets = NoSets \/ DOMAIN sets = {"sps", "pps"}
    /\ sequence \in 0..(SequenceNumbers - 1)

\* What a receiver joins from the packets is what the encoder wrote, with the
\* parameter sets a key frame lacked, whatever the framing and however the
\* units were cut; no packet exceeds the MTU, the numbers are consecutive
\* through their wrap-around, within a unit and from one to the next, and
\* the marker is on the last packet alone.
UnitsArriveWhole ==
    LET packets == sent.packets IN
    /\ Joined(packets) = sent.meant
    /\ \A k \in DOMAIN packets :
         /\ Len(packets[k].payload) <= Room
         /\ packets[k].number = (sent.first + k - 1) % SequenceNumbers
         /\ packets[k].marker <=> k = Len(packets)
    /\ sent /= Nothing => sequence = (sent.first + Len(packets)) % SequenceNumbers

\* Not so: "Make parameter sets available to the broadcaster before opening
\* the new RTSP generation" (H264Encoder.kt:310); the start of the server
\* resets what the format announced.
SetsOutliveTheStart == [][sets /= NoSets => sets' /= NoSets]_rtpVars
=============================================================================
