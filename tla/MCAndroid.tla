----------------------------- MODULE MCAndroid -----------------------------
(***************************************************************************)
(* The streaming service, the RTSP server of one of its outputs, and the   *)
(* way of its access units into packets.  They share no state, so that one *)
(* behaviour is about one of them, part.                                   *)
(***************************************************************************)
EXTENDS StreamingService, RtspServer, RtpPackets, TLC

CONSTANT Parts

VARIABLE part

Symmetry == Permutations(Networks)

\* Key frames that fill the queue and units that do not; key frames alone.
MCUnits == {[key |-> TRUE, size |-> 2], [key |-> FALSE, size |-> 1]}
MCKeyFrames == {[key |-> TRUE, size |-> 1]}

\* Bytes that make start codes, but for what emulation prevention excludes.
Escaped(p) == p[Len(p)] /= 0 /\ \A i \in 1..(Len(p) - 2) : SubSeq(p, i, i + 1) = <<0, 0>> => p[i + 2] = 3
MCPayloads == {p \in UNION {[1..n -> {0, 1, 3}] : n \in 1..5} : Escaped(p)}

MCAccessUnits == UNION {{<<<<65>> \o p>>, <<<<65>> \o p, <<65, 1>>>>, <<<<101>> \o p>>, <<<<101>> \o p, <<10>>>>,
                         <<SPS, <<101>> \o p>>, <<SPS, PPS, <<101>> \o p>>} : p \in MCPayloads}

androidVars == <<part, vars, rtspVars, rtpVars>>

\* A part that is not the behaviour's has one initial state, in which it has
\* nothing to do: what is fair there must not be owed.
AndroidInit ==
    /\ part \in Parts
    /\ RtspInit /\ RtpInit
    /\ IF part = "service" THEN Init
       ELSE svc = Created /\ lan = None /\ news = "none" /\ destroyed = FALSE /\ intent = "off"
    /\ part /= "packets" => sequence = 0

AndroidNext ==
    /\ UNCHANGED part
    /\ \/ part = "service" /\ Next /\ UNCHANGED <<rtspVars, rtpVars>>
       \/ part = "server" /\ RtspNext /\ UNCHANGED <<vars, rtpVars>>
       \/ part = "packets" /\ RtpNext /\ UNCHANGED <<vars, rtspVars>>

AndroidSpec == AndroidInit /\ [][AndroidNext]_androidVars /\ Fairness /\ RtspFairness

\* The variables of every part keep their types and bounds.
AndroidTypeOK == TypeOK /\ RtspTypeOK /\ RtpTypeOK
=============================================================================
