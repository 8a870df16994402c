--------------------------- MODULE ProtocolDetect ---------------------------
(***************************************************************************)
(* The detectors of protocol.c on the bytes of a request: pure operators   *)
(* on sequences of numbers in 0 .. 255.  handleOneClientRequest hands them *)
(* the bytes up to the first zero byte, because it takes the length with   *)
(* strlen (server.c:156-158).                                              *)
(***************************************************************************)
EXTENDS Integers, Sequences, SequencesExt

Byte == 0 .. 255

\* strlen.
Cut(d) ==
  IF 0 \in Range(d)
    THEN SubSeq(d, 1, SelectInSeq(d, LAMBDA c : c = 0) - 1)
    ELSE d

MQTT == <<77, 81, 84, 84>>

\* Type 1 (CONNECT) with no flags, and the protocol name with its length.
DetectMqtt(d) ==
  /\ Len(d) >= 8
  /\ d[1] \div 16 = 1 /\ d[1] % 16 = 0
  /\ d[3] = 0 /\ d[4] = 4 /\ SubSeq(d, 5, 8) = MQTT

\* A handshake record (22) whose message is a ClientHello (1).
DetectTls(d) == Len(d) > 5 /\ d[1] = 22 /\ d[6] = 1

\* (bug) Only the characters below the tabulator are refused.
IsTextLax(d) == \A i \in DOMAIN d : i <= 100 => d[i] >= 9

\* The first 100 bytes are no control characters, save 9 .. 13 and escape.
IsText(d) == \A i \in DOMAIN d : i <= 100 => d[i] \in (9 .. 13) \cup {27} \cup (32 .. 255)

\* detectProtocol, up to the header fields of a text: those are not bytes here.
Detect(d) ==
  IF d = <<>> THEN "unknown"
  ELSE IF DetectMqtt(d) THEN "mqtt"
  ELSE IF DetectTls(d) THEN "tls"
  ELSE IF IsText(d) THEN "http"
  ELSE "unknown"

\* What the client means: the reference definitions.
IsMqttConnect(d) == Len(d) >= 8 /\ d[1] = 16 /\ SubSeq(d, 3, 8) = <<0, 4>> \o MQTT
IsClientHello(d) == Len(d) >= 6 /\ d[1] = 22 /\ d[2] = 3 /\ d[6] = 1
=============================================================================
