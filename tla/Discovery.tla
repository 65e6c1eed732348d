------------------------------ MODULE Discovery ------------------------------
(***************************************************************************)
(* Discovery of IP secondaries: at its start the primary broadcasts a      *)
(* request and collects the answers until time is up; every secondary runs *)
(* a thread that answers requests; the constructor of SotaUptaneClient     *)
(* adds what was found.  Datagrams are lost, duplicated and reordered.     *)
(* The primary uses asn1c (external), the secondaries the codec of Asn1.   *)
(***************************************************************************)
EXTENDS Asn1, FiniteSets

CONSTANTS
  Secondaries,   \* Secondaries on the network; an address is its secondary
  serial,        \* Their serials, as bytes
  HwIds,         \* Hardware identifiers they may be configured with
  Ports,         \* Ports a secondary may be configured to listen on
  PrimaryPorts,  \* Values of ipuptane_port of the primary
  Configured,    \* Serials of the secondaries in the configuration file
  MaxFaults      \* Datagrams lost, duplicated or sent by others

VARIABLES
  pc,            \* The primary: "start", "waiting", "adding", "started", "failed"
  found,         \* secondaries of waitDevices
  added,         \* SotaUptaneClient::secondaries, by serial
  requests,      \* Requests under way, by receiver
  answers,       \* Datagrams under way to the socket of the primary
  listening,     \* Discovery threads that run
  faults,
  char_signed,   \* The platform of the secondaries
  port,          \* The port each secondary listens on
  hw_id,         \* Its hardware identifier
  primary_port
settings == <<char_signed, port, hw_id, primary_port>>
vars == <<pc, found, added, requests, answers, listening, faults, settings>>
net == <<requests, answers>>

Init ==
  /\ pc = "start" /\ found = <<>> /\ added = {}
  /\ requests = [s \in Secondaries |-> 0] /\ answers = <<>>
  /\ listening = Secondaries /\ faults = 0
  /\ char_signed \in BOOLEAN /\ port \in [Secondaries -> Ports] /\ hw_id \in HwIds /\ primary_port \in PrimaryPorts

-----------------------------------------------------------------------------
(* External: asn1c encodes in DER, and decodes BER. *)
RECURSIVE MinimalBytes(_)
MinimalBytes(n) == IF n < 128 THEN <<n>> ELSE Append(MinimalBytes(n \div 256), n % 256)
Tlv(tag, content) == <<tag>> \o cer_encode_length(Len(content)) \o content
der_encode_request(p) == Tlv(160, Tlv(48, Tlv(2, MinimalBytes(p))))

\* A primitive string or integer at the head of data.
BerValue(data, tag) ==
  IF Len(data) < 2 \/ data[1] # tag \/ data[2] >= 128 \/ data[2] + 2 > Len(data) THEN [ok |-> FALSE, v |-> <<>>, rest |-> <<>>]
  ELSE [ok |-> TRUE, v |-> SubSeq(data, 3, data[2] + 2), rest |-> From(data, data[2] + 3)]
TwosComplement(v) == FoldLeft(LAMBDA n, b : n * 256 + b, IF v[1] >= 128 THEN -1 ELSE 0, v)
ber_decode(data) ==
  LET s == BerValue(From(data, 5), 12)
      h == BerValue(s.rest, 12)
      p == BerValue(h.rest, 2)
  IN  IF IsPrefix(<<161, 128, 48, 128>>, data) /\ s.ok /\ h.ok /\ p.ok /\ p.v # <<>> /\ p.rest = <<0, 0, 0, 0>>
      THEN [ok |-> TRUE, ecuSerial |-> s.v, hwId |-> h.v, port |-> TwosComplement(p.v)]
      ELSE [ok |-> FALSE]

-----------------------------------------------------------------------------
(* The primary. *)

\* The request is sent to every secondary.
sendRequest == [s \in Secondaries |-> 1]
\* Faulty variant: the list of an earlier attempt is kept.
discover_kept ==
  /\ pc = "start"
  /\ added' = {} /\ answers' = <<>>
  /\ \/ pc' = "adding" /\ requests' = [s \in Secondaries |-> 0]
     \/ pc' = "waiting" /\ requests' = sendRequest
  /\ UNCHANGED <<found, listening, faults, settings>>
\* discover and sendRequest: without a socket, a name to resolve or a route
\* nothing is found.  Each call has a socket of its own: what was meant for an earlier one is lost.
discover ==
  /\ pc = "start"
  /\ found' = <<>> /\ added' = {}
  /\ \/ pc' = "adding" /\ requests' = [s \in Secondaries |-> 0]
     \/ pc' = "waiting" /\ requests' = sendRequest
  /\ answers' = <<>>
  /\ UNCHANGED <<listening, faults, settings>>

\* A port is cut to sixteen bits.
config_of(from, resp) ==
  [ecu_serial |-> resp.ecuSerial, ecu_hardware_id |-> resp.hwId, ip_addr |-> from, port |-> resp.port % 65536]

\* A datagram is received.  One that is no answer is skipped, and the clock
\* is not looked at; after an answer the wait ends when time is up.
waitDevices(i) ==
  LET resp == ber_decode(answers[i].data)
  IN  /\ pc = "waiting" /\ i \in DOMAIN answers
      /\ answers' = RemoveAt(answers, i)
      /\ IF resp.ok THEN found' = Append(found, config_of(answers[i].from, resp)) /\ pc' \in {"waiting", "adding"}
         ELSE UNCHANGED <<found, pc>>
      /\ UNCHANGED <<added, requests, listening, faults, settings>>
\* recvfrom times out.
WaitOver ==
  /\ pc = "waiting" /\ pc' = "adding"
  /\ UNCHANGED <<found, added, net, listening, faults, settings>>

\* The constructor adds the secondaries of the file and those found, and
\* throws at a serial it knows.
addSecondaries ==
  LET serials == {found[i].ecu_serial : i \in DOMAIN found}
  IN  /\ pc = "adding"
      /\ IF Cardinality(serials) = Len(found) /\ serials \cap Configured = {}
         THEN pc' = "started" /\ added' = Configured \cup serials
         ELSE pc' = "failed" /\ UNCHANGED added
      /\ UNCHANGED <<found, net, listening, faults, settings>>
\* External: systemd starts the process again (Restart=always).
Restart ==
  /\ pc = "failed" /\ pc' = "start"
  /\ UNCHANGED <<found, added, net, listening, faults, settings>>

-----------------------------------------------------------------------------
(* A secondary. *)
RequestTokens == <<"expl0", "seq", "integer", "restseq", "endexpl">>
ReadRequest(data) == FoldLeft(LAMBDA d, tok : Reads(d, tok, char_signed), Deserializer(data), RequestTokens)
discoveryResp(s) == expl(1) \o seq \o Utf8String(serial[s]) \o Utf8String(hw_id[s]) \o Integer(port[s]) \o endseq \o endseq

\* run: one request is read and answered; what the Deserializer throws is
\* logged, but for out_of_range, which ends the thread and the process.
run(s) ==
  LET r == ReadRequest(der_encode_request(primary_port))
  IN  /\ s \in listening /\ requests[s] > 0
      /\ requests' = [requests EXCEPT ![s] = @ - 1]
      /\ answers' = IF r.thrown = "none" THEN Append(answers, [from |-> s, data |-> discoveryResp(s)]) ELSE answers
      /\ listening' = IF r.thrown = "out_of_range" THEN listening \ {s} ELSE listening
      /\ UNCHANGED <<pc, found, added, faults, settings>>

\* stop shuts the socket down, which ends the loop of run; when the process
\* starts again it opens a socket, and what came before is lost.
stop(s) ==
  /\ s \in listening /\ faults < MaxFaults
  /\ listening' = listening \ {s} /\ faults' = faults + 1
  /\ UNCHANGED <<pc, found, added, net, settings>>
open_socket(s) ==
  /\ s \notin listening
  /\ listening' = listening \cup {s} /\ requests' = [requests EXCEPT ![s] = 0]
  /\ UNCHANGED <<pc, found, added, answers, faults, settings>>

-----------------------------------------------------------------------------
(* External: the network. *)
Fault == faults < MaxFaults /\ faults' = faults + 1 /\ UNCHANGED <<pc, found, added, listening, settings>>
LoseRequest(s) == Fault /\ requests[s] > 0 /\ requests' = [requests EXCEPT ![s] = @ - 1] /\ UNCHANGED answers
DuplicateRequest(s) == Fault /\ requests[s] > 0 /\ requests' = [requests EXCEPT ![s] = @ + 1] /\ UNCHANGED answers
LoseAnswer(i) == Fault /\ i \in DOMAIN answers /\ answers' = RemoveAt(answers, i) /\ UNCHANGED requests
DuplicateAnswer(i) == Fault /\ i \in DOMAIN answers /\ answers' = Append(answers, answers[i]) /\ UNCHANGED requests
\* A message of another kind, cut short.
Stray == Fault /\ pc = "waiting" /\ answers' = Append(answers, [from |-> CHOOSE s \in Secondaries : TRUE, data |-> <<162, 128, 48>>])
         /\ UNCHANGED requests

Next ==
  \/ discover \/ WaitOver \/ addSecondaries \/ Restart \/ Stray
  \/ \E s \in Secondaries : run(s) \/ stop(s) \/ open_socket(s) \/ LoseRequest(s) \/ DuplicateRequest(s)
  \/ \E i \in DOMAIN answers : waitDevices(i) \/ LoseAnswer(i) \/ DuplicateAnswer(i)

\* The primary is scheduled, and its wait times out.
Spec == Init /\ [][Next]_vars
        /\ WF_vars(discover) /\ WF_vars(WaitOver) /\ WF_vars(addSecondaries) /\ WF_vars(Restart)

-----------------------------------------------------------------------------
\* What is found is well formed: a port that went through the codecs and the
\* cast to uint16 (waitDevices) is one.
TypeOK ==
  /\ pc \in {"start", "waiting", "adding", "started", "failed"}
  /\ \A i \in DOMAIN found : found[i].ip_addr \in Secondaries /\ found[i].port \in 0..65535
  /\ requests \in [Secondaries -> 0..(1 + MaxFaults)]
  /\ listening \subseteq Secondaries /\ faults \in 0..MaxFaults

\* What the primary finds is a secondary of the network as it describes
\* itself, its port included, although the secondary encodes the message with
\* one codec and the primary decodes it with another, and the encoder gets
\* the sign of some ports wrong (asn1-cer.cc, waitDevices).
FoundIsReal ==
  \A i \in DOMAIN found :
    \E s \in Secondaries : found[i] = [ecu_serial |-> serial[s], ecu_hardware_id |-> hw_id[s], ip_addr |-> s, port |-> port[s]]

\* Every answer on its way can be read back by the Deserializer of the code
\* base, down to the end of the message, with the identifiers that were
\* written, those cut in chunks excepted: their tokens report no length, so
\* that nothing behind them can be read (cer_decode_token).
AnswerTokens == <<"expl1", "seq", "string", "string", "integer", "endseq", "endexpl">>
\* (What the Serializer of a secondary wrote, its Deserializer reads.)
ReadsItsOwn ==
  \A i \in DOMAIN answers :
    LET s == answers[i].from
        d == FoldLeft(LAMBDA e, tok : Reads(e, tok, char_signed), Deserializer(answers[i].data), AnswerTokens)
    IN  answers[i].data = discoveryResp(s) /\ Len(serial[s]) <= CER_MAX_PRIMITIVESTRING /\ Len(hw_id[s]) <= CER_MAX_PRIMITIVESTRING =>
          d.thrown = "none" /\ SubSeq(d.values, 1, 2) = <<serial[s], hw_id[s]>>

\* A request that is received is answered, whatever port it carries and
\* whatever the sign of char: the Deserializer of the secondary understands
\* what asn1c wrote, and no exception ends the thread (run).
EachAnswered ==
  [][\A s \in Secondaries : faults' = faults /\ s \in listening /\ requests'[s] = requests[s] - 1 /\ pc' = pc =>
       Len(answers') = Len(answers) + 1 /\ s \in listening']_vars

\* A client that started has one secondary for each entry of its
\* configuration and each answer: no two were taken for one (addSecondary).
NoneMerged == pc = "started" => Cardinality(added) = Cardinality(Configured) + Len(found)

\* The primary starts: when a duplicated answer makes the constructor throw,
\* the process starts again and discovers anew.
EventuallyStarted == <>(pc = "started")

\* Discovery finds what there is: messages are read as they were written, by
\* both codecs, requests are answered, and no two secondaries become one.
DiscoveredRight == [](FoundIsReal /\ ReadsItsOwn /\ NoneMerged) /\ EachAnswered
=============================================================================
