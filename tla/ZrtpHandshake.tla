---------------------------- MODULE ZrtpHandshake ----------------------------
(***************************************************************************)
(* The ZRTP handshake of a RedPhone call: a ZrtpManager at each end drives *)
(* its role (ZrtpInitiator, ZrtpResponder) over the relayed UDP socket.    *)
(*                                                                         *)
(* Each role expects one type of packet at a time and answers it with its  *)
(* next packet, which the manager then retransmits until the answer to it  *)
(* comes.  The network may lose, repeat and reorder packets; what arrives  *)
(* was sent by the other end (a packet whose checks fail is logged and     *)
(* dropped).  Both ends of the module run this code.                       *)
(***************************************************************************)
EXTENDS Integers, Sequences

CONSTANTS
    Protocols,              \* key agreement protocols
    DH3k,                   \* the one that every peer supports
    Allowed,                \* per role, its protocols in descending priority
    Keys,                   \* key pairs that generateParticipantWithNewKeys may make
    None,                   \* nil
    Failed,                 \* the failure of a handshake's future
    MAX_RETRANSMIT_COUNT

Roles == {"initiator", "responder"}

ASSUME ProtocolsAssumption ==
    /\ DH3k \in Protocols
    /\ Allowed \in [Roles -> Seq(Protocols)]
    /\ \A r \in Roles : \E i \in DOMAIN Allowed[r] : Allowed[r][i] = DH3k
ASSUME CountAssumption == MAX_RETRANSMIT_COUNT \in Nat

VARIABLES
    packetExpectation,      \* what each role waits for
    participant,            \* keyAgreementParticipant: <<protocol, key>>
    foreignCommit,          \* the responder's: the initiator's participant it commits to
    masterSecret,           \* <<initiator's participant, responder's participant>>
    done,                   \* ZrtpManager.done
    currentPacketToRetransmit,
    timers,                 \* scheduled and not cancelled
    futureHandshakeResult,  \* None while incomplete, then Failed or the secret agreed
    net                     \* packets on their way

managerVars == <<done, currentPacketToRetransmit, timers, futureHandshakeResult>>
zrtpVars    == <<packetExpectation, participant, foreignCommit, masterSecret,
                 managerVars, net>>

Participants == Protocols \X Keys
Secrets      == Participants \X Participants

\* A packet and the part of its content that can differ between handshakes.
Packet(type, body) == [type |-> type, body |-> body]

Packets ==
    {Packet(t, None) : t \in {"Hello1", "Hello2", "HelloAck", "ConfAck"}}
    \cup {Packet(t, p) : t \in {"Commit", "DH1", "DH2"}, p \in Participants}
    \cup {Packet(t, s) : t \in {"Confirm1", "Confirm2", "Audio"}, s \in Secrets}

ASSUME NilAssumption ==
    /\ None \notin Participants \cup Secrets \cup Packets /\ Failed \notin Secrets
    /\ Failed # None

Expectations == {"hello", "helloAck", "commit", "dh", "confirm", "confirmAck", "nothing"}

\* The initiator's protocols that the responder allows, too; DH3k is implied.
Common(i) ==
    \/ Allowed["initiator"][i] = DH3k
    \/ \E j \in DOMAIN Allowed["responder"] : Allowed["responder"][j] = Allowed["initiator"][i]
-----------------------------------------------------------------------------
(***************************************************************************)
(* ZrtpManager.                                                            *)
(***************************************************************************)
\* The initiator waits for a Hello, the responder begins with one ("Hello1" is the
\* responder's, "Hello2" the initiator's).
ZrtpInit ==
    /\ packetExpectation = [r \in Roles |-> "hello"]
    /\ participant = [r \in Roles |-> None]
    /\ foreignCommit = None
    /\ masterSecret = [r \in Roles |-> None]
    /\ done = [r \in Roles |-> FALSE]
    /\ currentPacketToRetransmit =
         [r \in Roles |-> IF r = "initiator" THEN None ELSE Packet("Hello1", None)]
    /\ timers = [r \in Roles |-> IF r = "initiator" THEN {"noHello"} ELSE {"retransmit"}]
    /\ futureHandshakeResult = [r \in Roles |-> None]
    /\ net = {Packet("Hello1", None)}

\* Defect: the timer that is running is not cancelled.
ScheduleAnotherRetransmit(r) == timers' = [timers EXCEPT ![r] = @ \cup {"retransmit"}]

\* One timer at a time: the previous one is cancelled.
ScheduleRetransmit(r) == timers' = [timers EXCEPT ![r] = {"retransmit"}]

SetAndSendPacketToTransmit(r, packet) ==
    /\ currentPacketToRetransmit' = [currentPacketToRetransmit EXCEPT ![r] = packet]
    /\ net' = net \cup {packet}
    /\ ScheduleRetransmit(r)

\* trySetResult, trySetFailure: a future completes once.
TrySet(r, outcome) ==
    futureHandshakeResult' =
      [futureHandshakeResult EXCEPT ![r] = IF @ = None THEN outcome ELSE @]

\* The manager has terminated or finished: its timer finds nothing to do any more.
Stop(r) ==
    /\ done' = [done EXCEPT ![r] = TRUE]
    /\ timers' = [timers EXCEPT ![r] = {}]

RoleUnchanged ==
    UNCHANGED <<packetExpectation, participant, foreignCommit, masterSecret,
                currentPacketToRetransmit>>

\* The count is set back right before it is compared.
HandleRetransmit(r) ==
    LET currentPacketTransmitCount == 0
    IN /\ ~done[r]
       /\ "retransmit" \in timers[r]
       /\ IF currentPacketTransmitCount > MAX_RETRANSMIT_COUNT
            THEN Stop(r) /\ TrySet(r, Failed) /\ UNCHANGED net
            ELSE /\ net' = net \cup {currentPacketToRetransmit[r]}
                 /\ ScheduleRetransmit(r)
                 /\ UNCHANGED <<done, futureHandshakeResult>>
       /\ RoleUnchanged

\* No Hello came: the call is terminated, which terminates the manager.
TimeoutFail(r) ==
    /\ "noHello" \in timers[r]
    /\ Stop(r) /\ TrySet(r, Failed)
    /\ RoleUnchanged /\ UNCHANGED net

\* The call ends for a reason of its own; nobody completes the future.
Terminate(r) ==
    /\ ~done[r]
    /\ Stop(r)
    /\ RoleUnchanged /\ UNCHANGED <<futureHandshakeResult, net>>

\* The socket reports an error that ended it.
SocketFails(r) ==
    /\ ~done[r]
    /\ Stop(r) /\ TrySet(r, Failed)
    /\ RoleUnchanged /\ UNCHANGED net

\* A role answers and waits for the next packet.
Answer(r, expectation, packet) ==
    /\ packetExpectation' = [packetExpectation EXCEPT ![r] = expectation]
    /\ SetAndSendPacketToTransmit(r, packet)
    /\ UNCHANGED <<done, futureHandshakeResult>>

\* The role expects nothing more: the manager hands on the result.  No packet is
\* retransmitted from then on, and none handled.
Finish(r) ==
    /\ packetExpectation' = [packetExpectation EXCEPT ![r] = "nothing"]
    /\ TrySet(r, masterSecret[r])
    /\ Stop(r)
-----------------------------------------------------------------------------
(***************************************************************************)
(* The handlers of the roles.  A packet of any other type than the one     *)
(* expected does not parse as that one, and changes nothing.               *)
(***************************************************************************)
Receive(r, expectation, type, body) ==
    /\ ~done[r]
    /\ packetExpectation[r] = expectation
    /\ Packet(type, body) \in net

InitiatorHandleHello ==
    /\ Receive("initiator", "hello", "Hello1", None)
    /\ \E best \in DOMAIN Allowed["initiator"], key \in Keys :
         /\ Common(best) /\ \A i \in 1 .. best - 1 : ~Common(i)
         /\ participant' = [participant EXCEPT !["initiator"] = <<Allowed["initiator"][best], key>>]
    /\ Answer("initiator", "helloAck", Packet("Hello2", None))
    /\ UNCHANGED <<foreignCommit, masterSecret>>

ResponderHandleHello ==
    /\ Receive("responder", "hello", "Hello2", None)
    /\ Answer("responder", "commit", Packet("HelloAck", None))
    /\ UNCHANGED <<participant, foreignCommit, masterSecret>>

\* Defect: waits for the packet that it has just sent itself.
InitiatorExpectsCommit ==
    /\ Receive("initiator", "helloAck", "HelloAck", None)
    /\ Answer("initiator", "commit", Packet("Commit", participant["initiator"]))
    /\ UNCHANGED <<participant, foreignCommit, masterSecret>>

\* The participant that is generated here once more is not used.
InitiatorHandleHelloAck ==
    /\ Receive("initiator", "helloAck", "HelloAck", None)
    /\ Answer("initiator", "dh", Packet("Commit", participant["initiator"]))
    /\ UNCHANGED <<participant, foreignCommit, masterSecret>>

\* The protocol the initiator chose is one of the responder's.
ResponderHandleCommit(p) ==
    /\ Receive("responder", "commit", "Commit", p)
    /\ \E i \in DOMAIN Allowed["responder"] : Allowed["responder"][i] = p[1]
    /\ foreignCommit' = p
    /\ \E key \in Keys :
         /\ participant' = [participant EXCEPT !["responder"] = <<p[1], key>>]
         /\ Answer("responder", "dh", Packet("DH1", <<p[1], key>>))
    /\ UNCHANGED masterSecret

InitiatorHandleDH(p) ==
    /\ Receive("initiator", "dh", "DH1", p)
    /\ masterSecret' = [masterSecret EXCEPT !["initiator"] = <<participant["initiator"], p>>]
    /\ Answer("initiator", "confirm", Packet("DH2", participant["initiator"]))
    /\ UNCHANGED <<participant, foreignCommit>>

\* Only a DH2 packet that was committed to.
ResponderHandleDH(p) ==
    LET secret == <<p, participant["responder"]>>
    IN /\ Receive("responder", "dh", "DH2", p)
       /\ p = foreignCommit
       /\ masterSecret' = [masterSecret EXCEPT !["responder"] = secret]
       /\ Answer("responder", "confirm", Packet("Confirm1", secret))
       /\ UNCHANGED <<participant, foreignCommit>>

\* Authenticated with the keys of the secret.
InitiatorHandleConfirmOne ==
    /\ Receive("initiator", "confirm", "Confirm1", masterSecret["initiator"])
    /\ Answer("initiator", "confirmAck", Packet("Confirm2", masterSecret["initiator"]))
    /\ UNCHANGED <<participant, foreignCommit, masterSecret>>

\* The acknowledgement is sent once: its retransmission finds the manager done.
ResponderHandleConfirmTwo ==
    /\ Receive("responder", "confirm", "Confirm2", masterSecret["responder"])
    /\ Finish("responder")
    /\ currentPacketToRetransmit' =
         [currentPacketToRetransmit EXCEPT !["responder"] = Packet("ConfAck", None)]
    /\ net' = net \cup {Packet("ConfAck", None)}
    /\ UNCHANGED <<participant, foreignCommit, masterSecret>>

\* Defect: the audio is not authenticated, and may come at any time.
AnyPacketImpliesConf2Ack == \E type \in {"Audio", "Confirm1"}, s \in Secrets : Packet(type, s) \in net

\* Defect: audio is not taken for an acknowledgement.
NothingImpliesConf2Ack == FALSE

\* Audio that the responder sent with the keys of the secret.
IsAuthenticatedAudioDataImplyingConf2Ack == Packet("Audio", masterSecret["initiator"]) \in net

InitiatorHandleConfirmAck ==
    /\ ~done["initiator"]
    /\ packetExpectation["initiator"] = "confirmAck"
    /\ Packet("ConfAck", None) \in net \/ IsAuthenticatedAudioDataImplyingConf2Ack
    /\ Finish("initiator")
    /\ UNCHANGED <<participant, foreignCommit, masterSecret, currentPacketToRetransmit, net>>

\* A responder that has finished sends audio.
SendAudio ==
    /\ futureHandshakeResult["responder"] \in Secrets
    /\ net' = net \cup {Packet("Audio", futureHandshakeResult["responder"])}
    /\ UNCHANGED <<packetExpectation, participant, foreignCommit, masterSecret, managerVars>>

LosePacket ==
    /\ \E packet \in net : net' = net \ {packet}
    /\ UNCHANGED <<packetExpectation, participant, foreignCommit, masterSecret, managerVars>>

InitiatorHandles ==
    \/ InitiatorHandleHello
    \/ InitiatorHandleHelloAck
    \/ \E p \in Participants : InitiatorHandleDH(p)
    \/ InitiatorHandleConfirmOne
    \/ InitiatorHandleConfirmAck

ResponderHandles ==
    \/ ResponderHandleHello
    \/ \E p \in Participants : ResponderHandleCommit(p)
    \/ \E p \in Participants : ResponderHandleDH(p)
    \/ ResponderHandleConfirmTwo

ZrtpNext ==
    \/ InitiatorHandles
    \/ ResponderHandles
    \/ \E r \in Roles : \/ HandleRetransmit(r) \/ TimeoutFail(r)
                        \/ Terminate(r) \/ SocketFails(r)
    \/ SendAudio
    \/ LosePacket

ZrtpSpec == ZrtpInit /\ [][ZrtpNext]_zrtpVars

\* Timers fire, whatever the network does.
TimersFire == \A r \in Roles : WF_zrtpVars(HandleRetransmit(r)) /\ WF_zrtpVars(TimeoutFail(r))

\* A packet that is sent again and again arrives some time, and a party that talks
\* sends audio.
NetworkDelivers ==
    /\ SF_zrtpVars(InitiatorHandles) /\ SF_zrtpVars(ResponderHandles)
    /\ WF_zrtpVars(SendAudio)

LossySpec     == ZrtpSpec /\ TimersFire
FairLossySpec == LossySpec /\ NetworkDelivers
-----------------------------------------------------------------------------
(***************************************************************************)
(* Properties.                                                             *)
(***************************************************************************)
\* The types of the variables, and the packets that each role ever waits for
\* (the expectations of ZrtpInitiator and of ZrtpResponder).
ZrtpTypeOK ==
    /\ packetExpectation \in [Roles -> Expectations]
    /\ packetExpectation["initiator"] # "commit"
    /\ packetExpectation["responder"] \notin {"helloAck", "confirmAck"}
    /\ participant \in [Roles -> Participants \cup {None}]
    /\ foreignCommit \in Participants \cup {None}
    /\ masterSecret \in [Roles -> Secrets \cup {None}]
    /\ done \in [Roles -> BOOLEAN]
    /\ currentPacketToRetransmit \in [Roles -> Packets \cup {None}]
    /\ timers \in [Roles -> SUBSET {"noHello", "retransmit"}]
    /\ futureHandshakeResult \in [Roles -> Secrets \cup {None, Failed}]
    /\ net \subseteq Packets

\* An end's secret, as far as it has been handed on.
SecretOf(r) == IF futureHandshakeResult[r] = Failed THEN None ELSE futureHandshakeResult[r]

Exchange == INSTANCE KeyExchange WITH
    initiatorSecret <- SecretOf("initiator"), initiatorDone <- done["initiator"],
    responderSecret <- SecretOf("responder"), responderDone <- done["responder"]

\* Whatever is lost, repeated or reordered, the ends finish with the same secret, the
\* initiator after the responder: the handshake implements the key exchange
\* (ZrtpManager.handleHandshakePacket and both roles).
AgreesOnSecret == Exchange!ExchangeSpec

\* The timeout for the peer's Hello never ends a handshake that is under way: the timer
\* shares its canceller with the retransmissions that follow (scheduleTimeoutIfNoHello).
HelloTimeoutOnlyBeforeHello ==
    [][\A r \in Roles : packetExpectation[r] # "hello" => ~TimeoutFail(r)]_zrtpVars

\* Over a network that drops packets, but not all of them, both ends get their secret
\* unless one gives up, even when the acknowledgement that is sent only once is lost
\* (isAuthenticatedAudioDataImplyingConf2Ack).
HandshakeCompletes ==
    <>(\/ \A r \in Roles : futureHandshakeResult[r] \in Secrets
       \/ \E r \in Roles : done[r] /\ futureHandshakeResult[r] \notin Secrets)
=============================================================================
