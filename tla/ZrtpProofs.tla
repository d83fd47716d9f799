----------------------------- MODULE ZrtpProofs -----------------------------
(***************************************************************************)
(* The ZRTP handshake implements the key exchange, for every network, set  *)
(* of protocols and number of retransmissions.                             *)
(***************************************************************************)
EXTENDS ZrtpHandshake, TLAPS

(***************************************************************************)
(* The inductive invariant.  Every packet that was ever sent is on its way *)
(* or could be sent again; what it says is a function of what its sender   *)
(* has committed itself to.                                                *)
(***************************************************************************)
Sendable == net \cup {currentPacketToRetransmit[r] : r \in Roles}

Agreed == <<participant["initiator"], participant["responder"]>>

\* What a role has by the time it waits for a type of packet.
HoldsWhatItNeeds ==
    /\ packetExpectation["initiator"] = "hello" <=> participant["initiator"] = None
    /\ packetExpectation["responder"] \in {"hello", "commit"} <=> participant["responder"] = None
    /\ packetExpectation["responder"] \notin {"hello", "commit"} =>
         foreignCommit = participant["initiator"] /\ participant["initiator"] # None
    /\ packetExpectation["initiator"] \in {"confirm", "confirmAck", "nothing"} =>
         masterSecret["initiator"] = Agreed /\ participant["responder"] # None
    /\ packetExpectation["responder"] \in {"confirm", "nothing"} =>
         masterSecret["responder"] = Agreed

\* What the packets say.
PacketsTellTruth ==
    \A packet \in Sendable \ {None} :
      /\ packet.type \in {"Commit", "DH2"} =>
           packet.body = participant["initiator"] /\ packet.body # None
      /\ packet.type = "DH1" => packet.body = participant["responder"] /\ packet.body # None
      /\ packet.type \in {"ConfAck", "Audio"} => futureHandshakeResult["responder"] \in Secrets

\* A future completes only with the end of its manager, and with the secret agreed.
OutcomeIsAgreed ==
    \A r \in Roles :
      /\ futureHandshakeResult[r] # None => done[r]
      /\ futureHandshakeResult[r] \in Secrets =>
           packetExpectation[r] = "nothing" /\ futureHandshakeResult[r] = Agreed

\* A role retransmits once it has sent, and waits for the peer's Hello before that only.
TimersFit ==
    \A r \in Roles :
      /\ "retransmit" \in timers[r] => currentPacketToRetransmit[r] # None
      /\ "noHello" \in timers[r] => packetExpectation[r] = "hello"

ZrtpIInv == ZrtpTypeOK /\ TimersFit /\ HoldsWhatItNeeds /\ PacketsTellTruth /\ OutcomeIsAgreed
-----------------------------------------------------------------------------
LEMMA PairsAreSecrets == \A p, q \in Participants : <<p, q>> \in Secrets
BY DEF Secrets

LEMMA PacketTypes ==
    /\ \A t \in {"Hello1", "Hello2", "HelloAck", "ConfAck"} : Packet(t, None) \in Packets
    /\ \A t \in {"Commit", "DH1", "DH2"}, p \in Participants : Packet(t, p) \in Packets
    /\ \A t \in {"Confirm1", "Confirm2", "Audio"}, s \in Secrets : Packet(t, s) \in Packets
BY DEF Packets

USE NilAssumption, PairsAreSecrets, PacketTypes DEF Roles

LEMMA ZrtpInitInv == ZrtpInit => ZrtpIInv
<1> SUFFICES ASSUME ZrtpInit PROVE ZrtpIInv
  OBVIOUS
<1>1. ZrtpTypeOK
  BY DEF ZrtpInit, ZrtpTypeOK, Expectations
<1>2. TimersFit
  BY DEF ZrtpInit, TimersFit
<1>3. HoldsWhatItNeeds /\ OutcomeIsAgreed
  BY DEF ZrtpInit, HoldsWhatItNeeds, OutcomeIsAgreed
<1>4. PacketsTellTruth
  BY DEF ZrtpInit, PacketsTellTruth, Sendable, Packet
<1> QED
  BY <1>1, <1>2, <1>3, <1>4 DEF ZrtpIInv

\* One step of the initiator's role.
LEMMA InitiatorHandlesInv == ZrtpIInv /\ InitiatorHandles => ZrtpIInv'
<1> SUFFICES ASSUME ZrtpIInv, InitiatorHandles PROVE ZrtpIInv'
  OBVIOUS
<1> USE DEF ZrtpIInv, Receive, Answer, SetAndSendPacketToTransmit, ScheduleRetransmit, Finish, Stop, TrySet
<1>1. CASE InitiatorHandleHello
  <2>1. participant'["initiator"] \in Participants
    BY <1>1, ProtocolsAssumption DEF InitiatorHandleHello, Participants, ZrtpTypeOK
  <2>2. ZrtpTypeOK'
    BY <1>1, <2>1 DEF InitiatorHandleHello, ZrtpTypeOK, Expectations
  <2>3. TimersFit'
    BY <1>1 DEF InitiatorHandleHello, TimersFit, ZrtpTypeOK
  <2>4. HoldsWhatItNeeds'
    BY <1>1, <2>1 DEF InitiatorHandleHello, HoldsWhatItNeeds, ZrtpTypeOK
  <2>5. PacketsTellTruth'
    BY <1>1 DEF InitiatorHandleHello, PacketsTellTruth, HoldsWhatItNeeds, Sendable, Packet
  <2>6. OutcomeIsAgreed'
    BY <1>1 DEF InitiatorHandleHello, OutcomeIsAgreed, HoldsWhatItNeeds
  <2> QED
    BY <2>2, <2>3, <2>4, <2>5, <2>6
<1>2. CASE InitiatorHandleHelloAck
  <2>1. participant["initiator"] \in Participants
    BY <1>2 DEF InitiatorHandleHelloAck, HoldsWhatItNeeds, ZrtpTypeOK
  <2>2. ZrtpTypeOK'
    BY <1>2, <2>1 DEF InitiatorHandleHelloAck, ZrtpTypeOK, Expectations
  <2>3. TimersFit'
    BY <1>2, <2>1 DEF InitiatorHandleHelloAck, TimersFit, ZrtpTypeOK
  <2>4. HoldsWhatItNeeds'
    BY <1>2 DEF InitiatorHandleHelloAck, HoldsWhatItNeeds, Agreed
  <2>5. PacketsTellTruth'
    BY <1>2 DEF InitiatorHandleHelloAck, PacketsTellTruth, HoldsWhatItNeeds, Sendable, Packet
  <2>6. OutcomeIsAgreed'
    BY <1>2 DEF InitiatorHandleHelloAck, OutcomeIsAgreed, Agreed
  <2> QED
    BY <2>2, <2>3, <2>4, <2>5, <2>6
<1>3. CASE \E p \in Participants : InitiatorHandleDH(p)
  <2>1. participant["initiator"] \in Participants /\ participant["responder"] \in Participants
    BY <1>3 DEF InitiatorHandleDH, HoldsWhatItNeeds, ZrtpTypeOK, PacketsTellTruth, Sendable, Packet
  <2>2. PICK p \in Participants : InitiatorHandleDH(p)
    BY <1>3
  <2>3. p = participant["responder"]
    BY <2>2 DEF InitiatorHandleDH, PacketsTellTruth, Sendable, Packet
  <2>4. InitiatorHandleDH(participant["responder"])
    BY <2>2, <2>3
  <2>5. Agreed \in Secrets
    BY <2>1 DEF Agreed
  <2>6. ZrtpTypeOK'
    BY <2>1, <2>4 DEF InitiatorHandleDH, ZrtpTypeOK, Expectations
  <2>7. TimersFit'
    BY <2>1, <2>4 DEF InitiatorHandleDH, TimersFit, ZrtpTypeOK
  <2>8. HoldsWhatItNeeds'
    BY <2>3, <2>4 DEF InitiatorHandleDH, HoldsWhatItNeeds, ZrtpTypeOK, Agreed
  <2>9. PacketsTellTruth'
    BY <2>4 DEF InitiatorHandleDH, PacketsTellTruth, HoldsWhatItNeeds, Sendable, Packet
  <2>10. OutcomeIsAgreed'
    BY <2>4 DEF InitiatorHandleDH, OutcomeIsAgreed, Agreed
  <2> QED
    BY <2>6, <2>7, <2>8, <2>9, <2>10
<1>4. CASE InitiatorHandleConfirmOne
  <2>1. participant["initiator"] \in Participants /\ participant["responder"] \in Participants
    BY <1>4 DEF InitiatorHandleConfirmOne, HoldsWhatItNeeds, ZrtpTypeOK
  <2>2. Agreed \in Secrets
    BY <2>1 DEF Agreed
  <2>3. masterSecret["initiator"] \in Secrets
    BY <1>4, <2>2 DEF InitiatorHandleConfirmOne, HoldsWhatItNeeds
  <2>4. ZrtpTypeOK'
    BY <1>4, <2>3 DEF InitiatorHandleConfirmOne, ZrtpTypeOK, Expectations
  <2>5. TimersFit'
    BY <1>4, <2>2, <2>3 DEF InitiatorHandleConfirmOne, TimersFit, ZrtpTypeOK
  <2>6. HoldsWhatItNeeds'
    BY <1>4, <2>1, <2>2, <2>3 DEF InitiatorHandleConfirmOne, HoldsWhatItNeeds, ZrtpTypeOK, Agreed
  <2>7. PacketsTellTruth'
    BY <1>4, <2>1, <2>2, <2>3 DEF InitiatorHandleConfirmOne, PacketsTellTruth, HoldsWhatItNeeds, TimersFit, ZrtpTypeOK, Sendable, Packet
  <2>8. OutcomeIsAgreed'
    BY <1>4, <2>1, <2>2, <2>3 DEF InitiatorHandleConfirmOne, OutcomeIsAgreed, HoldsWhatItNeeds, ZrtpTypeOK, Agreed
  <2> QED
    BY <2>4, <2>5, <2>6, <2>7, <2>8
<1>5. CASE InitiatorHandleConfirmAck
  <2>1. futureHandshakeResult["initiator"] = None /\ masterSecret["initiator"] \in Secrets
    BY <1>5 DEF InitiatorHandleConfirmAck, HoldsWhatItNeeds, ZrtpTypeOK, OutcomeIsAgreed, Agreed
  <2>2. ZrtpTypeOK'
    BY <1>5, <2>1 DEF InitiatorHandleConfirmAck, ZrtpTypeOK, Expectations
  <2>3. TimersFit'
    BY <1>5, <2>1 DEF InitiatorHandleConfirmAck, TimersFit, ZrtpTypeOK
  <2>4. HoldsWhatItNeeds'
    BY <1>5, <2>1 DEF InitiatorHandleConfirmAck, HoldsWhatItNeeds, ZrtpTypeOK, Agreed
  <2>5. PacketsTellTruth'
    BY <1>5, <2>1 DEF InitiatorHandleConfirmAck, PacketsTellTruth, HoldsWhatItNeeds, TimersFit, ZrtpTypeOK, Sendable, Packet
  <2>6. OutcomeIsAgreed'
    BY <1>5, <2>1 DEF InitiatorHandleConfirmAck, OutcomeIsAgreed, HoldsWhatItNeeds, ZrtpTypeOK, Agreed
  <2> QED
    BY <2>2, <2>3, <2>4, <2>5, <2>6
<1> QED
  BY <1>1, <1>2, <1>3, <1>4, <1>5 DEF InitiatorHandles

\* One step of the responder's role.
LEMMA ResponderHandlesInv == ZrtpIInv /\ ResponderHandles => ZrtpIInv'
<1> SUFFICES ASSUME ZrtpIInv, ResponderHandles PROVE ZrtpIInv'
  OBVIOUS
<1> USE DEF ZrtpIInv, Receive, Answer, SetAndSendPacketToTransmit, ScheduleRetransmit, Finish, Stop, TrySet
<1>1. CASE ResponderHandleHello
  <2>1. ZrtpTypeOK'
    BY <1>1 DEF ResponderHandleHello, ZrtpTypeOK, Expectations
  <2>2. TimersFit'
    BY <1>1 DEF ResponderHandleHello, TimersFit, ZrtpTypeOK
  <2>3. HoldsWhatItNeeds'
    BY <1>1 DEF ResponderHandleHello, HoldsWhatItNeeds, ZrtpTypeOK, Agreed
  <2>4. PacketsTellTruth'
    BY <1>1 DEF ResponderHandleHello, PacketsTellTruth, HoldsWhatItNeeds, TimersFit, ZrtpTypeOK, Sendable, Packet
  <2>5. OutcomeIsAgreed'
    BY <1>1 DEF ResponderHandleHello, OutcomeIsAgreed, HoldsWhatItNeeds, ZrtpTypeOK, Agreed
  <2> QED
    BY <2>1, <2>2, <2>3, <2>4, <2>5
<1>2. CASE \E p \in Participants : ResponderHandleCommit(p)
  <2>1. PICK p \in Participants : ResponderHandleCommit(p)
    BY <1>2 DEF ResponderHandleCommit, ZrtpTypeOK
  <2>2. p = participant["initiator"]
    BY <1>2, <2>1 DEF ResponderHandleCommit, PacketsTellTruth, Sendable, Packet, ZrtpTypeOK
  <2>3. participant["initiator"] \in Participants /\ ResponderHandleCommit(participant["initiator"])
    BY <1>2, <2>1, <2>2 DEF ResponderHandleCommit, ZrtpTypeOK
  <2>4. participant'["responder"] \in Participants
    BY <1>2, <2>1, <2>2, <2>3 DEF ResponderHandleCommit, Participants, ZrtpTypeOK
  <2>5. ZrtpTypeOK'
    BY <1>2, <2>1, <2>2, <2>3, <2>4 DEF ResponderHandleCommit, ZrtpTypeOK, Expectations
  <2>6. TimersFit'
    BY <1>2, <2>1, <2>2, <2>3, <2>4 DEF ResponderHandleCommit, TimersFit, ZrtpTypeOK
  <2>7. HoldsWhatItNeeds'
    BY <1>2, <2>1, <2>2, <2>3, <2>4 DEF ResponderHandleCommit, HoldsWhatItNeeds, ZrtpTypeOK, Agreed
  <2>8. PacketsTellTruth'
    BY <1>2, <2>1, <2>2, <2>3, <2>4 DEF ResponderHandleCommit, PacketsTellTruth, HoldsWhatItNeeds, TimersFit, ZrtpTypeOK, Sendable, Packet
  <2>9. OutcomeIsAgreed'
    BY <1>2, <2>1, <2>2, <2>3, <2>4 DEF ResponderHandleCommit, OutcomeIsAgreed, HoldsWhatItNeeds, ZrtpTypeOK, Agreed
  <2> QED
    BY <2>5, <2>6, <2>7, <2>8, <2>9
<1>3. CASE \E p \in Participants : ResponderHandleDH(p)
  <2>1. participant["initiator"] \in Participants /\ participant["responder"] \in Participants
    BY <1>3 DEF ResponderHandleDH, HoldsWhatItNeeds, ZrtpTypeOK
  <2>2. ResponderHandleDH(participant["initiator"])
    BY <1>3, <2>1 DEF ResponderHandleDH, HoldsWhatItNeeds, ZrtpTypeOK
  <2>3. Agreed \in Secrets
    BY <1>3, <2>1, <2>2 DEF ResponderHandleDH, Agreed
  <2>4. ZrtpTypeOK'
    BY <1>3, <2>1, <2>2, <2>3 DEF ResponderHandleDH, ZrtpTypeOK, Expectations
  <2>5. TimersFit'
    BY <1>3, <2>1, <2>2, <2>3 DEF ResponderHandleDH, TimersFit, ZrtpTypeOK
  <2>6. HoldsWhatItNeeds'
    BY <1>3, <2>1, <2>2, <2>3 DEF ResponderHandleDH, HoldsWhatItNeeds, ZrtpTypeOK, Agreed
  <2>7. PacketsTellTruth'
    BY <1>3, <2>1, <2>2, <2>3 DEF ResponderHandleDH, PacketsTellTruth, HoldsWhatItNeeds, TimersFit, ZrtpTypeOK, Sendable, Packet
  <2>8. OutcomeIsAgreed'
    BY <1>3, <2>1, <2>2, <2>3 DEF ResponderHandleDH, OutcomeIsAgreed, HoldsWhatItNeeds, ZrtpTypeOK, Agreed
  <2> QED
    BY <2>4, <2>5, <2>6, <2>7, <2>8
<1>4. CASE ResponderHandleConfirmTwo
  <2>1. participant["initiator"] \in Participants /\ participant["responder"] \in Participants
    BY <1>4 DEF ResponderHandleConfirmTwo, HoldsWhatItNeeds, ZrtpTypeOK
  <2>2. futureHandshakeResult["responder"] = None /\ masterSecret["responder"] = Agreed /\ Agreed \in Secrets
    BY <1>4, <2>1 DEF ResponderHandleConfirmTwo, HoldsWhatItNeeds, ZrtpTypeOK, OutcomeIsAgreed, Agreed
  <2>3. ZrtpTypeOK'
    BY <1>4, <2>1, <2>2 DEF ResponderHandleConfirmTwo, ZrtpTypeOK, Expectations
  <2>4. TimersFit'
    BY <1>4, <2>1, <2>2 DEF ResponderHandleConfirmTwo, TimersFit, ZrtpTypeOK
  <2>5. HoldsWhatItNeeds'
    BY <1>4, <2>1, <2>2 DEF ResponderHandleConfirmTwo, HoldsWhatItNeeds, ZrtpTypeOK, Agreed
  <2>6. PacketsTellTruth'
    BY <1>4, <2>1, <2>2 DEF ResponderHandleConfirmTwo, PacketsTellTruth, HoldsWhatItNeeds, TimersFit, ZrtpTypeOK, Sendable, Packet
  <2>7. OutcomeIsAgreed'
    BY <1>4, <2>1, <2>2 DEF ResponderHandleConfirmTwo, OutcomeIsAgreed, HoldsWhatItNeeds, ZrtpTypeOK, Agreed
  <2> QED
    BY <2>3, <2>4, <2>5, <2>6, <2>7
<1> QED
  BY <1>1, <1>2, <1>3, <1>4 DEF ResponderHandles

\* A timer, an end or the network.
ManagerStep ==
    \/ \E r \in Roles : HandleRetransmit(r)
    \/ \E r \in Roles : TimeoutFail(r) \/ Terminate(r) \/ SocketFails(r)
    \/ SendAudio
    \/ LosePacket
    \/ UNCHANGED zrtpVars

LEMMA ManagerInv == ZrtpIInv /\ ManagerStep => ZrtpIInv'
<1> SUFFICES ASSUME ZrtpIInv, ManagerStep PROVE ZrtpIInv'
  OBVIOUS
<1> USE DEF ZrtpIInv, managerVars, ScheduleRetransmit, RoleUnchanged, Stop, TrySet
<1>1. CASE \E r \in Roles : HandleRetransmit(r)
  <2>1. PICK r \in Roles : HandleRetransmit(r)
    BY <1>1 DEF HandleRetransmit, ZrtpTypeOK
  <2>2. currentPacketToRetransmit[r] \in Packets
    BY <1>1, <2>1 DEF HandleRetransmit, TimersFit, ZrtpTypeOK
  <2>3. timers' \in [Roles -> SUBSET {"noHello", "retransmit"}] /\ UNCHANGED <<done, futureHandshakeResult>>
    BY <1>1, <2>1, <2>2, CountAssumption DEF HandleRetransmit, ZrtpTypeOK
  <2>4. ZrtpTypeOK'
    BY <1>1, <2>1, <2>2, <2>3 DEF HandleRetransmit, ZrtpTypeOK, Expectations
  <2>5. TimersFit'
    BY <1>1, <2>1, <2>2, <2>3 DEF HandleRetransmit, TimersFit, ZrtpTypeOK
  <2>6. HoldsWhatItNeeds'
    BY <1>1, <2>1, <2>2, <2>3 DEF HandleRetransmit, HoldsWhatItNeeds, ZrtpTypeOK, Agreed
  <2>7. PacketsTellTruth'
    BY <1>1, <2>1, <2>2, <2>3 DEF HandleRetransmit, PacketsTellTruth, HoldsWhatItNeeds, TimersFit, ZrtpTypeOK, Sendable, Packet
  <2>8. OutcomeIsAgreed'
    BY <1>1, <2>1, <2>2, <2>3 DEF HandleRetransmit, OutcomeIsAgreed, HoldsWhatItNeeds, ZrtpTypeOK, Agreed
  <2> QED
    BY <2>4, <2>5, <2>6, <2>7, <2>8
<1>2. CASE \E r \in Roles : TimeoutFail(r) \/ Terminate(r) \/ SocketFails(r)
  <2>1. PICK r \in Roles : TimeoutFail(r) \/ Terminate(r) \/ SocketFails(r)
    BY <1>2 DEF TimeoutFail, Terminate, SocketFails, ZrtpTypeOK
  <2>2. timers' \in [Roles -> SUBSET {"noHello", "retransmit"}]
    BY <1>2, <2>1 DEF TimeoutFail, Terminate, SocketFails, ZrtpTypeOK
  <2>3. futureHandshakeResult' \in [Roles -> Secrets \cup {None, Failed}]
    BY <1>2, <2>1, <2>2 DEF TimeoutFail, Terminate, SocketFails, ZrtpTypeOK
  <2>4. done' = [done EXCEPT ![r] = TRUE]
    BY <1>2, <2>1, <2>2, <2>3 DEF TimeoutFail, Terminate, SocketFails, ZrtpTypeOK
  <2>5. done' \in [Roles -> BOOLEAN]
    BY <2>4 DEF ZrtpTypeOK
  <2>6. ZrtpTypeOK'
    BY <1>2, <2>1, <2>2, <2>3, <2>4, <2>5 DEF TimeoutFail, Terminate, SocketFails, ZrtpTypeOK, Expectations
  <2>7. TimersFit'
    BY <1>2, <2>1, <2>2, <2>3, <2>4, <2>5 DEF TimeoutFail, Terminate, SocketFails, TimersFit, ZrtpTypeOK
  <2>8. HoldsWhatItNeeds'
    BY <1>2, <2>1, <2>2, <2>3, <2>4, <2>5 DEF TimeoutFail, Terminate, SocketFails, HoldsWhatItNeeds, ZrtpTypeOK, Agreed
  <2>9. PacketsTellTruth'
    BY <1>2, <2>1, <2>2, <2>3, <2>4, <2>5 DEF TimeoutFail, Terminate, SocketFails, PacketsTellTruth, HoldsWhatItNeeds, TimersFit, ZrtpTypeOK, Sendable, Packet
  <2>10. OutcomeIsAgreed'
    BY <1>2, <2>1, <2>2, <2>3, <2>4, <2>5 DEF TimeoutFail, Terminate, SocketFails, OutcomeIsAgreed, HoldsWhatItNeeds, ZrtpTypeOK, Agreed
  <2> QED
    BY <2>6, <2>7, <2>8, <2>9, <2>10
<1>3. CASE SendAudio
  <2>1. ZrtpTypeOK'
    BY <1>3 DEF SendAudio, ZrtpTypeOK, Expectations
  <2>2. TimersFit'
    BY <1>3 DEF SendAudio, TimersFit, ZrtpTypeOK
  <2>3. HoldsWhatItNeeds'
    BY <1>3 DEF SendAudio, HoldsWhatItNeeds, ZrtpTypeOK, Agreed
  <2>4. PacketsTellTruth'
    BY <1>3 DEF SendAudio, PacketsTellTruth, HoldsWhatItNeeds, TimersFit, ZrtpTypeOK, Sendable, Packet
  <2>5. OutcomeIsAgreed'
    BY <1>3 DEF SendAudio, OutcomeIsAgreed, HoldsWhatItNeeds, ZrtpTypeOK, Agreed
  <2> QED
    BY <2>1, <2>2, <2>3, <2>4, <2>5
<1>4. CASE LosePacket
  <2>1. ZrtpTypeOK'
    BY <1>4 DEF LosePacket, ZrtpTypeOK, Expectations
  <2>2. TimersFit'
    BY <1>4 DEF LosePacket, TimersFit, ZrtpTypeOK
  <2>3. HoldsWhatItNeeds'
    BY <1>4 DEF LosePacket, HoldsWhatItNeeds, ZrtpTypeOK, Agreed
  <2>4. PacketsTellTruth'
    BY <1>4 DEF LosePacket, PacketsTellTruth, HoldsWhatItNeeds, TimersFit, ZrtpTypeOK, Sendable, Packet
  <2>5. OutcomeIsAgreed'
    BY <1>4 DEF LosePacket, OutcomeIsAgreed, HoldsWhatItNeeds, ZrtpTypeOK, Agreed
  <2> QED
    BY <2>1, <2>2, <2>3, <2>4, <2>5
<1>5. CASE UNCHANGED zrtpVars
  <2>1. ZrtpTypeOK'
    BY <1>5 DEF zrtpVars, ZrtpTypeOK, Expectations
  <2>2. TimersFit'
    BY <1>5 DEF zrtpVars, TimersFit, ZrtpTypeOK
  <2>3. HoldsWhatItNeeds'
    BY <1>5 DEF zrtpVars, HoldsWhatItNeeds, ZrtpTypeOK, Agreed
  <2>4. PacketsTellTruth'
    BY <1>5 DEF zrtpVars, PacketsTellTruth, HoldsWhatItNeeds, TimersFit, ZrtpTypeOK, Sendable, Packet
  <2>5. OutcomeIsAgreed'
    BY <1>5 DEF zrtpVars, OutcomeIsAgreed, HoldsWhatItNeeds, ZrtpTypeOK, Agreed
  <2> QED
    BY <2>1, <2>2, <2>3, <2>4, <2>5
<1> QED
  BY <1>1, <1>2, <1>3, <1>4, <1>5 DEF ManagerStep

LEMMA ZrtpNextInv == ZrtpIInv /\ [ZrtpNext]_zrtpVars => ZrtpIInv'
BY InitiatorHandlesInv, ResponderHandlesInv, ManagerInv DEF ZrtpNext, ManagerStep

\* The inductive invariant holds in every reachable state.
THEOREM ZrtpInvariance == ZrtpSpec => []ZrtpIInv
BY ZrtpInitInv, ZrtpNextInv, PTL DEF ZrtpSpec

\* Every packet is handled by the role that waits for it.
THEOREM ZrtpTypeCorrect == ZrtpSpec => []ZrtpTypeOK
BY ZrtpInvariance, PTL DEF ZrtpIInv

-----------------------------------------------------------------------------
\* Whatever the network does, the ends finish with the same secret, the initiator after
\* the responder: every step of the handshake is one of the key exchange, or none.
THEOREM HandshakeImplementsExchange == ZrtpSpec => AgreesOnSecret
<1> USE DEF SecretOf
<1>1. ZrtpInit => Exchange!ExchangeInit
  BY DEF ZrtpInit, Exchange!ExchangeInit
<1>2. ZrtpIInv /\ [ZrtpNext]_zrtpVars => [Exchange!ExchangeNext]_Exchange!exchangeVars
  <2> SUFFICES ASSUME ZrtpIInv, [ZrtpNext]_zrtpVars
               PROVE  [Exchange!ExchangeNext]_Exchange!exchangeVars
    OBVIOUS
  <2> USE DEF Exchange!ExchangeNext, Exchange!exchangeVars, ZrtpIInv, ZrtpTypeOK, OutcomeIsAgreed
  <2>1. CASE InitiatorHandles /\ ~InitiatorHandleConfirmAck
    BY <2>1 DEF InitiatorHandles, InitiatorHandleHello, InitiatorHandleHelloAck,
       InitiatorHandleDH, InitiatorHandleConfirmOne, Answer
  <2>2. CASE InitiatorHandleConfirmAck
    <3>1. futureHandshakeResult["responder"] \in Secrets
      BY <2>2 DEF InitiatorHandleConfirmAck, PacketsTellTruth, Sendable, Packet,
         IsAuthenticatedAudioDataImplyingConf2Ack
    <3>2. masterSecret["initiator"] = futureHandshakeResult["responder"]
      BY <2>2, <3>1 DEF InitiatorHandleConfirmAck, HoldsWhatItNeeds
    <3>3. Exchange!InitiatorAgrees
      BY <2>2, <3>1, <3>2 DEF InitiatorHandleConfirmAck, Finish, TrySet, Stop, Exchange!InitiatorAgrees
    <3> QED
      BY <3>3
  <2>3. CASE ResponderHandles /\ ~ResponderHandleConfirmTwo
    BY <2>3 DEF ResponderHandles, ResponderHandleHello, ResponderHandleCommit,
       ResponderHandleDH, Answer
  <2>4. CASE ResponderHandleConfirmTwo
    <3>1. participant["initiator"] \in Participants /\ participant["responder"] \in Participants
      BY <2>4 DEF ResponderHandleConfirmTwo, Receive, HoldsWhatItNeeds
    <3>2. masterSecret["responder"] \in Secrets
      <4>1. Agreed \in Secrets
        BY <3>1 DEF Agreed
      <4> QED
        BY <2>4, <4>1 DEF ResponderHandleConfirmTwo, Receive, HoldsWhatItNeeds
    <3>3. Exchange!ResponderAgrees(masterSecret["responder"])
      BY <2>4, <3>2 DEF ResponderHandleConfirmTwo, Receive, Finish, TrySet, Stop, Exchange!ResponderAgrees
    <3> QED
      BY <3>2, <3>3
  <2>5. CASE \E r \in Roles : HandleRetransmit(r)
    BY <2>5, CountAssumption DEF HandleRetransmit
  <2>6. CASE \E r \in Roles : TimeoutFail(r) \/ Terminate(r) \/ SocketFails(r)
    <3>1. PICK r \in Roles : TimeoutFail(r) \/ Terminate(r) \/ SocketFails(r)
      BY <2>6
    <3>2. done' = [done EXCEPT ![r] = TRUE] /\ \A q \in Roles : SecretOf(q)' = SecretOf(q)
      BY <3>1 DEF TimeoutFail, Terminate, SocketFails, Stop, TrySet
    <3>3. CASE done[r]
      BY <3>2, <3>3
    <3>4. CASE ~done[r]
      BY <3>2, <3>4 DEF Exchange!InitiatorGivesUp, Exchange!ResponderGivesUp
    <3> QED
      BY <3>3, <3>4
  <2>7. CASE SendAudio \/ LosePacket \/ UNCHANGED zrtpVars
    BY <2>7 DEF SendAudio, LosePacket, zrtpVars, managerVars
  <2> QED
    BY <2>1, <2>2, <2>3, <2>4, <2>5, <2>6, <2>7 DEF ZrtpNext
<1> QED
  BY <1>1, <1>2, ZrtpInvariance, PTL DEF ZrtpSpec, AgreesOnSecret, Exchange!ExchangeSpec

\* The timeout for the peer's Hello never ends a handshake that is under way.
THEOREM HelloTimeoutIsForHello == ZrtpSpec => HelloTimeoutOnlyBeforeHello
<1>1. ZrtpIInv => \A r \in Roles : packetExpectation[r] # "hello" => ~TimeoutFail(r)
  BY DEF ZrtpIInv, TimersFit, TimeoutFail
<1> QED
  BY <1>1, ZrtpInvariance, PTL DEF ZrtpSpec, HelloTimeoutOnlyBeforeHello
=============================================================================
