------------------------------ MODULE MCAudio ------------------------------
(***************************************************************************)
(* The two ends of the playout, one of them in each behaviour: packets up  *)
(* to the reader, with numbers of few bits, and decoded sound up to the    *)
(* speaker.  The speaker asks for one or two units, frames have one or     *)
(* three units, and a unit of sound is one of two values.  What passes     *)
(* from one end to the other is a packet, or that there is none, at any    *)
(* time, so that each end meets everything the other can do to it.         *)
(***************************************************************************)
EXTENDS AudioStream, RemoteIOAudio

MCAudioData == 0 .. MaxPackets - 1 \cup {Garbled}
MCByte == {0, 1}
MCChunk == {<<0>>, <<1, 0, 1>>}

VARIABLE part

PlayoutInit ==
  /\ StreamInit /\ AudioInit /\ part \in {"packets", "sound"}
  /\ nextSequenceNumber = QuarterRange - 1

PlayoutNext ==
  /\ UNCHANGED part
  /\ \/ part = "packets" /\ StreamNext /\ UNCHANGED audioVars
     \/ part = "sound" /\ AudioNext /\ UNCHANGED streamVars

PlayoutSpec ==
  /\ PlayoutInit /\ [][PlayoutNext]_<<part, streamVars, audioVars>>
  /\ WF_streamVars(part = "packets" /\ PullPacket)
  /\ WF_audioVars(part = "sound" /\ LowLatencyThread)
=============================================================================
