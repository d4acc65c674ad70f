------------------------------- MODULE Devices ------------------------------
(***************************************************************************)
(* The cameras, the ring that their callback fills, and the OPC UA client. *)
(* One thread controls a camera, another delivers its frames: FakeCamera's *)
(* own thread, which a stop joins, or Aravis' stream thread (external),    *)
(* which runs as long as the stream object lives.  The PLC's variables are *)
(* a function that its server also changes; any call may fail.             *)
(* Bound: MaxFrames frames, MaxStreams streams.                            *)
(***************************************************************************)
EXTENDS Integers, Sequences, FiniteSets, SequencesExt, FiniteSetsExt

CONSTANTS Kinds, Capacity, MaxFrames, MaxStreams, Variables, PlcValues

VARIABLES
  cam,   \* state, acquiring, stream held (0: none), streams alive, ctl (the step the controller is at)
  ring,  \* its slots' content, oldest first, and the count of the dropped
  shot,  \* frames delivered to the callback; taken, those the consumer popped
  plc,   \* the server's variables
  opc    \* the client: connected, and what its last call returned

devVars == <<cam, ring, shot, plc, opc>>
NoValue == "null"

DevInit ==
  /\ \E k \in Kinds :
       cam = [kind |-> k, state |-> "Disconnected", acquiring |-> FALSE, stream |-> 0, alive |-> {},
              made |-> 0, ctl |-> "idle", quiet |-> FALSE]
  /\ ring = [items |-> <<>>, dropped |-> 0] /\ shot = [taken |-> <<>>, made |-> 0]
  /\ plc = [v \in Variables |-> NoValue] /\ opc = [connected |-> FALSE, asked |-> <<>>, got |-> <<>>]

OnlyCam == UNCHANGED <<ring, shot, plc, opc>>
Idle == cam.ctl = "idle"
Fake == cam.kind = "fake"

(* Connect and Disconnect.  GenICamCamera may fail to find its device; it  *)
(* stops first when it is acquiring, then drops the stream it holds.       *)
Connect ==
  /\ Idle /\ OnlyCam
  /\ IF Fake THEN cam' = [cam EXCEPT !.state = "Connected"]
     ELSE \/ UNCHANGED cam
          \/ cam.state = "Disconnected" /\ cam' = [cam EXCEPT !.state = "Connected"]
Disconnect ==
  /\ Idle /\ OnlyCam
  /\ IF cam.acquiring THEN cam' = [cam EXCEPT !.ctl = "stop", !.quiet = TRUE]
     ELSE cam' = [cam EXCEPT !.alive = @ \ {cam.stream}, !.stream = 0, !.state = "Disconnected"]

(* StartAcquisition: the flag, the stream (or the thread), and the start.  *)
StartAcquisition ==
  /\ Idle /\ cam.state = "Connected" /\ ~cam.acquiring /\ cam.made < MaxStreams /\ OnlyCam
  /\ cam' = [cam EXCEPT !.acquiring = TRUE, !.ctl = "start",
                        !.state = IF Fake THEN "Acquiring" ELSE @]
\* The handle of an earlier stream is overwritten, never released.
CreateStream ==
  /\ cam.ctl = "start" /\ OnlyCam
  /\ \/ LET s == cam.made + 1
        IN  cam' = [cam EXCEPT !.alive = @ \cup {s}, !.stream = s, !.made = s, !.ctl = IF Fake THEN "idle" ELSE "begin"]
     \/ ~Fake /\ cam' = [cam EXCEPT !.acquiring = FALSE, !.ctl = "idle"]
Begin ==
  /\ cam.ctl = "begin" /\ OnlyCam
  /\ \/ cam' = [cam EXCEPT !.state = "Acquiring", !.ctl = "idle"]
     \/ cam' = [cam EXCEPT !.alive = @ \ {cam.stream}, !.stream = 0, !.acquiring = FALSE, !.ctl = "idle"]

(* StopAcquisition: FakeCamera's thread is joined; a GenICam stream stays. *)
StopAcquisition == /\ Idle /\ cam.acquiring /\ OnlyCam /\ cam' = [cam EXCEPT !.ctl = "stop"]
\* Variant of Join: the thread is asked to stop and not joined.
Detach ==
  /\ cam.ctl = "stop" /\ OnlyCam
  /\ LET off == [cam EXCEPT !.acquiring = FALSE, !.ctl = "idle", !.quiet = FALSE]
     IN  cam' = IF cam.quiet THEN [off EXCEPT !.state = "Disconnected"]
                ELSE [off EXCEPT !.state = IF @ = "Acquiring" THEN "Connected" ELSE @]
Join ==
  /\ cam.ctl = "stop" /\ OnlyCam
  /\ LET off == [cam EXCEPT !.acquiring = FALSE, !.ctl = "idle", !.quiet = FALSE,
                            !.alive = IF Fake THEN {} ELSE IF cam.quiet THEN @ \ {cam.stream} ELSE @]
     IN  cam' = IF cam.quiet THEN [off EXCEPT !.state = "Disconnected", !.stream = 0]
                ELSE [off EXCEPT !.state = IF @ = "Acquiring" THEN "Connected" ELSE @]

(* The ring drops its oldest frame for a new one.                          *)
\* Variant of Pushed: the newest gives way.
PushedOverNewest(r, f) ==
  IF Len(r.items) < Capacity THEN [r EXCEPT !.items = Append(@, f)]
  ELSE [items |-> Append(SubSeq(r.items, 1, Capacity - 1), f), dropped |-> r.dropped + 1]
Pushed(r, f) ==
  IF Capacity = 0 THEN [r EXCEPT !.dropped = @ + 1]
  ELSE IF Len(r.items) < Capacity THEN [r EXCEPT !.items = Append(@, f)]
  ELSE [items |-> Append(Tail(r.items), f), dropped |-> r.dropped + 1]
(* A frame of a live stream; an incomplete buffer is ignored.              *)
FrameCallback ==
  /\ cam.alive # {} /\ shot.made < MaxFrames
  /\ shot' = [shot EXCEPT !.made = @ + 1] /\ ring' = Pushed(ring, shot.made + 1)
  /\ UNCHANGED <<cam, plc, opc>>
TryPop ==
  /\ ring.items # <<>> /\ ring' = [ring EXCEPT !.items = Tail(@)]
  /\ shot' = [shot EXCEPT !.taken = Append(@, Head(ring.items))] /\ UNCHANGED <<cam, plc, opc>>

(* OpcUaClient.  ReadValues skips what it cannot read; WriteValue sends    *)
(* nothing for a null; Subscribe drops its callback.                       *)
OnlyOpc == UNCHANGED <<cam, ring, shot>>
OnStart == /\ ~opc.connected /\ opc' \in {opc, [opc EXCEPT !.connected = TRUE]} /\ UNCHANGED plc /\ OnlyOpc
OnStop == /\ opc.connected /\ opc' = [opc EXCEPT !.connected = FALSE] /\ UNCHANGED plc /\ OnlyOpc
\* The places of ids that are read, in order.
Readable(ids, ok) ==
  LET found[i \in 0 .. Len(ids)] ==
        IF i = 0 THEN <<>> ELSE IF i \in ok THEN Append(found[i - 1], i) ELSE found[i - 1]
  IN  found[Len(ids)]
\* Variant of ReadValues: the values in a row, whatever was skipped.
ReadValuesInARow(ids) ==
  /\ opc.connected /\ UNCHANGED plc /\ OnlyOpc
  /\ \E ok \in SUBSET DOMAIN ids :
       LET kept == Readable(ids, ok)
       IN  opc' = [opc EXCEPT !.asked = ids, !.got = [i \in DOMAIN kept |-> <<ids[i], plc[ids[kept[i]]]>>]]
ReadValues(ids) ==
  /\ opc.connected /\ UNCHANGED plc /\ OnlyOpc
  /\ \E ok \in SUBSET DOMAIN ids :
       LET kept == Readable(ids, ok)
       IN  opc' = [opc EXCEPT !.asked = ids, !.got = [i \in DOMAIN kept |-> <<ids[kept[i]], plc[ids[kept[i]]]>>]]
WriteValue(v, x) ==
  /\ opc.connected /\ OnlyOpc /\ opc' = [opc EXCEPT !.asked = <<>>, !.got = <<>>]
  /\ plc' \in {plc, IF x = NoValue THEN plc ELSE [plc EXCEPT ![v] = x]}
ServerWrites(v, x) == plc' = [plc EXCEPT ![v] = x] /\ opc' = [opc EXCEPT !.asked = <<>>, !.got = <<>>] /\ OnlyOpc

CameraNext ==
  \/ Connect \/ Disconnect \/ StartAcquisition \/ CreateStream \/ Begin \/ StopAcquisition \/ Join
  \/ FrameCallback \/ TryPop
OpcNext ==
  \/ OnStart \/ OnStop
  \/ \E v \in Variables, x \in PlcValues : WriteValue(v, x) \/ ServerWrites(v, x)
  \/ \E ids \in {s \in SeqOf(Variables, 2) : Len(s) = 2} : ReadValues(ids)
DevNext == CameraNext \/ OpcNext
DevSpec == DevInit /\ [][DevNext]_devVars

(***************************************************************************)
(* Properties                                                              *)
(***************************************************************************)
(* The consumer of the ring (ring_buffer.h:19-60) sees frames in the order *)
(* they were shot, each once, and what it still can see are the newest;    *)
(* and FakeCamera, once stopped (fake_camera.cpp:86-96), shoots no more.   *)
FramesInOrder ==
  LET seen == shot.taken \o ring.items
  IN  /\ \A i, j \in DOMAIN seen : i < j => seen[i] < seen[j]
      /\ \A i \in DOMAIN ring.items : ring.items[i] = shot.made - Len(ring.items) + i
      /\ shot.made = Len(seen) + ring.dropped
      /\ Fake /\ Idle /\ ~cam.acquiring => cam.alive = {}

(* A batch read (opcua_client.cpp:187-211) pairs each variable with its own*)
(* value, in the order asked, whatever reads fail.                         *)
ReadsOwnValue ==
  /\ \A i \in DOMAIN opc.got : opc.got[i][2] = plc[opc.got[i][1]]
  /\ Len(opc.got) <= Len(opc.asked)

\* Documented (genicam_camera.cpp:102-109): a camera that is disconnected has no
\* stream.  A second start loses the first one's.
NoStreamLeft == cam.state = "Disconnected" /\ Idle => cam.alive = {}
=============================================================================
