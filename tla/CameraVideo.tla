------------------------------ MODULE CameraVideo ------------------------------
(***************************************************************************)
(* The OV7670's picture output, as Image_mod.sv uses it: external to the   *)
(* repository's code.  A frame is a vsync pulse, then Lines lines of two   *)
(* bytes a pixel with href high, with pauses of any length around them.    *)
(* The camera may start over in the middle of a frame: the SCCB master     *)
(* writes its reset register whenever SCCB_Run is pressed.  A byte of the  *)
(* picture is known by its frame, line and place.                          *)
(***************************************************************************)
EXTENDS Integers

CONSTANTS Width,     \* pixels in a line, horizontal_size + 1 (640)
          Lines,     \* lines the camera sends (480)
          Frames     \* contents a frame may have

ASSUME VideoAssumption ==
  /\ Width \in Nat /\ Width >= 1 /\ Lines \in Nat /\ Lines >= 1
  /\ Frames # {}

VARIABLES phase, frame, line, at     \* at counts the bytes of a line

cvars == <<phase, frame, line, at>>

Cam_vsync == phase = "vsync"
Cam_href  == phase = "line"
Cam_data  == <<frame, line, at>>

VideoInit == phase = "off" /\ frame \in Frames /\ line = 0 /\ at = 0

StartSync == /\ phase = "off" \/ (phase = "gap" /\ line = Lines)
             /\ phase' = "vsync" /\ frame' \in Frames /\ line' = 0 /\ at' = 0
EndSync   == /\ phase = "vsync" /\ phase' = "gap"
             /\ UNCHANGED <<frame, line, at>>
StartLine == /\ phase = "gap" /\ line < Lines /\ phase' = "line"
             /\ UNCHANGED <<frame, line, at>>
NextByte  == /\ phase = "line" /\ at < 2 * Width - 1 /\ at' = at + 1
             /\ UNCHANGED <<phase, frame, line>>
EndLine   == /\ phase = "line" /\ at = 2 * Width - 1
             /\ phase' = "gap" /\ line' = line + 1 /\ at' = 0
             /\ UNCHANGED frame
Cut       == /\ phase # "off" /\ phase' = "off" /\ line' = 0 /\ at' = 0
             /\ UNCHANGED frame

VideoAdvance == StartSync \/ EndSync \/ StartLine \/ NextByte \/ EndLine
VideoStay    == Cut \/ (phase # "line" /\ UNCHANGED cvars)

VideoTypeOK ==
  /\ phase \in {"off", "vsync", "gap", "line"} /\ frame \in Frames
  /\ line \in 0..Lines /\ at \in 0..(2 * Width - 1)
  /\ phase = "line" => line < Lines
===============================================================================
