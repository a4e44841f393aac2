--------------------------------- MODULE MCBoard ---------------------------------
(***************************************************************************)
(* The clocked parts of the board for TLC: the capture of pictures with    *)
(* the generator that encrypts them, the scan-out to the display, the      *)
(* generator's words themselves, and the divider of the SCCB clock.  Each  *)
(* is run by itself: part names the one.                                   *)
(***************************************************************************)
EXTENDS ImageInput, DisplayScan, Encryptor, ClockDivider

VARIABLE part

boardVars == <<vars, scanVars, generatorVars, dividerVars>>

(* Frames of two contents tell an old picture from a new one.              *)
MCFrames == {1, 2}

(* The pixels of the right plane of five lines.                            *)
MCEdges == 5 * 320

BoardInit ==
  /\ part \in {"image", "display", "generator", "divider"}
  /\ VideoInit /\ CaptureInit /\ VGA_Clk = FALSE /\ word = "zero" /\ edges = 0
  /\ ScanInit /\ GeneratorInit /\ DividerInit
  /\ part # "image"   => frame = 1
  /\ part # "divider" => ~Reset

Done == edge = Edges /\ UNCHANGED generatorVars

BoardNext ==
  \/ part = "image"     /\ Next            /\ UNCHANGED <<part, scanVars, generatorVars, dividerVars>>
  \/ part = "display"   /\ ScanNext        /\ UNCHANGED <<part, vars, generatorVars, dividerVars>>
  \/ part = "generator" /\ (Clock \/ Done) /\ UNCHANGED <<part, vars, scanVars, dividerVars>>
  \/ part = "divider"   /\ DividerNext     /\ UNCHANGED <<part, vars, scanVars, generatorVars>>

(* The board's clock runs, and the camera's timing does not stand still.   *)
BoardSpec ==
  /\ BoardInit /\ [][BoardNext]_<<part, boardVars>>
  /\ WF_vars(VgaEdge) /\ SF_vars(PclkEdge(VideoAdvance))
===============================================================================
