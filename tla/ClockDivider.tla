------------------------------ MODULE ClockDivider ------------------------------
(***************************************************************************)
(* test2.sv: the divider that makes the SCCB master's clock, and the Reset *)
(* button, which both holds the divider at zero and is the SCCB master's   *)
(* reset.  One step is one rising edge of Clk.  The two clocked blocks are *)
(* taken as synthesised: both read freq_counter as it was before the edge. *)
(***************************************************************************)
EXTENDS Integers

CONSTANT HalfPeriod     \* clocks of Clk in half a period of SCCB_clk (64)

ASSUME HalfPeriodAssumption == HalfPeriod \in Nat /\ HalfPeriod >= 2

VARIABLES Reset,         \* the button is down
          freq_counter, SCCB_clk,
          since,         \* clocks since SCCB_clk changed, counted up to HalfPeriod
          pressed        \* clocks the button has been down, counted up to 2

dividerVars == <<Reset, freq_counter, SCCB_clk, since, pressed>>

DividerInit == /\ Reset \in BOOLEAN
               /\ freq_counter = 0 /\ SCCB_clk = 0 /\ since = HalfPeriod
               /\ pressed = IF Reset THEN 1 ELSE 0

ResetToTop ==                                      \* mutant of Divide
  freq_counter' = IF Reset THEN HalfPeriod - 2
                  ELSE IF freq_counter < HalfPeriod - 1 THEN freq_counter + 1 ELSE 0
IgnoreReset ==                                     \* mutant of Divide
  freq_counter' = IF freq_counter < HalfPeriod - 1 THEN freq_counter + 1 ELSE 0
Divide ==
  freq_counter' = IF Reset THEN 0
                  ELSE IF freq_counter < HalfPeriod - 1 THEN freq_counter + 1 ELSE 0

Toggle == SCCB_clk' = IF freq_counter = HalfPeriod - 1 THEN 1 - SCCB_clk ELSE SCCB_clk

DividerNext ==
  /\ Divide /\ Toggle
  /\ since' = IF SCCB_clk' # SCCB_clk THEN 1 ELSE IF since < HalfPeriod THEN since + 1 ELSE since
  /\ Reset' \in BOOLEAN
  /\ pressed' = IF ~Reset' THEN 0 ELSE IF pressed < 2 THEN pressed + 1 ELSE pressed

DividerSpec == DividerInit /\ [][DividerNext]_dividerVars

-------------------------------------------------------------------------------
DividerTypeOK ==
  /\ Reset \in BOOLEAN /\ freq_counter \in 0..(HalfPeriod - 1) /\ SCCB_clk \in {0, 1}
  /\ since \in 0..HalfPeriod /\ pressed \in 0..2

(* test2.sv line 172: SCCB_clk never changes sooner than HalfPeriod clocks *)
(* after it changed last, however Reset is pressed: 64 clocks of a 50 MHz  *)
(* clock are 390 kHz, under the 400 kHz the camera allows.                 *)
SlowEnough == [][SCCB_clk' # SCCB_clk => since = HalfPeriod]_dividerVars

(* test2.sv 177-190: of a press of Reset, only the first two clocks can    *)
(* bring an edge to the SCCB master, which looks at Reset on that edge     *)
(* alone; from then on the clock stands, so a press that misses the edge   *)
(* is missed for as long as it lasts.                                      *)
ResetStopsClock == [][SCCB_clk' > SCCB_clk => pressed < 2]_dividerVars
===============================================================================
