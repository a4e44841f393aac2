------------------------------- MODULE LogReports -------------------------------
(***************************************************************************)
(* The reports of alt_log_printf.c, and the flags of alt_log_printf.h that *)
(* turn them on.  A flag gets its value from ALT_LOG_FLAGS; the program    *)
(* may change it while it runs.                                            *)
(***************************************************************************)
EXTENDS Integers, Sequences

CONSTANTS EchoLen,       \* ALT_LOG_WRITE_ECHO_LEN
          Buffers,       \* what the program writes
          Interval,      \* ALT_LOG_SYS_CLK_INTERVAL, ticks
          AlarmTicks,    \* ALT_LOG_JTAG_UART_TICKS
          MaxSec         \* bound on the reports of the clock

ASSUME ReportAssumption == /\ {EchoLen, Interval, AlarmTicks, MaxSec} \subseteq Nat
                           /\ EchoLen >= 2
                           /\ \A s \in Buffers : s \in Seq({s[i] : i \in DOMAIN s})

VARIABLES flags, echo,
          alt_log_sys_clk_count, alt_system_clock_in_sec,
          reportAlarm            \* ticks until the JTAG UART is reported, 0 without an alarm

reportVars == <<flags, echo, alt_log_sys_clk_count, alt_system_clock_in_sec, reportAlarm>>
clockCount == <<alt_log_sys_clk_count, alt_system_clock_in_sec>>

Reports == {"boot", "clock", "startup", "write", "alarm", "isr"}
FlagsOf(level) ==
  (IF level = -1 THEN {} ELSE {"boot"}) \cup (IF level >= 1 THEN {"clock", "startup"} ELSE {})
  \cup (IF level >= 2 THEN {"write", "alarm"} ELSE {}) \cup (IF level >= 3 THEN {"isr"} ELSE {})

(* The driver's start: ALT_LOG_JTAG_UART_ALARM_REGISTER.                   *)
ReportInit ==
  /\ \E level \in {-1, 0, 1, 2, 3} : flags = FlagsOf(level)
  /\ echo = <<>> /\ alt_log_sys_clk_count = 0 /\ alt_system_clock_in_sec = 0
  /\ reportAlarm = IF "alarm" \in flags THEN AlarmTicks ELSE 0

SetFlag == /\ \E f \in Reports : flags' \in {flags \cup {f}, flags \ {f}}
           /\ UNCHANGED <<echo, clockCount, reportAlarm>>

(* alt_log_write: the last character becomes the end of the line.          *)
NoCtrlD(s) == [i \in 1..Len(s) |-> IF s[i] = "ctrl-D" THEN "D" ELSE s[i]]

WholeBuffer(s) == Len(s)                           \* mutant of EchoedLength
EchoedLength(s) == IF EchoLen > Len(s) THEN Len(s) ELSE EchoLen

alt_log_write(s) ==
  LET length == EchoedLength(s) IN
  /\ "write" \in flags /\ length >= 2
  /\ echo' = Append(NoCtrlD([SubSeq(s, 1, length) EXCEPT ![length] = "nl"]), "cr")
  /\ UNCHANGED <<flags, clockCount, reportAlarm>>

(* At every tick: alt_log_system_clock, and the alarm of the JTAG UART,    *)
(* which ends for good when its flag is found off.                         *)
alt_log_system_clock ==
  IF "clock" \notin flags THEN UNCHANGED clockCount
  ELSE IF alt_log_sys_clk_count + 1 > Interval
  THEN alt_log_sys_clk_count' = 0 /\ alt_system_clock_in_sec' = alt_system_clock_in_sec + 1
  ELSE alt_log_sys_clk_count' = alt_log_sys_clk_count + 1 /\ UNCHANGED alt_system_clock_in_sec

altera_avalon_jtag_uart_report_log ==
  reportAlarm' = IF reportAlarm # 1 THEN reportAlarm - (IF reportAlarm = 0 THEN 0 ELSE 1)
                 ELSE IF "alarm" \in flags THEN AlarmTicks ELSE 0

ReportTick ==
  /\ alt_system_clock_in_sec < MaxSec
  /\ alt_log_system_clock /\ altera_avalon_jtag_uart_report_log
  /\ UNCHANGED <<flags, echo>>

ReportNext == SetFlag \/ ReportTick \/ \E s \in Buffers : alt_log_write(s)
ReportSpec == ReportInit /\ [][ReportNext]_reportVars

-------------------------------------------------------------------------------
(* alt_log_printf.c 440-462: with the zero at its end, what is echoed fits *)
(* alt_log_write_buf, and a terminal that reads it is not closed.          *)
EchoIsSafe == /\ echo # <<>> => Len(echo) + 1 <= EchoLen + 2
              /\ \A i \in 1..Len(echo) : echo[i] # "ctrl-D"
===============================================================================
