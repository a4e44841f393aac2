---------------------------------- MODULE MCHal ----------------------------------
(***************************************************************************)
(* The HAL for TLC: interrupts, alarms, the start of the program with the  *)
(* file layer, the time of day, the profiler, the caches, printf and the   *)
(* log.  They share no state that matters here, so each is run by itself:  *)
(* part names the one.  (The alarms and the time of day share the clock.)  *)
(***************************************************************************)
EXTENDS Interrupts, Alarms, MCStartup, TimeOfDay, Profile, Cache, Printf, LogReports

VARIABLE part

ownAlarmVars == <<listEntries, walk, left>>
ownDayVars   == <<alt_resettime, set, asked, slept>>
others == <<interruptVars, clock, ownAlarmVars, vars, ownDayVars, profileVars, cacheVars,
            printVars, reportVars>>

MCTimes   == [sec : {0, 1}, usec : {0, 3}]
MCStrings == {<<>>, <<"text">>, <<"text", "text">>}
MCBuffers == {<<"text">>, <<"ctrl-D", "text">>, <<"text", "ctrl-D", "ctrl-D", "text">>}

HalInit ==
  /\ part \in {"interrupts", "alarms", "files", "time", "profile", "cache", "print", "log"}
  /\ InterruptInit /\ AlarmInit /\ StartInit /\ DayInit /\ ProfileInit /\ CacheInit /\ PrintInit
  /\ IF part = "log" THEN ReportInit
     ELSE /\ flags = {} /\ echo = <<>> /\ reportAlarm = 0
          /\ alt_log_sys_clk_count = 0 /\ alt_system_clock_in_sec = 0

Keep(what) == UNCHANGED <<part, what>>

HalNext ==
  \/ /\ part = "interrupts" /\ InterruptNext
     /\ Keep(<<clock, ownAlarmVars, vars, ownDayVars, profileVars, cacheVars, printVars, reportVars>>)
  \/ /\ part = "alarms" /\ AlarmNext
     /\ Keep(<<interruptVars, vars, ownDayVars, profileVars, cacheVars, printVars, reportVars>>)
  \/ /\ part = "files" /\ Next
     /\ Keep(<<interruptVars, clock, ownAlarmVars, ownDayVars, profileVars, cacheVars, printVars, reportVars>>)
  \/ /\ part = "time" /\ DayNext
     /\ Keep(<<interruptVars, ownAlarmVars, vars, profileVars, cacheVars, printVars, reportVars>>)
  \/ /\ part = "profile" /\ ProfileNext
     /\ Keep(<<interruptVars, clock, ownAlarmVars, vars, ownDayVars, cacheVars, printVars, reportVars>>)
  \/ /\ part = "cache" /\ CacheNext
     /\ Keep(<<interruptVars, clock, ownAlarmVars, vars, ownDayVars, profileVars, printVars, reportVars>>)
  \/ /\ part = "print" /\ PrintNext
     /\ Keep(<<interruptVars, clock, ownAlarmVars, vars, ownDayVars, profileVars, cacheVars, reportVars>>)
  \/ /\ part = "log" /\ ReportNext
     /\ Keep(<<interruptVars, clock, ownAlarmVars, vars, ownDayVars, profileVars, cacheVars, printVars>>)

HalSpec ==
  /\ HalInit /\ [][HalNext]_<<part, others>>
  /\ WF_interruptVars(Change) /\ SF_interruptVars(Handle) /\ SF_interruptVars(TakeInterrupt)
  /\ WF_alarmVars(Ticking)
=================================================================================
