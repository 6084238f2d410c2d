------------------------------ MODULE MCReports ------------------------------
(***************************************************************************)
(* Background exports, report schedules and their deliveries for TLC.      *)
(*                                                                         *)
(* They are explored one at a time, each in an area of its own; the export *)
(* jobs of ScheduledDeliveries are what ReportExports implements.          *)
(* ScheduledDeliveries has two areas: "polling" has every interleaving of  *)
(* polls, edits and clocks, "sending" one occurrence with one poller, and  *)
(* every interleaving of its export, its delivery loops and the edits.     *)
(***************************************************************************)
EXTENDS ReportExports, ScheduledDeliveries

CONSTANT FirstPoller   \* the poller of the sending area

VARIABLE area          \* the component that is explored

reportsVars == <<exportVars, reportVars, area>>

-----------------------------------------------------------------------------
SendingClock == 1

ReportsInit ==
    /\ ExportInit /\ ScheduleInit
    /\ \/ area = "exports" /\ schedule.period = 1
       \/ area \in {"polling", "sending"}

OnePoller == \A p \in Pollers \ {FirstPoller} : UNCHANGED poller[p]

ReportsNext ==
    /\ UNCHANGED area
    /\ \/ area = "exports" /\ ExportNext /\ UNCHANGED reportVars
       \/ area = "polling" /\ PollingNext /\ UNCHANGED exportVars
       \/ /\ area = "sending"
          /\ \/ PollingNext /\ OnePoller
             \/ SendingNext
          /\ clock' <= SendingClock
          /\ UNCHANGED exportVars

ReportsSpec == ReportsInit /\ [][ReportsNext]_reportsVars /\ ExportFairness /\ PollerFairness

ReportsTypeOK == ExportTypeOK /\ ScheduleTypeOK
=============================================================================
