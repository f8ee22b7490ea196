---------------------------- MODULE CronSchedule ----------------------------
(***************************************************************************)
(* When the log daemon of src/log_deamon.c runs the cron script.  Its loop *)
(* wakes every half an hour, reads the hour of the day, and runs the       *)
(* script when that has moved on by more than DEMON_RUN_INTER.  The hours  *)
(* are unsigned and start again at midnight; hourly counts what a watch    *)
(* shows.  After each sleep the loop flushes the error log (:49), which    *)
(* ErrLog and GvssSystem model with the waits in it; here it takes no time *)
(* and changes nothing, and where it waits for ever there is no next turn. *)
(***************************************************************************)
EXTENDS Naturals

VARIABLES hour,        \* tm_hour
          half,        \* the second half of the hour has begun
          old_hour,    \* hour of the last run of the script
          hourly,      \* hours that have passed since it, by the watch
          checked      \* this turn's check is over, the sleep comes next

cronVars == <<hour, half, old_hour, hourly, checked>>

DEMON_RUN_INTER == 3

(* The thread may start in any hour; it runs the script at once. *)
CronInit ==
    /\ hour \in 0 .. 23
    /\ half \in BOOLEAN
    /\ old_hour = hour
    /\ hourly = 0
    /\ checked = FALSE

(* Variant: signed hours. *)
HoursPassedSigned(new, old) == IF new < old THEN 0 ELSE new - old

(* new_hour - old_hour, unsigned.  The code has 32 bits and TLC's numbers  *)
(* have 31; hours differ by 23 at most, so 16 bits compare the same way.   *)
HoursPassed(new, old) == (new + 2 ^ 16 - old) % (2 ^ 16)

CheckHour ==
    /\ ~checked
    /\ IF HoursPassed(hour, old_hour) > DEMON_RUN_INTER
       THEN old_hour' = hour /\ hourly' = 0
       ELSE UNCHANGED <<old_hour, hourly>>
    /\ checked' = TRUE
    /\ UNCHANGED <<hour, half>>

(* sleep(ERRLOG_SYNC_TIME_S): half an hour. *)
SleepHalfHour ==
    /\ checked
    /\ half' = ~half
    /\ IF half
       THEN hour' = (hour + 1) % 24 /\ hourly' = hourly + 1
       ELSE UNCHANGED <<hour, hourly>>
    /\ checked' = FALSE
    /\ UNCHANGED old_hour

CronNext == CheckHour \/ SleepHalfHour

CronSpec == CronInit /\ [][CronNext]_cronVars
-----------------------------------------------------------------------------
(* The script runs again when four hours are over, also across midnight:   *)
(* the wrapped difference may bring a run forward, it never loses one.     *)
CronKeepsUp == checked => hourly <= DEMON_RUN_INTER
=============================================================================
