-------------------------------- MODULE CronPlan --------------------------------
(***************************************************************************)
(* When the schedule of a task fires.  A user gives a configuration (times *)
(* of the day on every day, on days of the week or of the month, or every  *)
(* n minutes or hours) or types a cron expression; the service turns it    *)
(* into one or several expressions, refuses those it finds to fire too     *)
(* often, and keeps the next time; the scheduler moves it on.              *)
(*                                                                         *)
(* Sources: cron_service.py, task_service.py (_prepare_schedule_fields,    *)
(* update_schedule) and scheduler_service.py (_advance).                   *)
(*                                                                         *)
(* The calendar is a parameter: 60 minutes, 24 hours, weeks of 7 days and  *)
(* months of 28 to 31 in the program, fewer of each in an instance.  Time  *)
(* is in minutes of the timezone of the plan, from a midnight of a Sunday  *)
(* on.  Expressions restrict the day of the month or of the week, not both *)
(* (croniter takes either, the fallback in this module both), and leave    *)
(* the month open, as those made from a configuration do.                  *)
(***************************************************************************)
EXTENDS Naturals, FiniteSets, Sequences

CONSTANTS
    Minutes, Hours, Week,  \* minutes of an hour, hours of a day, days of a week
    Calendar,              \* the days of the month of the dates of a year
    Configs,               \* the schedule configurations users may save
    MinIntervalNormal,     \* the least interval in minutes for a user (5)
    MinIntervalAdmin,      \* and for a super administrator (1)
    LastMinute             \* how far time runs

ASSUME CalendarAssumption ==
    /\ {Minutes, Hours, Week} \subseteq Nat \ {0}
    /\ Calendar \in Seq(1..31) /\ Len(Calendar) >= Week
    /\ MinIntervalNormal \in Nat /\ MinIntervalAdmin \in Nat /\ LastMinute \in Nat

VARIABLES
    minute,   \* utcnow
    plan,     \* crawler_task_schedule
    round     \* a round the scheduler works on: the configuration it read,
              \* and whether the plan was edited since

planVars == <<minute, plan, round>>

-----------------------------------------------------------------------------
(* The calendar *)

Date(t)      == t \div (Minutes * Hours)
MinuteOf(t)  == t % Minutes
HourOf(t)    == (t \div Minutes) % Hours
DayOf(t)     == Calendar[(Date(t) % Len(Calendar)) + 1]
WeekdayOf(t) == Date(t) % Week                       \* Sunday is 0
Year         == Len(Calendar) * Hours * Minutes

-----------------------------------------------------------------------------
(* Cron expressions: each field is a set of parts from-to/step *)

Field(parts) == UNION {{v \in p.from..p.to : (v - p.from) % p.step = 0} : p \in parts}

Listed(S)        == {[from |-> v, to |-> v, step |-> 1] : v \in S}
Stepped(last, n) == {[from |-> 0, to |-> last, step |-> n]}
AnyHour          == Stepped(Hours - 1, 1)
AnyWeekday       == Stepped(Week - 1, 1)
AnyDay           == {[from |-> 1, to |-> 31, step |-> 1]}

\* Sunday may be written as 0 or as 7.
Match(e, t) ==
    /\ MinuteOf(t) \in Field(e.minute) /\ HourOf(t) \in Field(e.hour)
    /\ DayOf(t) \in Field(e.day)
    /\ WeekdayOf(t) \in {v % Week : v \in Field(e.weekday)}

FirstOf(S, n) == {t \in S : Cardinality({u \in S : u < t}) < n}

\* _next_datetimes_for_single, as the fallback finds them within a year.
NextOfSingle(e, t, n) == FirstOf({u \in (t + 1)..(t + Year) : Match(e, u)}, n)

\* Enough of each expression are taken, so that equal times may be dropped.
CombinedNext(es, t, wanted) ==
    LET each == IF 3 * wanted > wanted + 3 THEN 3 * wanted ELSE wanted + 3
    IN  FirstOf(UNION {NextOfSingle(e, t, each) : e \in es}, wanted)

-----------------------------------------------------------------------------
(* From a configuration to expressions *)

Modes == {"daily_times", "weekly_times", "monthly_times", "EVERY_N_MINUTES", "EVERY_N_HOURS", ""}

\* What is stored with a mode; without one it is the expression a user typed.
ASSUME ConfigsAssumption ==
    \A c \in Configs :
        /\ c.mode \in Modes /\ c.n \in Nat /\ c.days \subseteq Nat
        /\ c.times \subseteq (0..(Hours - 1)) \X (0..(Minutes - 1))
        /\ c.mode = "" => c.typed.day = AnyDay \/ c.typed.weekday = AnyWeekday

\* Mutant: the hours are joined although the minutes differ.
TimesJoined(times, day, weekday) ==
    {[minute |-> Listed({x[2] : x \in times}), hour |-> Listed({x[1] : x \in times}),
      day |-> day, weekday |-> weekday]}

\* _cron_expressions_for_times: times <<hour, minute>> of one minute make one
\* expression with all the hours, others one expression each.
ExpressionsForTimes(times, day, weekday) ==
    IF Cardinality({x[2] : x \in times}) = 1
    THEN {[minute |-> Listed({x[2] : x \in times}), hour |-> Listed({x[1] : x \in times}),
           day |-> day, weekday |-> weekday]}
    ELSE {[minute |-> Listed({x[2]}), hour |-> Listed({x[1]}),
           day |-> day, weekday |-> weekday] : x \in times}

\* normalize_config; a configuration without a mode stands for the expression
\* a user typed, its fields those of c.typed.
Expressions(c) ==
    CASE c.mode = "daily_times"   -> ExpressionsForTimes(c.times, AnyDay, AnyWeekday)
      [] c.mode = "weekly_times"  -> ExpressionsForTimes(c.times, AnyDay, Listed({d % Week : d \in c.days}))
      [] c.mode = "monthly_times" -> ExpressionsForTimes(c.times, Listed(c.days), AnyWeekday)
      [] c.mode = "EVERY_N_MINUTES" ->
            {[minute |-> Stepped(Minutes - 1, c.n), hour |-> AnyHour, day |-> AnyDay, weekday |-> AnyWeekday]}
      [] c.mode = "EVERY_N_HOURS" ->
            {[minute |-> Listed({0}), hour |-> IF c.n = Hours THEN Listed({0}) ELSE Stepped(Hours - 1, c.n),
              day |-> AnyDay, weekday |-> AnyWeekday]}
      [] c.mode = "" -> {c.typed}

\* What normalize_config refuses: nothing chosen, or an interval out of range.
WellFormed(c) ==
    /\ c.mode \in {"daily_times", "weekly_times", "monthly_times"} => c.times # {}
    /\ c.mode \in {"weekly_times", "monthly_times"} => c.days # {}
    /\ c.mode = "EVERY_N_MINUTES" => c.n \in 1..(Minutes - 1)
    /\ c.mode = "EVERY_N_HOURS" => c.n \in 1..Hours

\* The next two times after every minute.
NextTwo == [c \in {d \in Configs : WellFormed(d)} |->
              [t \in 0..LastMinute |-> CombinedNext(Expressions(c), t, 2)]]

Earlier(S) == CHOOSE t \in S : \A u \in S : t <= u

\* next_time
NextTime(c) == Earlier(NextTwo[c][minute])

\* CronService.validate: only the next two times are compared.
Accepted(c, admin) ==
    /\ WellFormed(c)
    /\ LET next == NextTwo[c][minute]
       IN  /\ Cardinality(next) = 2
           /\ \A t, u \in next : t < u => u - t >= IF admin THEN MinIntervalAdmin ELSE MinIntervalNormal

-----------------------------------------------------------------------------
(* The plan *)

Never    == 0      \* next_run_at is NULL
NoConfig == [mode |-> "", times |-> {}, days |-> {}, n |-> 0,
             typed |-> [minute |-> {}, hour |-> {}, day |-> {}, weekday |-> {}]]
NoRound  == [busy |-> FALSE, config |-> NoConfig, overtaken |-> FALSE]

\* One type invariant for the clock, the plan and the scheduler.
PlanTypeOK ==
    /\ minute \in 0..LastMinute
    /\ plan.status \in {"ENABLED", "PAUSED", "ERROR"} /\ plan.type \in {"CRON", "MANUAL"}
    /\ plan.next \in 0..(LastMinute + Year)
    /\ {plan.config, round.config} \subseteq Configs \cup {NoConfig}
    /\ round.busy \in BOOLEAN /\ round.overtaken \in BOOLEAN

PlanInit ==
    /\ minute = 0
    /\ plan = [status |-> "PAUSED", type |-> "MANUAL", config |-> NoConfig, next |-> Never]
    /\ round = NoRound

\* An edit takes the row from under a round that has read it.
Edited == UNCHANGED minute /\ round' = [round EXCEPT !.overtaken = round.busy]

Planned(status, c) ==
    [status |-> status, type |-> "CRON", config |-> c,
     next |-> IF status = "ENABLED" THEN NextTime(c) ELSE Never]

\* update_schedule with a configuration, which may be the stored one: also
\* a plan that is switched off is validated for whoever switches it off.
SavePlan(c, status, admin) ==
    /\ Accepted(c, admin)
    /\ plan' = Planned(status, c)
    /\ Edited

\* update_schedule with an expression alone: a stored configuration that has
\* a mode is kept, and its expression made anew.
TypeExpression(c, admin) ==
    /\ c.mode = "" /\ plan.type = "CRON"
    /\ LET kept == IF plan.config.mode # "" THEN plan.config ELSE c
       IN  Accepted(kept, admin) /\ plan' = Planned(plan.status, kept)
    /\ Edited

MakeManual(status) ==
    /\ plan.type = "CRON"
    /\ plan' = [plan EXCEPT !.status = status, !.type = "MANUAL", !.next = Never]
    /\ Edited

\* The task is switched off (update_task), or the scheduler finds that it no
\* longer matches its definition.
StopPlan(status) ==
    /\ plan.status = "ENABLED" /\ status # "ENABLED"
    /\ plan' = [plan EXCEPT !.status = status, !.next = Never]
    /\ Edited

\* dispatch_due_schedules reads the row, starts or skips the round ...
RoundReads ==
    /\ ~round.busy
    /\ plan.status = "ENABLED" /\ plan.type = "CRON" /\ plan.next # Never /\ plan.next <= minute
    /\ round' = [busy |-> TRUE, config |-> plan.config, overtaken |-> FALSE]
    /\ UNCHANGED <<minute, plan>>

\* ... and moves the plan on (_advance).  The rounds a scheduler that was
\* down has missed are not made up for.
RoundCommits ==
    /\ round.busy
    /\ plan' = [plan EXCEPT !.next = NextTime(round.config)]
    /\ round' = NoRound
    /\ UNCHANGED minute

MinutePasses == minute < LastMinute /\ minute' = minute + 1 /\ UNCHANGED <<plan, round>>

PlanNext ==
    \/ \E c \in Configs, status \in {"ENABLED", "PAUSED"}, admin \in BOOLEAN : SavePlan(c, status, admin)
    \/ \E c \in Configs, admin \in BOOLEAN : TypeExpression(c, admin)
    \/ \E status \in {"ENABLED", "PAUSED"} : MakeManual(status)
    \/ \E status \in {"PAUSED", "ERROR"} : StopPlan(status)
    \/ RoundReads
    \/ RoundCommits
    \/ MinutePasses

PlanSpec == PlanInit /\ [][PlanNext]_planVars

-----------------------------------------------------------------------------
\* The times a user asked for, read off the configuration.
AskedFor(c, t) ==
    CASE c.mode = "daily_times"     -> <<HourOf(t), MinuteOf(t)>> \in c.times
      [] c.mode = "weekly_times"    -> /\ <<HourOf(t), MinuteOf(t)>> \in c.times
                                       /\ \E d \in c.days : WeekdayOf(t) = d % Week
      [] c.mode = "monthly_times"   -> /\ <<HourOf(t), MinuteOf(t)>> \in c.times
                                       /\ DayOf(t) \in c.days
      [] c.mode = "EVERY_N_MINUTES" -> MinuteOf(t) % c.n = 0
      [] c.mode = "EVERY_N_HOURS"   -> MinuteOf(t) = 0 /\ HourOf(t) % c.n = 0
      [] c.mode = ""                -> Match(c.typed, t)

\* Whatever is edited, typed or dispatched late, a plan that is on has a next
\* time, and it is the first one after now that its configuration asks for:
\* no time of the day is lost or invented by joining times into expressions,
\* on no day of the week or month (cron_service.py:_cron_expressions_for_times,
\* _combined_next_datetimes; update_schedule; _advance).  The exception is a
\* round that commits after an edit it did not see: it leaves the time the
\* former configuration asked for, on a plan that may be off by now.
PlanFiresAsConfigured ==
    [][ plan' # plan /\ ~(round.overtaken /\ ~round'.busy) =>
          /\ plan'.next # Never <=> plan'.status = "ENABLED" /\ plan'.type = "CRON"
          /\ plan'.next # Never =>
                /\ plan'.next > minute /\ AskedFor(plan'.config, plan'.next)
                /\ \A t \in (minute + 1)..(plan'.next - 1) : ~AskedFor(plan'.config, t)
      ]_planVars
=============================================================================
