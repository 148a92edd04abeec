----------------------------- MODULE Recurring -------------------------------
(***************************************************************************)
(* One recurring template and its instances: the runs of                     *)
(* recurring_materialize by the scheduler's thread, by the tool and by the   *)
(* command line, which is a process of its own with an index of its own.     *)
(* Each step is one look at an index or one write with its refresh; anything *)
(* may come between.  Periods are numbered (relative ones by their day), and  *)
(* Days and the periods that can come up in them are all there is.           *)
(***************************************************************************)
EXTENDS RecurringDates

CONSTANTS
  Templates,   \* what the template may say, an anchor or an interval, and the catch-up mode
  Days,        \* days on which something happens
  Scheduler,   \* the scheduler's thread
  Tools,       \* calls of the tool, in the same process
  Cli,         \* the command line tool
  MaxRuns,     \* bound on the runs that are not the scheduler's
  MaxEvents    \* bound on what goes wrong and what the user does

ASSUME DaysAssumption == Days \subseteq Nat \ {0, 1} /\ Days # {} /\ IsFiniteSet(Days)
ASSUME RunnersAssumption == Scheduler # Cli /\ {Scheduler, Cli} \cap Tools = {}
ASSUME BoundsAssumption == MaxRuns \in Nat /\ MaxEvents \in Nat

Runners == {Scheduler, Cli} \cup Tools
Indexes == {"server", "cli"}
IndexOf(r) == IF r = Cli THEN "cli" ELSE "server"

Relative(a) == a.form \in {"days", "months"}
TriggerOf(a, u) == IF Relative(a) THEN u ELSE Trigger(a, u)
First == Min(Days)
Last == Max(Days)
(* The days an interval starts on after at most k others: the days, and where one ended. *)
Starts(a) ==
  LET starts[k \in Nat] == IF k = 0 THEN Days
                           ELSE Days \cup ({AddTo(a, n) : n \in starts[k - 1]} \cap First..Last)
  IN  starts
(* The periods that can come up. *)
UnitsOf(a) ==
  IF Relative(a) THEN Starts(a)[Last - First]
  ELSE {u \in (Unit(a, Last) - MaxSteps + 1)..(Unit(a, Last) + 1) : Trigger(a, u) \in First..Last}

(* The templates are read with what they need. *)
ASSUME TemplatesAssumption ==
  \A t \in Templates :
    /\ t = [anchor |-> t.anchor, catchup |-> t.catchup, created |-> t.created]
    /\ t.created \in Nat /\ (t.created # NoDay => First <= t.created)

(* What the patterns of anchors and intervals and _validate_month_day let through. *)
ASSUME AnchorsAssumption ==
  \A t \in Templates : LET a == t.anchor IN
    /\ a.form \in {"days", "months", "month_end", "month_start", "quarter_end_plus", "fixed", "T_before"}
    /\ a.n \in Nat /\ (Relative(a) => a.n # 0)
    /\ a.form \in {"fixed", "T_before"} => a.month \in 1..12 /\ a.day \in 1..MonthLength(2000, a.month)

(* The days are in the calendar, and a walk from the last reaches the year before the first. *)
ASSUME ReachAssumption ==
  \A t \in Templates : LET a == t.anchor
                           back == First - 365 - IF a.form = "quarter_end_plus" THEN a.n ELSE 0
                       IN  ~Relative(a) => back > 0 /\ Unit(a, Last) - MaxSteps < Unit(a, back)

VARIABLES
  anchor, catchup, created,  \* what the template says, and the catch-up mode
  trigger, meant,            \* of that: the day of each period, and the days the anchor means
  lastRun,                   \* its last_run
  day,
  text,                      \* of each period's note: none, or who wrote it: a process or the user
  status,                    \* what its frontmatter says: nothing, open, or the day it was closed
  seen,                      \* what each index says it says
  pc, todo, done, errors,    \* a run, and its locals
  news,                      \* notes that others have changed since an index looked
  blind,                     \* the run has an index that was not started
  \* History.
  owed,                      \* periods a run is to account for
  excused,                   \* the note was not to be seen when the run looked for it
  had, failed,               \* periods that had a note, and those a run failed to write
  waived,                    \* those beyond the limit of a run, or that the user declared handled
  runs, events

template == <<anchor, catchup, created, trigger, meant>>
notes   == <<text, status>>
run     == <<pc, todo, done, errors>>
past    == <<news, owed, blind, excused, had, failed, waived>>
vars    == <<template, lastRun, day, notes, seen, run, past, runs, events>>

NotThere == 0
Open == 1
Units == DOMAIN trigger
Unseen == [u \in Units |-> NotThere]

Init ==
  /\ \E t \in Templates : anchor = t.anchor /\ catchup = t.catchup /\ created = t.created
  /\ trigger = [u \in UnitsOf(anchor) |-> TriggerOf(anchor, u)]
  /\ meant = IF Relative(anchor) THEN {} ELSE DaysDue(anchor, Last, First - 1)
  /\ lastRun = NoDay /\ day = First
  /\ text = [u \in Units |-> "none"] /\ status = Unseen /\ seen = [i \in Indexes |-> Unseen]
  /\ pc = [r \in Runners |-> "idle"]
  /\ todo = [r \in Runners |-> {}] /\ done = [r \in Runners |-> {}]
  /\ errors = [r \in Runners |-> {}]
  /\ news = [i \in Indexes |-> {}] /\ owed = [r \in Runners |-> {}] /\ blind = [r \in Runners |-> FALSE]
  /\ excused = [r \in Runners |-> FALSE]
  /\ had = {} /\ failed = {} /\ waived = {} /\ runs = 0 /\ events = 0

------------------------------------------------------------------------------
(* A run. *)

Event == events < MaxEvents /\ events' = events + 1


(* last_run, or the day before the template was created. *)
Baseline == IF lastRun # NoDay THEN lastRun ELSE IF created # NoDay THEN created - 1 ELSE NoDay

(* _last_done_for. *)
DoneDays(index) == {index[u] : u \in Units} \cap Days

(* An interval that has not ended is due. *)
DuePeriodsAnyway(n, index) ==
  IF Relative(anchor)
  THEN LET from == IF DoneDays(index) # {} THEN Max(DoneDays(index)) ELSE lastRun
       IN  {IF from = NoDay THEN n ELSE AddTo(anchor, from)}
  ELSE IF Baseline # NoDay THEN Periods(anchor, n, Baseline, catchup) ELSE {}

(* The periods of a run: none without a baseline, and today for an interval. *)
DuePeriods(n, index) ==
  IF Relative(anchor)
  THEN LET from == IF DoneDays(index) # {} THEN Max(DoneDays(index)) ELSE lastRun
           next == IF from = NoDay THEN n ELSE AddTo(anchor, from)
       IN  {next} \cap 0..n
  ELSE IF Baseline # NoDay THEN Periods(anchor, n, Baseline, catchup) ELSE {}

(* The periods up to day n, and those of them that the safety limit keeps from a run. *)
Upto(n) == {u \in Units : trigger[u] <= n}
BeyondLimit(n) == {u \in Upto(n) : Cardinality({v \in Upto(n) : v > u}) >= SafetyLimit}

(* History: the periods whose day, since the baseline, the anchor falls on, as of day n, or
   in the mode "next" the last of them.  Left out is what the walk does not see: a day
   before the year of its anchor.                                                          *)
Owed(n) ==
  LET days == {d \in meant : Baseline < d /\ d <= n /\ ~NotYetWalkedTo(anchor, d, n)}
      asked == IF catchup = "next" THEN {d \in days : \A later \in days : later <= d} ELSE days
  IN  IF Relative(anchor) \/ Baseline = NoDay THEN {}
      ELSE {u \in Units : trigger[u] \in asked /\ OnCadence(anchor, u)}

(* What the index of r says at the start: the command line's has just been filled. *)
IndexAtStart(r, dark) == IF r # Cli THEN seen["server"] ELSE IF dark THEN Unseen ELSE status

(* The template is read, and its periods are found.  The scheduler goes by the clock. *)
Start(r, n, dark) ==
  /\ pc[r] = "idle" /\ n \in Days /\ (r = Scheduler => n = day) /\ (dark => r = Cli)
  /\ IF r = Scheduler THEN UNCHANGED runs ELSE runs < MaxRuns /\ runs' = runs + 1
  /\ pc' = [pc EXCEPT ![r] = "look"] /\ owed' = [owed EXCEPT ![r] = Owed(n)]
  /\ todo' = [todo EXCEPT ![r] = DuePeriods(n, IndexAtStart(r, dark))]
  /\ seen' = [seen EXCEPT ![IndexOf(r)] = IndexAtStart(r, dark)]
  /\ blind' = [blind EXCEPT ![r] = dark]
  /\ waived' = IF Relative(anchor) THEN waived ELSE waived \cup BeyondLimit(n)
  /\ UNCHANGED <<template, lastRun, day, notes, done, errors, news, excused, had, failed, events>>

Current(r) == Min(todo[r])

(* One instance ends the run. *)
SkipRest(r) ==
  /\ pc[r] = "look" /\ todo[r] # {} /\ seen[IndexOf(r)][Current(r)] # NotThere
  /\ todo' = [todo EXCEPT ![r] = {}]
  /\ UNCHANGED <<template, lastRun, day, notes, seen, pc, done, errors, past, runs, events>>

(* _existing_instance_for: the index has an instance of the period. *)
Skip(r) ==
  /\ pc[r] = "look" /\ todo[r] # {} /\ seen[IndexOf(r)][Current(r)] # NotThere
  /\ todo' = [todo EXCEPT ![r] = @ \ {Current(r)}]
  /\ UNCHANGED <<template, lastRun, day, notes, seen, pc, done, errors, past, runs, events>>

(* History: nothing of the note of its period is to be seen.  There is none, or it says
   nothing, or the index was not started or has yet to hear of what others have done to it;
   a note that a run of its own process wrote without an error is to be seen at once.      *)
Unseeable(r) ==
  LET u == Current(r)  i == IndexOf(r)
  IN  blind[r] \/ status[u] = NotThere \/ (u \in news[i] /\ (text[u] # i \/ u \in failed))

(* It has none. *)
Miss(r) ==
  /\ pc[r] = "look" /\ todo[r] # {} /\ seen[IndexOf(r)][Current(r)] = NotThere
  /\ pc' = [pc EXCEPT ![r] = "write"]
  /\ excused' = [excused EXCEPT ![r] = Unseeable(r)]
  /\ UNCHANGED <<template, lastRun, day, notes, seen, owed, todo, done, errors,
                 news, blind, had, failed, waived, runs, events>>

(* The indexes that run have yet to hear of a change to the notes of us. *)
Told(us) == [i \in Indexes |-> IF i = "cli" /\ pc[Cli] = "idle" THEN {} ELSE news[i] \cup us]

(* The note of u is now that of a process, and says that it is open. *)
PlaceNote(u, i) == text' = [text EXCEPT ![u] = i] /\ status' = [status EXCEPT ![u] = Open]

(* An instance is written, and the index hears of it from the watcher alone. *)
WriteWithoutRefresh(r) ==
  LET u == Current(r)
  IN  /\ pc[r] = "write" /\ pc' = [pc EXCEPT ![r] = "look"]
      /\ PlaceNote(u, IndexOf(r))
      /\ news' = Told({u})
      /\ had' = had \cup {u}
      /\ todo' = [todo EXCEPT ![r] = @ \ {u}] /\ done' = [done EXCEPT ![r] = @ \cup {u}]
      /\ UNCHANGED <<template, lastRun, day, seen, owed, errors, blind, excused, failed, waived, runs, events>>

(* The instance is written, over whatever has its name, and the index is refreshed. *)
Write(r) ==
  LET u == Current(r)  i == IndexOf(r)
  IN  /\ pc[r] = "write" /\ pc' = [pc EXCEPT ![r] = "look"]
      /\ PlaceNote(u, i)
      /\ seen' = [seen EXCEPT ![i] = [@ EXCEPT ![u] = Open]]
      /\ news' = [Told({u}) EXCEPT ![i] = @ \ {u}]
      /\ had' = had \cup {u}
      /\ todo' = [todo EXCEPT ![r] = @ \ {u}] /\ done' = [done EXCEPT ![r] = @ \cup {u}]
      /\ UNCHANGED <<template, lastRun, day, owed, errors, blind, excused, failed, waived, runs, events>>

(* It cannot be made or written, or reads back differently: an error, and on to the next. *)
WriteFails(r, placed) ==
  LET u == Current(r)
  IN  /\ pc[r] = "write" /\ pc' = [pc EXCEPT ![r] = "look"]
      /\ Event
      /\ IF placed THEN PlaceNote(u, IndexOf(r)) ELSE UNCHANGED notes
      /\ news' = IF placed THEN Told({u}) ELSE news
      /\ had' = IF placed THEN had \cup {u} ELSE had
      /\ failed' = failed \cup {u} /\ errors' = [errors EXCEPT ![r] = @ \cup {u}]
      /\ todo' = [todo EXCEPT ![r] = @ \ {u}]
      /\ UNCHANGED <<template, lastRun, day, seen, owed, done, blind, excused, waived, runs>>

(* last_run becomes the day on the calendar. *)
StampToday(r) ==
  /\ pc[r] = "look" /\ todo[r] = {} /\ done[r] # {}
  /\ lastRun' = day
  /\ pc' = [pc EXCEPT ![r] = "report"]
  /\ UNCHANGED <<template, day, notes, seen, todo, done, errors, past, runs, events>>

(* _update_template_last_run, with the last period that was created. *)
Stamp(r) ==
  /\ pc[r] = "look" /\ todo[r] = {} /\ done[r] # {}
  /\ lastRun' = trigger[Max(done[r])]
  /\ pc' = [pc EXCEPT ![r] = "report"]
  /\ UNCHANGED <<template, day, notes, seen, todo, done, errors, past, runs, events>>

StampFails(r, placed) ==
  /\ pc[r] = "look" /\ todo[r] = {} /\ done[r] # {}
  /\ Event
  /\ lastRun' = IF placed THEN trigger[Max(done[r])] ELSE lastRun
  /\ errors' = [errors EXCEPT ![r] = @ \cup done[r]]
  /\ pc' = [pc EXCEPT ![r] = "report"]
  /\ UNCHANGED <<template, day, notes, seen, todo, done, past, runs>>

(* The runs of rs are over; the command line's index goes with it. *)
Over(rs) ==
  /\ pc' = [r \in Runners |-> IF r \in rs THEN "idle" ELSE pc[r]]
  /\ owed' = [r \in Runners |-> IF r \in rs THEN {} ELSE owed[r]]
  /\ todo' = [r \in Runners |-> IF r \in rs THEN {} ELSE todo[r]]
  /\ done' = [r \in Runners |-> IF r \in rs THEN {} ELSE done[r]]
  /\ errors' = [r \in Runners |-> IF r \in rs THEN {} ELSE errors[r]]
  /\ blind' = [r \in Runners |-> IF r \in rs THEN FALSE ELSE blind[r]]
  /\ excused' = [r \in Runners |-> IF r \in rs THEN FALSE ELSE excused[r]]

(* The result is returned. *)
Report(r) ==
  /\ pc[r] = "report" \/ (pc[r] = "look" /\ todo[r] = {} /\ done[r] = {})
  /\ Over({r})
  /\ IF r = Cli THEN seen' = [seen EXCEPT !["cli"] = Unseen] /\ news' = [news EXCEPT !["cli"] = {}]
     ELSE UNCHANGED <<seen, news>>
  /\ UNCHANGED <<template, lastRun, day, notes, had, failed, waived, runs, events>>

(* An exception nothing in the run catches, or the command line is killed. *)
Abort(r) ==
  /\ pc[r] # "idle" /\ Event
  /\ Over({r})
  /\ IF r = Cli THEN seen' = [seen EXCEPT !["cli"] = Unseen] /\ news' = [news EXCEPT !["cli"] = {}]
     ELSE UNCHANGED <<seen, news>>
  /\ UNCHANGED <<template, lastRun, day, notes, had, failed, waived, runs>>

(* The server dies and comes back: its index is filled again. *)
Restart ==
  /\ Event
  /\ Over({Scheduler} \cup Tools)
  /\ seen' = [seen EXCEPT !["server"] = status] /\ news' = [news EXCEPT !["server"] = {}]
  /\ UNCHANGED <<template, lastRun, day, notes, had, failed, waived, runs>>

(* An index hears of a change: see FrontmatterIndex. *)
Notice(i, u) ==
  /\ u \in news[i] /\ (i = "cli" => ~blind[Cli])
  /\ seen' = [seen EXCEPT ![i] = [@ EXCEPT ![u] = status[u]]]
  /\ news' = [news EXCEPT ![i] = @ \ {u}]
  /\ UNCHANGED <<template, lastRun, day, notes, run, owed, blind, excused, had, failed, waived, runs, events>>

------------------------------------------------------------------------------
(* The user, and time. *)

(* A note of the period's name: its frontmatter says nothing, or what it should. *)
UserWrites(u, s) ==
  /\ s = day => Relative(anchor)
  /\ Event
  /\ text' = [text EXCEPT ![u] = "user"] /\ status' = [status EXCEPT ![u] = s]
  /\ news' = Told({u}) /\ had' = had \cup {u}
  /\ UNCHANGED <<template, lastRun, day, seen, run, owed, blind, excused, failed, waived, runs>>

UserRemoves(u) ==
  /\ Event /\ text[u] # "none"
  /\ text' = [text EXCEPT ![u] = "none"] /\ status' = [status EXCEPT ![u] = NotThere]
  /\ news' = Told({u})
  /\ UNCHANGED <<template, lastRun, day, seen, run, owed, blind, excused, had, failed, waived, runs>>

(* last_run is seeded with a day, or wiped. *)
UserStamps(n) ==
  /\ Event /\ n # lastRun
  /\ lastRun' = n /\ waived' = waived \cup Upto(n)
  /\ UNCHANGED <<template, day, notes, seen, run, news, owed, blind, excused, had, failed, runs>>

NextDay ==
  /\ \E n \in Days : n > day /\ day' = n
  /\ UNCHANGED <<template, lastRun, notes, seen, run, past, runs, events>>

Next ==
  \/ \E r \in Runners, n \in Days, dark \in BOOLEAN : Start(r, n, dark)
  \/ \E r \in Runners : Skip(r)
  \/ \E r \in Runners : Miss(r)
  \/ \E r \in Runners : Write(r)
  \/ \E r \in Runners, placed \in BOOLEAN : WriteFails(r, placed)
  \/ \E r \in Runners : Stamp(r)
  \/ \E r \in Runners, placed \in BOOLEAN : StampFails(r, placed)
  \/ \E r \in Runners : Report(r)
  \/ \E r \in Runners : Abort(r)
  \/ Restart
  \/ \E i \in Indexes, u \in Units : Notice(i, u)
  \/ \E u \in Units, s \in {NotThere, Open, day} : UserWrites(u, s)
  \/ \E u \in Units : UserRemoves(u)
  \/ \E n \in Days \cup {NoDay} : UserStamps(n)
  \/ NextDay

Spec == Init /\ [][Next]_vars

------------------------------------------------------------------------------
(* Properties. *)

TypeOK ==
  /\ [anchor |-> anchor, catchup |-> catchup, created |-> created] \in Templates
  /\ lastRun \in Days \cup {NoDay} \cup {trigger[u] : u \in Units}
  /\ day \in Days
  /\ text \in [Units -> {"none", "user"} \cup Indexes]
  /\ status \in [Units -> Days \cup {NotThere, Open}]
  /\ seen \in [Indexes -> [Units -> Days \cup {NotThere, Open}]]
  /\ pc \in [Runners -> {"idle", "look", "write", "report"}]
  /\ owed \in [Runners -> SUBSET Units]
  /\ todo \in [Runners -> SUBSET Units] /\ done \in [Runners -> SUBSET Units]
  /\ errors \in [Runners -> SUBSET Units]
  /\ news \in [Indexes -> SUBSET Units] /\ blind \in [Runners -> BOOLEAN]
  /\ excused \in [Runners -> BOOLEAN]
  /\ had \subseteq Units /\ failed \subseteq Units /\ waived \subseteq Units
  /\ runs \in 0..MaxRuns /\ events \in 0..MaxEvents

Accounted == had \cup failed \cup waived

(* last_run stands for all that came before it: a period in the life of the template up to
   it, in a year of its cadence, had a note at some time, or a run said that it failed to
   write it, or was not asked to (the safety limit, or the user who seeded last_run).  In
   the mode "next" a later one in its place will do.  Runs may overlap, start from a stale
   last_run, fail at any step and be cut short (_process_template 1037 to 1043).          *)
NoSilentSkip ==
  ~Relative(anchor) => \A u \in Units :
    /\ created # NoDay /\ trigger[u] \in created..lastRun /\ OnCadence(anchor, u)
    => u \in Accounted \/ (catchup = "next" /\ \E v \in Accounted : v > u)

(* A run that reports no error leaves nothing undone: each day since the baseline it found
   on which its anchor falls has its period accounted for, or in the mode "next" the last
   of them has.  Left out is what the walk does not see: a day before the year of its anchor.
   It holds of a template without last_run too, whose baseline is the day before it was
   created (recurring.py:882-893, docs/recurring.md:118-133): by docs/recurring.md:230-232
   such a template would get one period "regardless of mode".                             *)
CleanRunIsComplete ==
  [][\A r \in Runners :
       Report(r) /\ errors[r] = {} => owed[r] \subseteq Accounted]_vars

(* An instance that exists is written over only when nothing of it was to be seen when the
   run looked: there was none, its frontmatter did not say whose it was, or the index was
   not started or had not heard of it yet, and then it was not one that a run of the same
   process had written without an error (_existing_instance_for, _refresh_index and the
   unconditional write of recurring.py:1027).  That each of these is written over, and no
   file is looked for first, is more than the help of --no-index admits, by which the check
   "degrade[s] to file-existence checks" (recurring.py:1377-1380).                        *)
WritesOnce ==
  [][\A r \in Runners : Write(r) /\ text[Current(r)] # "none" => excused[r]]_vars

(* On each day the walk down from it yields the periods of the days that are meant, and none
   of others, without a gap but for what is beyond the safety limit; later periods have
   later days.  It is what the proofs take from the calendar.                             *)
WalkFits(a) ==
  /\ \A u \in UnitsOf(a) : \A v \in UnitsOf(a) : u < v => Trigger(a, u) < Trigger(a, v)
  /\ \A n \in Days :
       LET yielded == Yielded(a, n)
           asked == {d \in DaysDue(a, Last, First - 1) : d <= n /\ ~NotYetWalkedTo(a, d, n)}
       IN  /\ \A u \in yielded : First <= Trigger(a, u) => Trigger(a, u) \in asked
           /\ \A u \in UnitsOf(a) :
                /\ \A v \in yielded : u < v => First <= Trigger(a, v)
                /\ Trigger(a, u) \in asked \/ (\E v \in yielded : u < v)
                   => u \in yielded \/ Cardinality({v \in yielded : v > u}) >= SafetyLimit

(* What the walks of the code yield, on each day, are the days of the year before it
   that the anchor means, and intervals end where they should: month ends, leap days, and
   triggers across a New Year (_iter_triggers_descending, compute_pending_periods and
   Interval.add_to).  This depends on the template alone, so it is asked before any run.   *)
CalendarIsRight ==
  day = First /\ runs = 0 /\ events = 0 /\ had = {} /\ (\A r \in Runners : pc[r] = "idle")
  => /\ ~Relative(anchor) => WalkFits(anchor)
     /\ \A n \in First..Last :
          IF Relative(anchor) THEN IntervalIsRight(anchor, n) ELSE PeriodsAreRight(anchor, n, First - 365)
==============================================================================
