----------------------------- MODULE ConfigForms -----------------------------
(***************************************************************************)
(* What a text of CRAWLER_CONFIG.yml means.  Two programs read it: the     *)
(* scheduler (crawler_scheduler.py) loads its jobs, the crawler admin      *)
(* (crawler_admin/config_service.py) validates it, shows the jobs, and     *)
(* writes the one that a dialog edits (crawler_admin/app.py).  Both merge  *)
(* defaults, crawler section and job section, each with its own code.      *)
(*                                                                         *)
(* One crawler, whose module is there.  Of its keys the text has enable,   *)
(* schedule, jobs, target_data_items and one more that is a mapping; who   *)
(* else writes the file, and when, is in ConfigStore.                      *)
(***************************************************************************)
EXTENDS Integers, FiniteSets

CONSTANTS Configs,   \* texts
          Schedules, \* the schedules that a user sets in the dialog
          TableOf    \* DATA_ITEM_TABLE_MAP of the crawler

VARIABLE text

(* A value that should be a mapping and is not is [scalar |-> ...].        *)
IsMapping(m) == "scalar" \notin DOMAIN m
Without(m, key) == [k \in DOMAIN m \ {key} |-> m[k]]
Has(m, key) == key \in DOMAIN m

(* A copy of one mapping that is updated with another.                     *)
Over(new, old) ==
  [k \in DOMAIN old \cup DOMAIN new |-> IF Has(new, k) THEN new[k] ELSE old[k]]

(* A schedule: its kind, a number or a string that is no CRON expression   *)
(* among them; the minute, padded with a zero or not; the hours, which are *)
(* every one, every nth one or one; and the weekdays as they are written,  *)
(* where 0 and 7 are Sunday and none is a star.  "other" is an expression  *)
(* of another form, as with a day of the month.                            *)
Cron(kind, minute, hours, n, days, padded) ==
  [kind |-> kind, minute |-> minute, hours |-> hours, n |-> n, days |-> days, padded |-> padded]

IsString(c) == c.kind # "number"
Parses(c)   == c.kind \in {"guided", "other"}

(* When it is due.                                                         *)
Normalize(days) == {IF d = 7 THEN 0 ELSE d : d \in days}

Due(c) ==
  IF c.kind # "guided" THEN [expression |-> c]
  ELSE [minute |-> c.minute,
        hours |-> CASE c.hours = "every" -> 0 .. 23
                    [] c.hours = "step"  -> {h \in 0 .. 23 : h % c.n = 0}
                    [] c.hours = "at"    -> {c.n},
        days |-> IF c.days = {} THEN 0 .. 6 ELSE Normalize(c.days)]

-----------------------------------------------------------------------------
(* The scheduler.                                                          *)
GetCrawlerConfigWithDefaults(default, crawler) ==
  [k \in DOMAIN default \cup DOMAIN crawler |->
     IF ~Has(crawler, k) THEN default[k]
     ELSE IF k \in {"jobs", "more"} /\ Has(default, k)
             /\ IsMapping(crawler[k]) /\ IsMapping(default[k])
     THEN Over(crawler[k], default[k])
     ELSE crawler[k]]

DefaultConfig == IF Has(text, "default") /\ IsMapping(text.default) THEN text.default ELSE <<>>

(* load_config: the jobs of the crawler section replace those of the       *)
(* default section, and are not merged with them.                          *)
LoadConfig ==
  LET section == text.crawler
      merged  == GetCrawlerConfigWithDefaults(DefaultConfig, Without(section, "jobs"))
  IN IF Has(section, "jobs") THEN Over([jobs |-> section.jobs], merged) ELSE merged

(* Mutant: a job does not inherit from its crawler.                        *)
ExpandAlone(config) ==
  IF Has(config, "jobs") /\ IsMapping(config.jobs) /\ DOMAIN config.jobs # {}
  THEN {<<j, config.jobs[j]>> : j \in {j \in DOMAIN config.jobs : IsMapping(config.jobs[j])}}
  ELSE {<<"default", Without(config, "jobs")>>}

(* expand_crawler_job_configs.                                             *)
ExpandCrawlerJobConfigs(config) ==
  IF Has(config, "jobs") /\ IsMapping(config.jobs) /\ DOMAIN config.jobs # {}
  THEN {<<j, GetCrawlerConfigWithDefaults(Without(config, "jobs"), config.jobs[j])>> :
          j \in {j \in DOMAIN config.jobs : IsMapping(config.jobs[j])}}
  ELSE {<<"default", Without(config, "jobs")>>}

(* get_scheduled_jobs: those with a schedule, and with enable true.        *)
ScheduledJobs ==
  IF ~Has(text, "crawler") \/ ~IsMapping(text.crawler) THEN {}
  ELSE {j \in ExpandCrawlerJobConfigs(LoadConfig) :
          /\ Has(j[2], "schedule") /\ Parses(j[2].schedule)
          /\ Has(j[2], "enable") /\ j[2].enable = "true"}

(* Mutant: only a list that names every item in it locks its tables.       *)
LockKeysOfListed(config) ==
  IF Has(config, "items") /\ config.items.list
  THEN {IF i \in DOMAIN TableOf THEN TableOf[i] ELSE i : i \in config.items.names}
  ELSE {TableOf[i] : i \in DOMAIN TableOf}

(* get_job_lock_keys.                                                      *)
GetJobLockKeys(config) ==
  IF Has(config, "items") /\ config.items.list /\ config.items.names # {}
  THEN {IF i \in DOMAIN TableOf THEN TableOf[i] ELSE i : i \in config.items.names}
  ELSE {TableOf[i] : i \in DOMAIN TableOf}

(* _get_target_data_items of the crawler, which takes a string for the set *)
(* of its letters.                                                         *)
TargetTables(config) ==
  {TableOf[i] : i \in
     IF Has(config, "items") /\ (~config.items.list \/ config.items.names # {})
     THEN (IF config.items.list THEN config.items.names ELSE {}) \cap DOMAIN TableOf
     ELSE DOMAIN TableOf}

-----------------------------------------------------------------------------
(* The admin service.                                                      *)
MergeWithDefaults(default, crawler) ==
  LET Deeper(k) == /\ k \in DOMAIN default \cap DOMAIN crawler \cap {"jobs", "more"}
                   /\ IsMapping(default[k]) /\ IsMapping(crawler[k])
      kept  == [k \in DOMAIN default \ DOMAIN crawler |-> default[k]]
      deep  == [k \in {k \in DOMAIN crawler : Deeper(k)} |->
                  [n \in DOMAIN default[k] \cup DOMAIN crawler[k] |->
                     IF Has(crawler[k], n) THEN crawler[k][n] ELSE default[k][n]]]
  IN Over(Over(deep, crawler), kept)

(* _validate_merged_crawler_config, _validate_crawler_jobs: the errors, not *)
(* the warnings.                                                           *)
Sound(config) ==
  /\ Has(config, "schedule") /\ IsString(config.schedule) /\ Parses(config.schedule)
  /\ Has(config, "enable") /\ config.enable \in {"true", "false"}

JobsSound(jobs, base) ==
  /\ IsMapping(jobs)
  /\ \A j \in DOMAIN jobs : IsMapping(jobs[j]) /\ Sound(MergeWithDefaults(base, jobs[j]))

IsNull(m) == ~IsMapping(m) /\ m.scalar = "null"

(* validate_config_text.                                                   *)
Valid ==
  /\ Has(text, "default") /\ IsMapping(text.default)
  /\ Has(text, "crawler") =>
       /\ IsMapping(text.crawler)
       /\ LET merged == MergeWithDefaults(text.default, text.crawler) IN
          /\ Sound(merged)
          /\ Has(text.crawler, "jobs") /\ ~IsNull(text.crawler.jobs)
               => JobsSound(text.crawler.jobs, Without(merged, "jobs"))

(* build_crawler_job_previews, of a section that is a mapping.             *)
JobPreviews ==
  LET section == text.crawler
      base == Without(MergeWithDefaults(DefaultConfig, section), "jobs")
  IN IF ~Has(section, "jobs") \/ ~IsMapping(section.jobs) THEN {}
     ELSE {<<j, MergeWithDefaults(base, section.jobs[j])>> :
             j \in {j \in DOMAIN section.jobs : IsMapping(section.jobs[j])}}

(* build_dashboard_state: the card of the crawler shows its jobs, or its   *)
(* own schedule.                                                           *)
Card == <<"default", MergeWithDefaults(DefaultConfig, text.crawler)>>

Shown ==
  IF ~Has(text, "crawler") \/ ~IsMapping(text.crawler) THEN {}
  ELSE IF JobPreviews # {} THEN JobPreviews ELSE {Card}

-----------------------------------------------------------------------------
(* The dialog.                                                             *)
(* Mutant: Sunday written as 7 is dropped.                                 *)
ParseDropsSeven(c) ==
  CASE c.kind = "guided" /\ c.days = {} /\ c.hours = "every" ->
         [mode |-> "hourly", minute |-> c.minute, n |-> 1, days |-> {}, padded |-> c.padded]
    [] c.kind = "guided" /\ c.days = {} /\ c.hours = "step" ->
         [mode |-> "hourly", minute |-> c.minute, n |-> c.n, days |-> {}, padded |-> c.padded]
    [] c.kind = "guided" /\ c.days = {} /\ c.hours = "at" ->
         [mode |-> "daily", minute |-> c.minute, n |-> c.n, days |-> {}, padded |-> c.padded]
    [] c.kind = "guided" /\ c.days # {} /\ c.hours = "at" ->
         [mode |-> "weekly", minute |-> c.minute, n |-> c.n, days |-> c.days \ {7}, padded |-> c.padded]
    [] OTHER -> [mode |-> "advanced", expression |-> c]

(* _parse_schedule_into_form_state.                                        *)
ParseScheduleIntoFormState(c) ==
  CASE c.kind = "guided" /\ c.days = {} /\ c.hours = "every" ->
         [mode |-> "hourly", minute |-> c.minute, n |-> 1, days |-> {}, padded |-> c.padded]
    [] c.kind = "guided" /\ c.days = {} /\ c.hours = "step" ->
         [mode |-> "hourly", minute |-> c.minute, n |-> c.n, days |-> {}, padded |-> c.padded]
    [] c.kind = "guided" /\ c.days = {} /\ c.hours = "at" ->
         [mode |-> "daily", minute |-> c.minute, n |-> c.n, days |-> {}, padded |-> c.padded]
    [] c.kind = "guided" /\ c.days # {} /\ c.hours = "at" ->
         [mode |-> "weekly", minute |-> c.minute, n |-> c.n, days |-> Normalize(c.days), padded |-> c.padded]
    [] OTHER -> [mode |-> "advanced", expression |-> c]

(* The lists of hours and minutes hold unpadded numbers: one that is       *)
(* padded is not among them, and the browser takes the first, which is 0.  *)
(* The number of hours of an interval is typed in.                         *)
Rendered(form) ==
  IF form.mode = "advanced" \/ ~form.padded THEN form
  ELSE [form EXCEPT !.minute = 0, !.n = IF form.mode = "hourly" THEN @ ELSE 0]

(* _resolve_scheduler_schedule: the schedules it returns, none on an error. *)
ResolveSchedulerSchedule(form) ==
  CASE form.mode = "hourly" ->
         {Cron("guided", form.minute, IF n = 1 THEN "every" ELSE "step", n, {}, FALSE) :
            n \in {form.n} \cap (1 .. 23)}
    [] form.mode = "daily" -> {Cron("guided", form.minute, "at", form.n, {}, FALSE)}
    [] form.mode = "weekly" ->
         {Cron("guided", form.minute, "at", form.n, days, FALSE) : days \in {form.days} \ {{}}}
    [] form.mode = "advanced" -> {form.expression}

(* _select_scheduler_job_name: the dialog has a job if the crawler has.    *)
JobChoices ==
  IF Has(text, "crawler") /\ IsMapping(text.crawler) /\ JobPreviews # {}
  THEN {j[1] : j \in JobPreviews} ELSE {"none"}

Sets(section, enable, c) == Over([enable |-> enable, schedule |-> c], section)

(* update_crawler_schedule_config_text: the texts it returns, none when it *)
(* raises.                                                                 *)
UpdateCrawlerScheduleConfigText(job, enable, c) ==
  IF ~Has(text, "crawler")
  THEN IF job # "none" THEN {}
       ELSE {Over([crawler |-> [enable |-> enable, schedule |-> c]], text)}
  ELSE LET section == text.crawler
           jobs == IF IsMapping(section) /\ Has(section, "jobs") THEN section.jobs
                   ELSE [scalar |-> "null"]
       IN IF ~IsMapping(section) \/ (job = "none" /\ IsMapping(jobs)) THEN {}
          ELSE IF job = "none" THEN {[text EXCEPT !.crawler = Sets(@, enable, c)]}
          ELSE IF ~IsMapping(jobs) \/ ~Has(jobs, job) \/ ~IsMapping(jobs[job]) THEN {}
          ELSE {[text EXCEPT !.crawler.jobs[job] = Sets(@, enable, c)]}

(* save_crawler_scheduler: a schedule that does not parse is refused.      *)
Save(job, enable, form) ==
  \E c \in ResolveSchedulerSchedule(form) :
    /\ Parses(c)
    /\ text' \in UpdateCrawlerScheduleConfigText(job, enable, c)

SaveChanged(job, enable, c) == Save(job, enable, ParseScheduleIntoFormState(c))

(* _build_scheduler_form_state: the dialog of a job of a valid text, saved *)
(* as it is.                                                               *)
SaveUntouched(job, config) ==
  Save(IF Has(text.crawler, "jobs") /\ job \in JobChoices THEN job ELSE "none",
       config.enable, Rendered(ParseScheduleIntoFormState(config.schedule)))

Init == text \in Configs

Next ==
  \/ \E job \in JobChoices, enable \in {"true", "false"}, c \in Schedules :
       SaveChanged(job, enable, c)
  \/ Valid /\ \E j \in Shown : SaveUntouched(j[1], j[2])

-----------------------------------------------------------------------------
(* What is loaded, or shown as enabled: the jobs, when they are due, and   *)
(* with which other settings.                                              *)
Settings(config) == [k \in DOMAIN config \ {"enable", "schedule", "jobs"} |-> config[k]]
Listed(jobs) ==
  {<<j[1], Due(j[2].schedule), Settings(j[2])>> : j \in {j \in jobs : j[2].enable = "true"}}

(* Jobs in the default section are loaded for every crawler without jobs   *)
(* of its own, but neither validated nor shown.                            *)
NoDefaultJobs == ~Has(DefaultConfig, "jobs")

(* crawler_scheduler.py and crawler_admin/config_service.py merge the same *)
(* text with code of their own.  If the text is valid, and its default     *)
(* section has no jobs, the jobs that the dashboard shows as enabled are   *)
(* those that the scheduler loads, each with the same settings.            *)
ShownIsLoaded == Valid /\ NoDefaultJobs => Listed(Shown) = Listed(ScheduledJobs)

Name(job) == IF job = "none" THEN "default" ELSE job
Others(job) == {j \in Listed(ScheduledJobs) : j[1] # Name(job)}
SettingsOf(name) ==
  Settings(IF Shown = {} THEN DefaultConfig ELSE (CHOOSE j \in Shown : j[1] = name)[2])

(* docs/source/crawler_config.md: "The dialog updates only the selected    *)
(* job's enable and schedule values."  What the scheduler loads after a    *)
(* save differs in that job alone, and it is loaded with the values that   *)
(* were set; and a dialog that is saved as it was opened changes nothing,  *)
(* unless an hour or a minute is padded with a zero.                       *)
SavesExactly ==
  Valid /\ NoDefaultJobs =>
    /\ \A job \in JobChoices, enable \in {"true", "false"}, c \in Schedules :
         SaveChanged(job, enable, c) =>
           Listed(ScheduledJobs') = Others(job) \cup
             (IF enable = "true" THEN {<<Name(job), Due(c), SettingsOf(Name(job))>>} ELSE {})
    /\ \A j \in Shown :
         SaveUntouched(j[1], j[2]) /\ ~j[2].schedule.padded
           => Listed(ScheduledJobs') = Listed(ScheduledJobs)

(* docs/source/crawler_config.md: "jobs touching the same tables wait for  *)
(* each other", which they do if they share a key.                         *)
LocksCover ==
  \A j, k \in ScheduledJobs :
    TargetTables(j[2]) \cap TargetTables(k[2]) # {}
      => GetJobLockKeys(j[2]) \cap GetJobLockKeys(k[2]) # {}

=============================================================================
