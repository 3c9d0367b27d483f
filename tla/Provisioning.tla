----------------------------- MODULE Provisioning -----------------------------
(***************************************************************************)
(* The commands that prepare a console's WC24 profile: provision edits the *)
(* task table (jwc24/dl_list.py), account --bootstrap-local and            *)
(* mail-config edit the account configuration (jwc24/wc24_config.py),      *)
(* mail-config also registers the console in the accounts of the mail      *)
(* service, launch runs that service beside the console, and preflight     *)
(* judges the result (jwc24/readiness.py).                                 *)
(*                                                                         *)
(* Every command is a process of its own.  A profile file is edited by a   *)
(* read, a dated backup copy and a rewrite in place; accounts.json by a    *)
(* read and an atomic replacement.  The console and the service change the *)
(* same files, and a command may stop between any two of its steps.        *)
(***************************************************************************)
EXTENDS Naturals, FiniteSets

CONSTANTS
  Tool,        \* command processes
  Launcher,    \* launch processes
  Console,     \* the WC24 ID of this console
  NoId,        \* the ID of a profile that has none yet
  Slot,        \* positions of the task table
  Manifest,    \* channel manifests, as load_manifest returns them
  FirstTables, \* task tables the console's own software may have written
  None,        \* no task, no credentials, no process
  Torn,        \* a file that was truncated and not yet rewritten
  MaxRuns,     \* bound: commands that are started
  Second       \* seconds at which copies are made

VARIABLES
  \* Files.
  table,     \* nwc24dl.bin: a task or None for every slot, or Torn
  config,    \* nwc24msg.cfg: a record, or Torn
  backup,    \* backup[name]: the content of a dated copy, None: no such file
  accounts,  \* accounts.json: credentials of every registered ID
  \* Processes.
  proc,      \* proc[p]: what a command holds between two steps
  service,   \* accounts a service handler has read and will replace, or None
  owner,     \* the launcher whose process runs the mail service, or None
  launcher,  \* launcher[l]: where a launch stands
  \* Observers, read by properties and bounds only.
  runs,      \* commands started
  fresh,     \* credentials drawn so far
  provided,  \* manifests whose provision has ended with its table written
  cut,       \* cut[f]: the content that the truncation of a torn file removed
  raced      \* files copied or written by a process that had read another state,
             \* or with a copy that a later one replaced before it could serve

files     == <<table, config, backup, accounts>>
processes == <<proc, service, owner, launcher>>
observers == <<runs, fresh, provided, cut, raced>>
vars      == <<files, processes, observers>>

------------------------------------------------------------------------------
(* The task table. *)

Flag    == {"native", "unsigned", "decrypt"}   \* bits 1, 2 and 3
Channel == "channel content"

\* What a table can hold: what its native entries and the manifests name.
FirstEntry == (UNION {{t[s] : s \in Slot} : t \in FirstTables}) \ {None}
Entry ==
  [title : {e.title : e \in FirstEntry} \cup {m.title : m \in Manifest},
   file  : {e.file : e \in FirstEntry} \cup
             UNION {{task.file : task \in m.tasks} : m \in Manifest},
   url   : {e.url : e \in FirstEntry} \cup
             UNION {{<<m.base, task.route>> : task \in m.tasks} : m \in Manifest},
   flags : SUBSET Flag,
   kind  : {e.kind : e \in FirstEntry} \cup {Channel},
   due   : BOOLEAN]
Table == [Slot -> Entry \cup {None}]

\* load_manifest refuses everything else.
ASSUME ManifestAssumption ==
  \A m \in Manifest :
    /\ \A a \in m.tasks : /\ a.slot \in Slot
                          /\ a.adopt \in BOOLEAN /\ a.unsigned \in BOOLEAN
                          /\ a.encrypted => ~ a.unsigned
    /\ \A a, b \in m.tasks : a.slot = b.slot \/ a.file = b.file => a = b
ASSUME TableAssumption == FirstTables \subseteq Table

TaskId(m, task)   == <<m.title, task.file>>
TaskAt(t, s)      == <<t[s].title, t[s].file>>
Url(m, task)      == <<m.base, task.route>>

\* Mutant: an encrypted task is created with no decryption bit.
CreatedFlags_NoDecrypt(task) == IF task.unsigned THEN {"unsigned"} ELSE {}

CreatedFlags(task) ==
  IF task.unsigned THEN {"unsigned"}
  ELSE IF task.encrypted THEN {"native", "decrypt"} ELSE {}

\* _write_task: a zeroed entry, filled from the manifest, due at once.
Written(m, task) ==
  [title |-> m.title, file |-> task.file, url |-> Url(m, task),
   flags |-> CreatedFlags(task), kind |-> Channel, due |-> TRUE]

\* _adopt_task: the native entry with a new address; an unsigned task loses
\* the decryption bit, the other flags and the entry type stay.
Adopted(m, task, current) ==
  [title |-> current.title, file |-> current.file, url |-> Url(m, task),
   flags |-> IF task.unsigned THEN (current.flags \cup {"unsigned"}) \ {"decrypt"}
                              ELSE current.flags,
   kind  |-> current.kind, due |-> TRUE]

\* Mutant: files of the same name count, whatever their title.
Duplicate_AnyTitle(t, m, s) ==
  /\ m.prune /\ t[s] # None
  /\ \E task \in m.tasks : t[s].file = task.file /\ s # task.slot

\* Entries of the manifest's files that sit in a slot other than their own.
Duplicate(t, m, s) ==
  /\ m.prune /\ t[s] # None
  /\ \E task \in m.tasks : TaskAt(t, s) = TaskId(m, task) /\ s # task.slot

Pruned(t, m) == [s \in Slot |-> IF Duplicate(t, m, s) THEN None ELSE t[s]]

Configured(m, task, current) ==
  /\ current # None
  /\ current.url = Url(m, task) /\ current.kind = Channel
  /\ IF task.adopt THEN ("unsigned" \in current.flags) = task.unsigned
                   ELSE current.flags = CreatedFlags(task)

\* A slot that another entry occupies, or nothing to adopt: provision raises.
Refused(t, m) ==
  \E task \in m.tasks :
    IF t[task.slot] = None THEN task.adopt
                           ELSE TaskAt(t, task.slot) # TaskId(m, task)

Provisioned(t, m) ==
  [s \in Slot |->
     IF \E task \in m.tasks : task.slot = s
       THEN LET task == CHOOSE k \in m.tasks : k.slot = s IN
            IF task.adopt THEN Adopted(m, task, t[s])
            ELSE IF Configured(m, task, t[s]) THEN t[s] ELSE Written(m, task)
       ELSE t[s]]

\* The table checks of the preflight, for one task.
TaskIssues(t, m, task) ==
  LET e == t[task.slot] IN
  IF e = None THEN {"task_not_registered"}
  ELSE IF TaskAt(t, task.slot) # TaskId(m, task)
         THEN {"task_slot_occupied_by_other_entry"}
  ELSE {i \in {"task_type_mismatch", "task_endpoint_mismatch",
               "task_signature_flag_mismatch", "task_created_flags_mismatch",
               "task_decryption_flag_missing"} :
          CASE i = "task_type_mismatch"     -> e.kind # Channel
            [] i = "task_endpoint_mismatch" -> e.url # Url(m, task)
            [] i = "task_signature_flag_mismatch" ->
                 ("unsigned" \in e.flags) # task.unsigned
            [] i = "task_created_flags_mismatch" ->
                 ~ task.adopt /\ e.flags # CreatedFlags(task)
            [] i = "task_decryption_flag_missing" ->
                 task.encrypted /\ ~ {"native", "decrypt"} \subseteq e.flags}

------------------------------------------------------------------------------
(* The account configuration. *)

Config == [id : {Console, NoId}, stage : {"initial", "generated", "registered"},
           booting : BOOLEAN, credentials : (Nat \ {0}) \cup {None}, sound : {TRUE}]

ASSUME MarkAssumption ==
  /\ None \notin Nat \cup Entry \cup Launcher
  /\ Torn \notin Table \cup Config
  /\ NoId # Console

Bootstrapped(c) ==
  [id |-> c.id, stage |-> "registered", booting |-> TRUE,
   credentials |-> c.credentials, sound |-> TRUE]

MailConfigured(c, credentials) ==
  [id |-> c.id, stage |-> c.stage, booting |-> c.booting,
   credentials |-> credentials, sound |-> TRUE]

\* The account checks of the preflight.
AccountIssues(c) ==
  {i \in {"account_checksum_invalid", "account_not_registered",
          "background_booting_not_enabled", "mail_credentials_missing"} :
     CASE i = "account_checksum_invalid"       -> ~ c.sound
       [] i = "account_not_registered"         -> c.id = NoId \/ c.stage # "registered"
       [] i = "background_booting_not_enabled" -> ~ c.booting
       [] i = "mail_credentials_missing"       -> c.credentials = None}

------------------------------------------------------------------------------
(* Commands: one job, the file it edits and the backup it names. *)

Job == {[kind |-> "bootstrap"], [kind |-> "mail"]}
         \cup {[kind |-> "provision", manifest |-> m] : m \in Manifest}

EditsTable(job) == job.kind = "provision"
FileOf(job)     == IF EditsTable(job) THEN "table" ELSE "config"
Label(job)      == IF EditsTable(job) THEN job.manifest.channel ELSE job.kind
Labels(f)       == IF f = "table" THEN {m.channel : m \in Manifest}
                                  ELSE {"bootstrap", "mail"}
Content(f)      == IF f = "table" THEN table ELSE config
Copies(f)       == {f} \X Labels(f) \X Second

Ended       == [pc |-> "ended"]
Step(p, st) == proc' = [proc EXCEPT ![p] = st]

\* A process goes on with a file whose content is not what it expects.
Expects(f, content, expected) ==
  raced' = IF content = expected THEN raced ELSE raced \cup {f}

Profile(id, stage, booting) ==
  [id |-> id, stage |-> stage, booting |-> booting, credentials |-> None, sound |-> TRUE]

Init ==
  /\ table \in FirstTables
  /\ config \in {Profile(NoId, "initial", FALSE), Profile(Console, "registered", TRUE)}
  /\ backup    = [b \in Copies("table") \cup Copies("config") |-> None]
  /\ accounts  = [i \in {Console, NoId} |-> None]
  /\ proc      = [p \in Tool |-> Ended]
  /\ service   = None
  /\ owner     = None
  /\ launcher  = [l \in Launcher |-> "off"]
  /\ runs      = 0
  /\ fresh     = 0
  /\ provided  = {}
  /\ cut       = [f \in {"table", "config"} |-> None]
  /\ raced     = {}

\* The command line starts a job; both files are read before any change.
Start(p) ==
  /\ proc[p] = Ended /\ runs < MaxRuns
  /\ runs' = runs + 1
  /\ \E job \in Job :
       Step(p, [pc |-> IF job.kind = "mail" THEN "identify" ELSE "read", job |-> job])
  /\ UNCHANGED <<files, service, owner, launcher, fresh, provided, cut, raced>>

\* mail-config asks for the account of the ID that the configuration names.
Identify(p) ==
  /\ proc[p].pc = "identify"
  /\ IF config = Torn THEN Step(p, Ended)
     ELSE IF accounts[config.id] = None
            THEN Step(p, [pc |-> "register", job |-> proc[p].job, known |-> config,
                          snapshot |-> accounts])
            ELSE Step(p, [pc |-> "read", job |-> proc[p].job, known |-> config,
                          credentials |-> accounts[config.id]])
  /\ UNCHANGED <<files, service, owner, launcher, observers>>

\* Mutant: the credentials are drawn but accounts.json is not replaced.
RegisterAccount_NotStored(p) ==
  /\ proc[p].pc = "register"
  /\ fresh' = fresh + 1
  /\ Step(p, [pc |-> "read", job |-> proc[p].job, known |-> proc[p].known,
                credentials |-> fresh + 1])
  /\ UNCHANGED <<files, service, owner, launcher, runs, provided, cut, raced>>

\* register: new credentials, and the accounts that were read replace the file.
RegisterAccount(p) ==
  /\ proc[p].pc = "register"
  /\ fresh' = fresh + 1
  /\ accounts' = [proc[p].snapshot EXCEPT ![proc[p].known.id] = fresh + 1]
  /\ Expects("accounts", accounts, proc[p].snapshot)
  /\ Step(p, [pc |-> "read", job |-> proc[p].job, known |-> proc[p].known,
                credentials |-> fresh + 1])
  /\ UNCHANGED <<table, config, backup, service, owner, launcher, runs,
                 provided, cut>>

Hold(p, new) ==
  Step(p, [pc |-> "backup", job |-> proc[p].job, new |-> new,
           old |-> Content(FileOf(proc[p].job))])

\* provision: read, validate and compute the new table; --apply goes on.
ReadTable(p) ==
  /\ proc[p].pc = "read" /\ EditsTable(proc[p].job)
  /\ LET m == proc[p].job.manifest IN
     IF table = Torn THEN Step(p, Ended)
     ELSE IF Refused(Pruned(table, m), m) THEN Step(p, Ended)
     ELSE Hold(p, Provisioned(Pruned(table, m), m))
  /\ UNCHANGED <<files, service, owner, launcher, observers>>

\* bootstrap_local and configure_mail: refusals, and no write without a change.
\* configure_mail reads the configuration again: the account was asked for the
\* ID of the earlier reading.
ReadConfig(p) ==
  /\ proc[p].pc = "read" /\ ~ EditsTable(proc[p].job)
  /\ LET new == IF proc[p].job.kind = "mail"
                  THEN MailConfigured(config, proc[p].credentials)
                  ELSE Bootstrapped(config)
         fit == IF proc[p].job.kind = "mail" THEN config.stage = "registered"
                ELSE config.id # NoId /\ config.stage \in {"generated", "registered"}
     IN IF config = Torn THEN Step(p, Ended)
        ELSE IF config.sound /\ fit /\ new # config THEN Hold(p, new)
        ELSE Step(p, Ended)
  /\ IF proc[p].job.kind = "mail" THEN Expects("config", config, proc[p].known)
                                  ELSE UNCHANGED raced
  /\ UNCHANGED <<files, service, owner, launcher, runs, fresh, provided, cut>>

\* Mutant: the file is rewritten without a copy.
CopyBackup_None(p) ==
  /\ proc[p].pc = "backup"
  /\ Step(p, [proc[p] EXCEPT !.pc = "truncate"])
  /\ UNCHANGED <<files, service, owner, launcher, observers>>

\* The copy of another command, which is about to rewrite the same file, is lost.
Replaces(p, copy, content) ==
  \E q \in Tool \ {p} :
    /\ proc[q].pc = "truncate" /\ FileOf(proc[q].job) = copy[1]
    /\ backup[copy] = proc[q].old /\ content # proc[q].old

\* shutil.copy2 to a name made of the job and the second: local time, which may
\* stand still between two commands and may be set back.
CopyBackup(p) ==
  /\ proc[p].pc = "backup"
  /\ LET f == FileOf(proc[p].job) IN
     \E now \in Second :
       LET copy == <<f, Label(proc[p].job), now>> IN
       /\ backup' = [backup EXCEPT ![copy] = Content(f)]
       /\ raced' = IF Content(f) = proc[p].old /\ ~ Replaces(p, copy, Content(f))
                     THEN raced ELSE raced \cup {f}
  /\ Step(p, [proc[p] EXCEPT !.pc = "truncate"])
  /\ UNCHANGED <<table, config, accounts, service, owner, launcher, runs,
                 fresh, provided, cut>>

\* write_bytes opens the file in place: from here until the write it is empty.
Truncate(p) ==
  /\ proc[p].pc = "truncate"
  /\ IF EditsTable(proc[p].job)
       THEN table' = Torn /\ UNCHANGED config
       ELSE config' = Torn /\ UNCHANGED table
  /\ Expects(FileOf(proc[p].job), Content(FileOf(proc[p].job)), proc[p].old)
  /\ cut' = [cut EXCEPT ![FileOf(proc[p].job)] = Content(FileOf(proc[p].job))]
  /\ Step(p, [proc[p] EXCEPT !.pc = "write"])
  /\ UNCHANGED <<backup, accounts, service, owner, launcher, runs, fresh,
                 provided>>

WriteFile(p) ==
  /\ proc[p].pc = "write"
  /\ IF EditsTable(proc[p].job)
       THEN /\ table' = proc[p].new /\ UNCHANGED config
            /\ provided' = provided \cup {proc[p].job.manifest}
       ELSE config' = proc[p].new /\ UNCHANGED <<table, provided>>
  /\ Expects(FileOf(proc[p].job), Content(FileOf(proc[p].job)), Torn)
  /\ cut' = [cut EXCEPT ![FileOf(proc[p].job)] = None]
  /\ Step(p, Ended)
  /\ UNCHANGED <<backup, accounts, service, owner, launcher, runs, fresh>>

\* A command stops before its next step.
Stop(p) ==
  /\ proc[p] # Ended
  /\ Step(p, Ended)
  /\ UNCHANGED <<files, service, owner, launcher, observers>>

------------------------------------------------------------------------------
(* The service beside the console. *)

\* One handler at a time holds the store's lock: it reads the accounts, and
\* replaces them with a registration or a new mailbox generation.
ServiceRead ==
  /\ owner # None /\ service = None
  /\ service' = [snapshot |-> accounts]
  /\ UNCHANGED <<files, proc, owner, launcher, observers>>

ServiceReplace ==
  /\ service # None
  /\ \/ /\ service.snapshot[Console] = None
        /\ fresh' = fresh + 1
        /\ accounts' = [service.snapshot EXCEPT ![Console] = fresh + 1]
     \/ accounts' = service.snapshot /\ UNCHANGED fresh
  /\ Expects("accounts", accounts, service.snapshot)
  /\ service' = None
  /\ UNCHANGED <<table, config, backup, proc, owner, launcher, runs, provided,
                 cut>>

\* launch reuses a service that answers; without an answer it starts its own,
\* which fails while another process has the port.
Launch(l) ==
  /\ launcher[l] = "off"
  /\ IF owner # None
       THEN /\ \E to \in {"guest", "over"} : launcher' = [launcher EXCEPT ![l] = to]
            /\ UNCHANGED owner
       ELSE launcher' = [launcher EXCEPT ![l] = "starting"] /\ owner' = l
  /\ UNCHANGED <<files, proc, service, observers>>

\* Twenty health checks: the service answers one of them, or the launch fails.
HealthCheck(l) ==
  /\ launcher[l] = "starting"
  /\ \/ launcher' = [launcher EXCEPT ![l] = "console"] /\ UNCHANGED <<owner, service>>
     \/ /\ launcher' = [launcher EXCEPT ![l] = "over"]
        /\ owner' = None /\ service' = None
  /\ UNCHANGED <<files, proc, observers>>

\* Mutant: whoever's console returns shuts the service down.
ConsoleReturns_Anyones(l) ==
  /\ launcher[l] \in {"console", "guest"}
  /\ launcher' = [launcher EXCEPT ![l] = "over"]
  /\ owner' = None /\ service' = None
  /\ UNCHANGED <<files, proc, observers>>

\* The console returns: a service of one's own is shut down, handlers included.
ConsoleReturns(l) ==
  /\ launcher[l] \in {"console", "guest"}
  /\ launcher' = [launcher EXCEPT ![l] = "over"]
  /\ IF launcher[l] = "console" THEN owner' = None /\ service' = None
                                ELSE UNCHANGED <<owner, service>>
  /\ UNCHANGED <<files, proc, observers>>

(* The console's own software: an ID, and the scheduler's visit to a task. *)

GenerateId ==
  /\ config # Torn /\ config.stage = "initial"
  /\ config' = Profile(Console, "generated", config.booting)
  /\ UNCHANGED <<table, backup, accounts, processes, observers>>

RunTask(s) ==
  /\ table # Torn /\ table[s] # None /\ table[s].due
  /\ table' = [table EXCEPT ![s].due = FALSE]
  /\ UNCHANGED <<config, backup, accounts, processes, observers>>

Next ==
  \/ \E p \in Tool :
       \/ Start(p) \/ Identify(p) \/ RegisterAccount(p) \/ ReadTable(p)
       \/ ReadConfig(p) \/ CopyBackup(p) \/ Truncate(p) \/ WriteFile(p) \/ Stop(p)
  \/ ServiceRead \/ ServiceReplace
  \/ \E l \in Launcher : Launch(l) \/ HealthCheck(l) \/ ConsoleReturns(l)
  \/ GenerateId
  \/ \E s \in Slot : RunTask(s)

Spec == Init /\ [][Next]_vars

------------------------------------------------------------------------------
(* Properties. *)

\* A profile file that a stopped command has left torn can be restored: a
\* dated copy holds exactly what the truncation removed.  Only a command that
\* copied or wrote a file which was not as it had read it breaks this, or one
\* that copied the file under the same name, in the same second.
TornFileHasABackup ==
  \A f \in {"table", "config"} :
    cut[f] # None /\ f \notin raced => \E b \in Copies(f) : backup[b] = cut[f]

\* The credentials that mail-config leaves in a console's configuration are the
\* ones the mail service knows for its ID.  Only a process that went on from an
\* older reading of accounts.json or of the configuration can part them.
ConfiguredConsoleIsKnown ==
  config # Torn /\ config.credentials # None /\ raced \cap {"accounts", "config"} = {}
    => accounts[config.id] = config.credentials

\* What an adopted task keeps of the native entry: adoption does not set its
\* type, nor the flags of a signed task.
Inherited(task) ==
  IF ~ task.adopt THEN {}
  ELSE {"task_type_mismatch"} \cup
       IF task.unsigned THEN {}
       ELSE {"task_signature_flag_mismatch", "task_decryption_flag_missing"}

\* The two sides agree: what provision and mail-config have written passes the
\* preflight's separate checks, whatever the console's scheduler and the other
\* commands did since, as long as no command wrote from an older reading.
PreparedProfilePasses ==
  /\ table # Torn /\ "table" \notin raced =>
       \A m \in provided : \A task \in m.tasks :
         TaskIssues(table, m, task) \subseteq Inherited(task)
  /\ config # Torn /\ config.credentials # None /\ "config" \notin raced =>
       AccountIssues(config) = {}

\* A provision repeated on its own result is accepted and changes nothing, and
\* it leaves every entry of another title as it was, in any table reached.
ProvisionConverges ==
  table # Torn =>
    \A m \in Manifest :
      LET once == Provisioned(Pruned(table, m), m)
          own  == {task.slot : task \in m.tasks} IN
      ~ Refused(Pruned(table, m), m) =>
        /\ ~ Refused(Pruned(once, m), m)
        /\ Provisioned(Pruned(once, m), m) = once
        /\ \A s \in Slot \ own :
             table[s] # None /\ table[s].title # m.title => once[s] = table[s]
        /\ \A s \in Slot : m.prune => ~ Duplicate(once, m, s)

\* The service that a launch has started answers as long as its console runs:
\* another launch that only borrowed it never takes it down.
OwnServiceOutlivesConsole ==
  \A l \in Launcher : launcher[l] \in {"starting", "console"} => owner = l
===============================================================================
