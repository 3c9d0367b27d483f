-------------------------- MODULE ProvisioningProofs --------------------------
(***************************************************************************)
(* Theorems about Provisioning for any commands, launches, manifests that  *)
(* load_manifest accepts, native tables, seconds and number of commands,   *)
(* and about ContentServer for any manifests, publications and routes.     *)
(***************************************************************************)
EXTENDS Downloads, Sequences, TLAPS

Accounts     == [{Console, NoId} -> (Nat \ {0}) \cup {None}]
Mail         == [kind |-> "mail"]
ConfigJob    == {[kind |-> "bootstrap"], Mail}
ProvisionJob == {[kind |-> "provision", manifest |-> m] : m \in Manifest}
Holding      == {"backup", "truncate", "write"}

\* What a command holds between two steps.
State ==
  {Ended} \cup [pc : {"identify"}, job : {Mail}]
    \cup [pc : {"register"}, job : {Mail}, known : Config, snapshot : Accounts]
    \cup [pc : {"read"}, job : {Mail}, known : Config, credentials : Nat \ {0}]
    \cup [pc : {"read"}, job : Job \ {Mail}]
    \cup [pc : Holding, job : ConfigJob, new : Config, old : Config]
    \cup [pc : Holding, job : ProvisionJob, new : Table, old : Table]

TypeOK ==
  /\ table \in Table \cup {Torn} /\ config \in Config \cup {Torn}
  /\ backup \in [Copies("table") \cup Copies("config") -> Table \cup Config \cup {Torn, None}]
  /\ accounts \in Accounts
  /\ proc \in [Tool -> State]
  /\ service \in {None} \cup [snapshot : Accounts]
  /\ owner \in {None} \cup Launcher
  /\ launcher \in [Launcher -> {"off", "starting", "console", "guest", "over"}]
  /\ runs \in Nat /\ fresh \in Nat /\ provided \subseteq Manifest
  /\ cut \in [{"table", "config"} -> Table \cup Config \cup {Torn, None}]
  /\ raced \subseteq {"table", "config", "accounts"}

Holds(p, f) == proc[p].pc \in Holding /\ FileOf(proc[p].job) = f

\* A table command holds the table it read and what provision made of it.
HeldOK ==
  \A p \in Tool : Holds(p, "table") =>
    LET m == proc[p].job.manifest IN
    /\ ~ Refused(Pruned(proc[p].old, m), m)
    /\ proc[p].new = Provisioned(Pruned(proc[p].old, m), m)

\* A command that is about to truncate an undisturbed file has its copy.
CopyOK ==
  \A p \in Tool : proc[p].pc = "truncate" =>
    LET f == FileOf(proc[p].job) IN
    f \notin raced => \E b \in Copies(f) : backup[b] = proc[p].old

\* What a truncation removed is remembered as long as the file is torn.
CutOK == \A f \in {"table", "config"} : cut[f] # None => Content(f) = Torn

\* An undisturbed file is torn while a command is about to write it, and no
\* other command is.
WriteOK ==
  \A p \in Tool : proc[p].pc = "write" =>
    LET f == FileOf(proc[p].job) IN
    f \notin raced => /\ Content(f) = Torn
                      /\ \A q \in Tool : proc[q].pc = "write" /\ Holds(q, f) => q = p

\* Only a registered console has credentials, and a registered console has its
\* ID and boots in the background.
Fit(c) ==
  /\ c.stage # "initial" => c.id = Console
  /\ c.stage = "registered" => c.booting
  /\ c.credentials # None => c.stage = "registered"

FitOK ==
  /\ config # Torn => Fit(config)
  /\ \A p \in Tool : Holds(p, "config") => Fit(proc[p].new)

\* A registration is for an ID that had no account, and the credentials that a
\* command was given are those of the ID it asked for.
KnownOK ==
  \A p \in Tool :
    /\ proc[p].pc = "register" => proc[p].snapshot[proc[p].known.id] = None
    /\ proc[p].pc = "read" /\ proc[p].job = Mail /\ "accounts" \notin raced
         => accounts[proc[p].known.id] = proc[p].credentials

\* The configuration that a command is about to write names a known account.
CredentialsOK ==
  \A p \in Tool :
    Holds(p, "config") /\ proc[p].new.credentials # None
      /\ raced \cap {"accounts", "config"} = {}
      => accounts[proc[p].new.id] = proc[p].new.credentials

IInv ==
  /\ TypeOK /\ HeldOK /\ CopyOK /\ CutOK /\ WriteOK /\ FitOK /\ KnownOK /\ CredentialsOK
  /\ TornFileHasABackup /\ ConfiguredConsoleIsKnown /\ OwnServiceOutlivesConsole

\* No two manifests name the same file of the same title.
ManifestsApart ==
  \A m, n \in Manifest : m # n =>
    \A a \in m.tasks, b \in n.tasks : TaskId(m, a) # TaskId(n, b)

Passes(t, m) == \A task \in m.tasks : TaskIssues(t, m, task) \subseteq Inherited(task)

\* The table that a command is about to write passes for every manifest that
\* was provided, and for its own.
PassOK ==
  "table" \notin raced =>
    /\ table # Torn => \A m \in provided : Passes(table, m)
    /\ \A p \in Tool : proc[p].pc = "write" /\ Holds(p, "table") =>
         \A m \in provided \cup {proc[p].job.manifest} : Passes(proc[p].new, m)

------------------------------------------------------------------------------
(* What the operators on tables compute. *)

\* The file and the label of a job.
LEMMA JobFacts ==
  ASSUME NEW job \in Job
  PROVE  /\ job \in ConfigJob \/ job \in ProvisionJob
         /\ job \in ProvisionJob =>
              /\ EditsTable(job) /\ FileOf(job) = "table" /\ job # Mail
              /\ job.manifest \in Manifest /\ Label(job) \in Labels("table")
         /\ job \in ConfigJob =>
              ~ EditsTable(job) /\ FileOf(job) = "config" /\ Label(job) \in Labels("config")
  <1>1. CASE job \in ProvisionJob
    BY <1>1 DEF ProvisionJob, EditsTable, FileOf, Label, Labels, Mail, ConfigJob
  <1>2. CASE job \in ConfigJob
    BY <1>2 DEF ProvisionJob, EditsTable, FileOf, Label, Labels, Mail, ConfigJob
  <1> QED BY <1>1, <1>2 DEF Job, ConfigJob, ProvisionJob, Mail

\* An entry that a task was written to or adopted into.
LEMMA EntryFacts ==
  ASSUME NEW m \in Manifest, NEW task \in m.tasks
  PROVE  /\ Written(m, task) \in Entry
         /\ \A e \in Entry : Adopted(m, task, e) \in Entry
  <1>1. m.title \in {n.title : n \in Manifest}
    OBVIOUS
  <1>2. task.file \in UNION {{a.file : a \in n.tasks} : n \in Manifest}
    OBVIOUS
  <1>3. Url(m, task) \in UNION {{<<n.base, a.route>> : a \in n.tasks} : n \in Manifest}
    BY DEF Url
  <1>4. CreatedFlags(task) \in SUBSET Flag
    BY DEF CreatedFlags, Flag
  <1>5. Written(m, task) \in Entry
    BY <1>1, <1>2, <1>3, <1>4 DEF Written, Entry
  <1>6. ASSUME NEW e \in Entry PROVE Adopted(m, task, e) \in Entry
    <2>1. ((e.flags \cup {"unsigned"}) \ {"decrypt"}) \in SUBSET Flag
      BY <1>6 DEF Entry, Flag
    <2> QED BY <1>3, <1>6, <2>1 DEF Adopted, Entry
  <1> QED BY <1>5, <1>6

\* Pruning removes entries and changes none.
LEMMA PrunedFacts ==
  ASSUME NEW t \in Table, NEW m \in Manifest
  PROVE  /\ Pruned(t, m) \in Table
         /\ \A s \in Slot : Pruned(t, m)[s] = IF Duplicate(t, m, s) THEN None ELSE t[s]
  BY DEF Pruned, Table

\* The tasks of a manifest have slots of their own, so that provision writes
\* each slot for one task.
LEMMA SlotFacts ==
  ASSUME NEW t \in Table, NEW m \in Manifest
  PROVE  /\ \A task \in m.tasks :
              /\ task.slot \in Slot
              /\ Provisioned(t, m)[task.slot] =
                   IF task.adopt THEN Adopted(m, task, t[task.slot])
                   ELSE IF Configured(m, task, t[task.slot]) THEN t[task.slot]
                   ELSE Written(m, task)
         /\ \A s \in Slot : (\A task \in m.tasks : task.slot # s) => Provisioned(t, m)[s] = t[s]
  <1>1. ASSUME NEW task \in m.tasks
        PROVE  task.slot \in Slot /\ (CHOOSE k \in m.tasks : k.slot = task.slot) = task
    BY ManifestAssumption
  <1> QED BY <1>1 DEF Provisioned

\* A provision that is not refused yields a table, with every task in its slot.
LEMMA ProvisionedFacts ==
  ASSUME NEW t \in Table, NEW m \in Manifest, ~ Refused(t, m)
  PROVE  /\ Provisioned(t, m) \in Table
         /\ \A task \in m.tasks :
              /\ Provisioned(t, m)[task.slot] \in Entry
              /\ TaskAt(Provisioned(t, m), task.slot) = TaskId(m, task)
  <1>1. ASSUME NEW task \in m.tasks
        PROVE  /\ Provisioned(t, m)[task.slot] \in Entry
               /\ TaskAt(Provisioned(t, m), task.slot) = TaskId(m, task)
    <2>1. t[task.slot] = None \/ t[task.slot] \in Entry
      BY SlotFacts DEF Table
    <2>2. Written(m, task) \in Entry /\ Written(m, task).title = m.title
          /\ Written(m, task).file = task.file
      BY EntryFacts DEF Written
    <2>3. CASE task.adopt
      <3>1. t[task.slot] \in Entry /\ TaskAt(t, task.slot) = TaskId(m, task)
        BY <2>1, <2>3 DEF Refused
      <3>2. Adopted(m, task, t[task.slot]) \in Entry
            /\ Adopted(m, task, t[task.slot]).title = t[task.slot].title
            /\ Adopted(m, task, t[task.slot]).file = t[task.slot].file
        BY <3>1, EntryFacts DEF Adopted
      <3> QED BY <2>3, <3>1, <3>2, SlotFacts DEF TaskAt
    <2>4. CASE ~ task.adopt /\ Configured(m, task, t[task.slot])
      <3>1. t[task.slot] \in Entry /\ TaskAt(t, task.slot) = TaskId(m, task)
        BY <2>1, <2>4 DEF Refused, Configured
      <3> QED BY <2>4, <3>1, SlotFacts DEF TaskAt
    <2>5. CASE ~ task.adopt /\ ~ Configured(m, task, t[task.slot])
      BY <2>2, <2>5, SlotFacts DEF TaskAt, TaskId
    <2> QED BY <2>3, <2>4, <2>5
  <1>2. ASSUME NEW s \in Slot PROVE Provisioned(t, m)[s] \in Entry \cup {None}
    <2>1. CASE \E task \in m.tasks : task.slot = s
      BY <1>1, <2>1
    <2>2. CASE \A task \in m.tasks : task.slot # s
      BY <2>2, SlotFacts DEF Table
    <2> QED BY <2>1, <2>2
  <1>3. Provisioned(t, m) = [s \in Slot |-> Provisioned(t, m)[s]]
    BY DEF Provisioned
  <1> QED BY <1>1, <1>2, <1>3 DEF Table

\* A provision repeated on its own result finds nothing to prune, refuses
\* nothing and changes nothing, and entries of other titles stay.
LEMMA Converges ==
  ASSUME NEW t \in Table, NEW m \in Manifest, ~ Refused(Pruned(t, m), m),
         NEW once, once = Provisioned(Pruned(t, m), m)
  PROVE  /\ ~ Refused(Pruned(once, m), m)
         /\ Provisioned(Pruned(once, m), m) = once
         /\ \A s \in Slot \ {task.slot : task \in m.tasks} :
              t[s] # None /\ t[s].title # m.title => once[s] = t[s]
         /\ \A s \in Slot : m.prune => ~ Duplicate(once, m, s)
  <1> DEFINE P == Pruned(t, m)
  <1>1. P \in Table /\ once \in Table
    BY PrunedFacts, ProvisionedFacts
  <1>2. ASSUME NEW task \in m.tasks
        PROVE  /\ task.slot \in Slot /\ once[task.slot] # None
               /\ TaskAt(once, task.slot) = TaskId(m, task)
    BY <1>1, SlotFacts, ProvisionedFacts, MarkAssumption
  <1>3. ASSUME NEW s \in Slot, \A task \in m.tasks : task.slot # s
        PROVE  once[s] = IF Duplicate(t, m, s) THEN None ELSE t[s]
    BY <1>1, <1>3, SlotFacts, PrunedFacts
  <1>4. ASSUME NEW s \in Slot PROVE ~ Duplicate(once, m, s)
    <2> SUFFICES ASSUME Duplicate(once, m, s) PROVE FALSE
      OBVIOUS
    <2>1. m.prune /\ once[s] # None
      BY DEF Duplicate
    <2>2. PICK a \in m.tasks : TaskAt(once, s) = TaskId(m, a) /\ s # a.slot
      BY DEF Duplicate
    <2>3. CASE \E task \in m.tasks : task.slot = s
      <3>1. PICK task \in m.tasks : task.slot = s
        BY <2>3
      <3>2. task.file = a.file
        BY <1>2, <2>2, <3>1 DEF TaskId
      <3> QED BY <2>2, <3>1, <3>2, ManifestAssumption
    <2>4. CASE \A task \in m.tasks : task.slot # s
      <3>1. once[s] = t[s] /\ ~ Duplicate(t, m, s)
        BY <1>3, <2>1, <2>4
      <3> QED BY <2>1, <2>2, <3>1 DEF Duplicate, TaskAt
    <2> QED BY <2>3, <2>4
  <1>5. Pruned(once, m) = once
    BY <1>1, <1>4 DEF Pruned, Table
  <1>6. ~ Refused(once, m)
    BY <1>2 DEF Refused
  <1>7. Provisioned(once, m) = once
    <2>1. ASSUME NEW s \in Slot PROVE Provisioned(once, m)[s] = once[s]
      <3>1. CASE \E task \in m.tasks : task.slot = s
        <4>1. PICK task \in m.tasks : task.slot = s
          BY <3>1
        <4>2. once[s] = IF task.adopt THEN Adopted(m, task, P[s])
                        ELSE IF Configured(m, task, P[s]) THEN P[s] ELSE Written(m, task)
          BY <1>1, <4>1, SlotFacts
        <4>3. Provisioned(once, m)[s] =
                IF task.adopt THEN Adopted(m, task, once[s])
                ELSE IF Configured(m, task, once[s]) THEN once[s] ELSE Written(m, task)
          BY <1>1, <4>1, SlotFacts
        <4>4. CASE task.adopt
          <5>1. once[s] = Adopted(m, task, P[s])
            BY <4>2, <4>4
          <5>2. Adopted(m, task, Adopted(m, task, P[s])) = Adopted(m, task, P[s])
            BY DEF Adopted
          <5> QED BY <4>3, <4>4, <5>1, <5>2
        <4>5. CASE ~ task.adopt /\ Configured(m, task, P[s])
          BY <4>2, <4>3, <4>5
        <4>6. CASE ~ task.adopt /\ ~ Configured(m, task, P[s])
          <5>1. once[s] = Written(m, task) /\ once[s] # None
            BY <1>2, <4>1, <4>2, <4>6
          <5>2. Configured(m, task, once[s])
            BY <4>6, <5>1 DEF Configured, Written
          <5> QED BY <4>3, <4>6, <5>2
        <4> QED BY <4>4, <4>5, <4>6
      <3>2. CASE \A task \in m.tasks : task.slot # s
        BY <1>1, <3>2, SlotFacts
      <3> QED BY <3>1, <3>2
    <2>2. Provisioned(once, m) = [s \in Slot |-> Provisioned(once, m)[s]]
      BY DEF Provisioned
    <2>3. once = [s \in Slot |-> once[s]]
      BY <1>1 DEF Table
    <2> QED BY <2>1, <2>2, <2>3
  <1>8. ASSUME NEW s \in Slot \ {task.slot : task \in m.tasks}, t[s].title # m.title
        PROVE  once[s] = t[s]
    <2>1. ~ Duplicate(t, m, s)
      BY <1>8 DEF Duplicate, TaskAt, TaskId
    <2> QED BY <1>3, <1>8, <2>1
  <1> QED BY <1>4, <1>5, <1>6, <1>7, <1>8

\* What the preflight reports of an entry that is the task's own.
LEMMA IssueFacts ==
  ASSUME NEW t, NEW m, NEW task, t[task.slot] # None, TaskAt(t, task.slot) = TaskId(m, task),
         NEW i \in TaskIssues(t, m, task)
  PROVE  \/ i = "task_type_mismatch" /\ t[task.slot].kind # Channel
         \/ i = "task_endpoint_mismatch" /\ t[task.slot].url # Url(m, task)
         \/ i = "task_signature_flag_mismatch"
              /\ ("unsigned" \in t[task.slot].flags) # task.unsigned
         \/ i = "task_created_flags_mismatch"
              /\ ~ task.adopt /\ t[task.slot].flags # CreatedFlags(task)
         \/ i = "task_decryption_flag_missing"
              /\ task.encrypted /\ ~ {"native", "decrypt"} \subseteq t[task.slot].flags
  BY DEF TaskIssues

\* And nothing that holds of an entry goes unreported.
LEMMA IssuesOf ==
  ASSUME NEW t, NEW m, NEW task, t[task.slot] # None, TaskAt(t, task.slot) = TaskId(m, task),
         NEW i,
         \/ i = "task_type_mismatch" /\ t[task.slot].kind # Channel
         \/ i = "task_endpoint_mismatch" /\ t[task.slot].url # Url(m, task)
         \/ i = "task_signature_flag_mismatch"
              /\ ("unsigned" \in t[task.slot].flags) # task.unsigned
         \/ i = "task_created_flags_mismatch"
              /\ ~ task.adopt /\ t[task.slot].flags # CreatedFlags(task)
         \/ i = "task_decryption_flag_missing"
              /\ task.encrypted /\ ~ {"native", "decrypt"} \subseteq t[task.slot].flags
  PROVE  i \in TaskIssues(t, m, task)
  BY DEF TaskIssues

\* A slot that is empty or holds another entry does not pass.
LEMMA PassFacts ==
  ASSUME NEW t, NEW m, Passes(t, m), NEW task \in m.tasks
  PROVE  t[task.slot] # None /\ TaskAt(t, task.slot) = TaskId(m, task)
  <1>1. "task_not_registered" \notin Inherited(task)
        /\ "task_slot_occupied_by_other_entry" \notin Inherited(task)
    BY DEF Inherited
  <1> QED BY <1>1 DEF Passes, TaskIssues

\* What provision leaves passes for its manifest.
LEMMA OwnPasses ==
  ASSUME NEW t \in Table, NEW m \in Manifest, ~ Refused(t, m)
  PROVE  Passes(Provisioned(t, m), m)
  <1> DEFINE once == Provisioned(t, m)
  <1> SUFFICES ASSUME NEW task \in m.tasks, NEW i \in TaskIssues(once, m, task)
               PROVE  i \in Inherited(task)
    BY DEF Passes
  <1>1. once[task.slot] # None /\ TaskAt(once, task.slot) = TaskId(m, task)
    BY ProvisionedFacts, MarkAssumption
  <1> DEFINE e == once[task.slot]
  <1>2. once[task.slot] = IF task.adopt THEN Adopted(m, task, t[task.slot])
            ELSE IF Configured(m, task, t[task.slot]) THEN t[task.slot]
            ELSE Written(m, task)
    BY SlotFacts
  <1>3. task.unsigned \in BOOLEAN /\ task.adopt \in BOOLEAN /\ (task.encrypted => ~ task.unsigned)
    BY ManifestAssumption
  <1>4. \/ i = "task_type_mismatch" /\ e.kind # Channel
        \/ i = "task_endpoint_mismatch" /\ e.url # Url(m, task)
        \/ i = "task_signature_flag_mismatch" /\ ("unsigned" \in e.flags) # task.unsigned
        \/ i = "task_created_flags_mismatch" /\ ~ task.adopt /\ e.flags # CreatedFlags(task)
        \/ i = "task_decryption_flag_missing"
             /\ task.encrypted /\ ~ {"native", "decrypt"} \subseteq e.flags
    BY <1>1, IssueFacts
  <1>5. CASE ~ task.adopt
    <2>1. e.url = Url(m, task) /\ e.flags = CreatedFlags(task) /\ e.kind = Channel
      BY <1>2, <1>5 DEF Configured, Written
    <2>2. ("unsigned" \in e.flags) = task.unsigned
          /\ (task.encrypted => {"native", "decrypt"} \subseteq e.flags)
      BY <1>3, <2>1 DEF CreatedFlags
    <2> QED BY <1>4, <1>5, <2>1, <2>2
  <1>6. CASE task.adopt /\ task.unsigned
    <2>1. e.url = Url(m, task) /\ e.flags = (t[task.slot].flags \cup {"unsigned"}) \ {"decrypt"}
      BY <1>2, <1>6 DEF Adopted
    <2>2. ("unsigned" \in e.flags) = task.unsigned /\ ~ task.encrypted
      BY <1>3, <1>6, <2>1
    <2> QED BY <1>4, <1>6, <2>1, <2>2 DEF Inherited
  <1>7. CASE task.adopt /\ ~ task.unsigned
    <2>1. e.url = Url(m, task)
      BY <1>2, <1>7 DEF Adopted
    <2> QED BY <1>4, <1>7, <2>1 DEF Inherited
  <1> QED BY <1>3, <1>5, <1>6, <1>7

\* Whatever passed for a manifest that shares no task still passes.
LEMMA OthersPass ==
  ASSUME ManifestsApart, NEW t \in Table, NEW m \in Manifest, NEW n \in Manifest, m # n,
         ~ Refused(Pruned(t, m), m), Passes(t, n)
  PROVE  Passes(Provisioned(Pruned(t, m), m), n)
  <1> DEFINE P == Pruned(t, m)
             once == Provisioned(P, m)
  <1>1. ASSUME NEW b \in n.tasks PROVE once[b.slot] = t[b.slot]
    <2>1. b.slot \in Slot /\ t[b.slot] # None /\ TaskAt(t, b.slot) = TaskId(n, b)
      BY PassFacts, SlotFacts
    <2>2. P \in Table /\ P[b.slot] = t[b.slot]
      BY <2>1, PrunedFacts DEF Duplicate, ManifestsApart
    <2>3. ASSUME NEW a \in m.tasks PROVE a.slot # b.slot
      <3>1. TaskAt(P, b.slot) = TaskId(n, b) /\ P[b.slot] # None
        BY <2>1, <2>2 DEF TaskAt
      <3> QED BY <3>1 DEF Refused, ManifestsApart
    <2> QED BY <2>1, <2>2, <2>3, SlotFacts
  <1>2. ASSUME NEW b \in n.tasks PROVE TaskIssues(once, n, b) = TaskIssues(t, n, b)
    BY <1>1 DEF TaskIssues, TaskAt
  <1> QED BY <1>2 DEF Passes

------------------------------------------------------------------------------
(* What the steps of a command do. *)

\* What a command holds, by where it stands.
LEMMA StateFacts ==
  ASSUME TypeOK, NEW p \in Tool
  PROVE  /\ proc[p] \in State
         /\ proc[p].pc \in {"ended", "identify", "register", "read"} \cup Holding
         /\ proc[p] # Ended => proc[p].job \in Job
         /\ proc[p] = Ended => proc[p].pc = "ended"
         /\ proc[p].pc \in {"identify", "register"} => proc[p].job = Mail
         /\ proc[p].pc = "register" => proc[p].known \in Config /\ proc[p].snapshot \in Accounts
         /\ proc[p].pc = "read" /\ proc[p].job = Mail
              => proc[p].known \in Config /\ proc[p].credentials \in Nat \ {0}
  BY DEF TypeOK, State, Ended, Holding, Mail, Job, ConfigJob, ProvisionJob

\* What a process in the middle of its job keeps.
LEMMA HoldFacts ==
  ASSUME TypeOK, NEW p \in Tool, proc[p].pc \in Holding
  PROVE  /\ proc[p] = [pc |-> proc[p].pc, job |-> proc[p].job,
                       new |-> proc[p].new, old |-> proc[p].old]
         /\ proc[p].job \in Job /\ FileOf(proc[p].job) \in {"table", "config"}
         /\ \/ /\ proc[p].job \in ProvisionJob /\ proc[p].new \in Table
               /\ proc[p].old \in Table /\ Holds(p, "table")
            \/ /\ proc[p].job \in ConfigJob /\ proc[p].new \in Config
               /\ proc[p].old \in Config /\ Holds(p, "config")
         /\ proc[p].new # Torn /\ proc[p].old # Torn
  <1>1. /\ proc[p] = [pc |-> proc[p].pc, job |-> proc[p].job,
                      new |-> proc[p].new, old |-> proc[p].old]
        /\ proc[p].job \in Job
        /\ \/ proc[p].job \in ProvisionJob /\ proc[p].new \in Table /\ proc[p].old \in Table
           \/ proc[p].job \in ConfigJob /\ proc[p].new \in Config /\ proc[p].old \in Config
    BY DEF TypeOK, State, Ended, Holding, Job, Mail, ConfigJob, ProvisionJob
  <1> QED BY <1>1, JobFacts, MarkAssumption DEF Holds

\* A step changes what its own command holds, and nothing else.
LEMMA StepFacts ==
  ASSUME TypeOK, NEW p \in Tool, NEW st \in State, Step(p, st)
  PROVE  /\ proc' \in [Tool -> State] /\ proc'[p] = st
         /\ \A q \in Tool \ {p} : proc'[q] = proc[q]
  BY DEF TypeOK, Step

\* What is left of a record with another pc.
LEMMA Exchange ==
  \A r, a, b, c, d, to :
    r = [pc |-> a, job |-> b, new |-> c, old |-> d]
      => [r EXCEPT !.pc = to] = [pc |-> to, job |-> b, new |-> c, old |-> d]
  <1> SUFFICES ASSUME NEW r, NEW a, NEW b, NEW c, NEW d, NEW to,
                      r = [pc |-> a, job |-> b, new |-> c, old |-> d]
               PROVE  [r EXCEPT !.pc = to] = [pc |-> to, job |-> b, new |-> c, old |-> d]
    OBVIOUS
  <1>1. [[pc |-> a, job |-> b, new |-> c, old |-> d] EXCEPT !.pc = to]
          = [pc |-> to, job |-> b, new |-> c, old |-> d]
    OBVIOUS
  <1> QED BY <1>1

\* The next state of a command that holds a file.
LEMMA MoveFacts ==
  ASSUME TypeOK, NEW p \in Tool, proc[p].pc \in Holding, NEW to \in Holding
  PROVE  /\ [proc[p] EXCEPT !.pc = to] \in State
         /\ [proc[p] EXCEPT !.pc = to] = [pc |-> to, job |-> proc[p].job,
                                          new |-> proc[p].new, old |-> proc[p].old]
  <1>1. proc[p] = [pc |-> proc[p].pc, job |-> proc[p].job,
                   new |-> proc[p].new, old |-> proc[p].old]
    BY HoldFacts
  <1>2. [proc[p] EXCEPT !.pc = to] = [pc |-> to, job |-> proc[p].job,
                                      new |-> proc[p].new, old |-> proc[p].old]
    BY ONLY <1>1, Exchange
  <1> QED BY <1>2, HoldFacts DEF State

\* A process starts.
LEMMA StartFacts ==
  ASSUME TypeOK, NEW p \in Tool, Start(p)
  PROVE  /\ proc' \in [Tool -> State] /\ \A q \in Tool \ {p} : proc'[q] = proc[q]
         /\ proc'[p].pc = "identify" \/ (proc'[p].pc = "read" /\ proc'[p].job # Mail)
  <1>1. PICK job \in Job :
          Step(p, [pc |-> IF job.kind = "mail" THEN "identify" ELSE "read", job |-> job])
    BY DEF Start
  <1>2. job.kind = "mail" <=> job = Mail
    BY DEF Job, Mail
  <1>3. [pc |-> IF job.kind = "mail" THEN "identify" ELSE "read", job |-> job] \in State
    BY <1>2 DEF State
  <1> QED BY <1>1, <1>2, <1>3, StepFacts

\* A process reads the configuration for the console's id.
LEMMA IdentifyFacts ==
  ASSUME TypeOK, NEW p \in Tool, Identify(p)
  PROVE  /\ proc' \in [Tool -> State] /\ \A q \in Tool \ {p} : proc'[q] = proc[q]
         /\ \/ proc'[p] = Ended
            \/ /\ proc'[p].pc = "register" /\ proc'[p].known = config
               /\ proc'[p].snapshot = accounts /\ accounts[config.id] = None
            \/ /\ proc'[p].pc = "read" /\ proc'[p].job = Mail /\ proc'[p].known = config
               /\ proc'[p].credentials = accounts[config.id]
  <1>1. proc[p].job = Mail
    BY StateFacts DEF Identify
  <1>2. CASE Step(p, Ended)
    BY <1>2, StepFacts DEF State
  <1> DEFINE reg == [pc |-> "register", job |-> proc[p].job, known |-> config,
                     snapshot |-> accounts]
             rd  == [pc |-> "read", job |-> proc[p].job, known |-> config,
                     credentials |-> accounts[config.id]]
  <1>3. CASE config # Torn /\ accounts[config.id] = None /\ Step(p, reg)
    <2>1. reg \in State
      BY <1>1, <1>3 DEF State, TypeOK
    <2> QED BY <1>3, <2>1, StepFacts
  <1>4. CASE config # Torn /\ accounts[config.id] # None /\ Step(p, rd)
    <2>1. config \in Config /\ config.id \in {Console, NoId}
      BY <1>4 DEF TypeOK, Config
    <2>2. accounts[config.id] \in Nat \ {0}
      BY <1>4, <2>1 DEF TypeOK, Accounts
    <2>3. rd \in State
      BY <1>1, <2>1, <2>2 DEF State
    <2> QED BY <1>1, <1>4, <2>3, StepFacts
  <1> QED BY <1>2, <1>3, <1>4 DEF Identify

\* It registers the account.
LEMMA RegisterFacts ==
  ASSUME TypeOK, NEW p \in Tool, RegisterAccount(p)
  PROVE  /\ proc' \in [Tool -> State] /\ \A q \in Tool \ {p} : proc'[q] = proc[q]
         /\ proc[p].known.id \in {Console, NoId} /\ proc[p].snapshot \in Accounts
         /\ fresh + 1 \in Nat \ {0} /\ accounts' \in Accounts
         /\ accounts' = [proc[p].snapshot EXCEPT ![proc[p].known.id] = fresh + 1]
         /\ proc'[p].pc = "read" /\ proc'[p].known = proc[p].known
         /\ proc'[p].credentials = fresh + 1 /\ proc'[p].job = Mail
         /\ raced' = IF accounts = proc[p].snapshot THEN raced ELSE raced \cup {"accounts"}
  <1> DEFINE st == [pc |-> "read", job |-> proc[p].job, known |-> proc[p].known,
                    credentials |-> fresh + 1]
  <1>1. /\ proc[p].known \in Config /\ proc[p].snapshot \in Accounts /\ proc[p].job = Mail
        /\ fresh + 1 \in Nat \ {0}
    BY StateFacts DEF RegisterAccount, TypeOK
  <1>2. st \in State
    BY <1>1 DEF State
  <1>3. proc[p].known.id \in {Console, NoId}
    BY <1>1 DEF Config
  <1>4. Step(p, st)
    BY DEF RegisterAccount
  <1>5. proc' \in [Tool -> State] /\ proc'[p] = st /\ \A q \in Tool \ {p} : proc'[q] = proc[q]
    BY <1>2, <1>4, StepFacts
  <1>6. accounts' = [proc[p].snapshot EXCEPT ![proc[p].known.id] = fresh + 1]
    BY DEF RegisterAccount
  <1>7. accounts' \in Accounts
    BY <1>1, <1>3, <1>6 DEF Accounts
  <1> QED BY <1>1, <1>3, <1>5, <1>6, <1>7 DEF RegisterAccount, Expects

\* The table is read and a new one computed.
LEMMA ReadTableFacts ==
  ASSUME TypeOK, NEW p \in Tool, ReadTable(p)
  PROVE  /\ proc' \in [Tool -> State] /\ \A q \in Tool \ {p} : proc'[q] = proc[q]
         /\ \/ proc'[p] = Ended
            \/ /\ table \in Table /\ proc'[p].job \in ProvisionJob /\ proc'[p].pc = "backup"
               /\ proc'[p].old = table
               /\ LET m == proc'[p].job.manifest IN
                  /\ ~ Refused(Pruned(table, m), m)
                  /\ proc'[p].new = Provisioned(Pruned(table, m), m)
  <1>1. proc[p].job \in ProvisionJob /\ FileOf(proc[p].job) = "table"
        /\ proc[p].job.manifest \in Manifest
    BY StateFacts, JobFacts DEF ReadTable, Ended
  <1> DEFINE m == proc[p].job.manifest
             new == Provisioned(Pruned(table, m), m)
             st == [pc |-> "backup", job |-> proc[p].job, new |-> new, old |-> table]
  <1>2. CASE Step(p, Ended)
    BY <1>2, StepFacts DEF State
  <1>3. CASE table # Torn /\ ~ Refused(Pruned(table, m), m) /\ Hold(p, new)
    <2>1. table \in Table /\ Pruned(table, m) \in Table
      BY <1>1, <1>3, PrunedFacts DEF TypeOK
    <2>2. new \in Table
      BY <1>1, <1>3, <2>1, ProvisionedFacts
    <2>3. st \in State
      BY <1>1, <2>1, <2>2 DEF State, Holding
    <2>4. Step(p, st)
      BY <1>1, <1>3 DEF Hold, Content
    <2> QED BY <1>1, <1>3, <2>1, <2>3, <2>4, StepFacts
  <1> QED BY <1>2, <1>3 DEF ReadTable

\* The configuration is read and a new one computed.
LEMMA ReadConfigFacts ==
  ASSUME TypeOK, NEW p \in Tool, ReadConfig(p)
  PROVE  /\ proc' \in [Tool -> State] /\ \A q \in Tool \ {p} : proc'[q] = proc[q]
         /\ raced' \subseteq raced \cup {"config"} /\ raced \subseteq raced'
         /\ \/ proc'[p] = Ended
            \/ /\ config \in Config /\ proc'[p].job \in ConfigJob /\ proc'[p].pc = "backup"
               /\ \/ /\ proc[p].job = Mail /\ config.stage = "registered"
                     /\ proc'[p].new = MailConfigured(config, proc[p].credentials)
                     /\ "config" \notin raced' => config = proc[p].known
                  \/ /\ config.id # NoId /\ proc'[p].new = Bootstrapped(config)
                     /\ config.stage # "initial"
  <1>1. proc[p].job \in ConfigJob /\ FileOf(proc[p].job) = "config"
        /\ (proc[p].job.kind = "mail" <=> proc[p].job = Mail)
        /\ (proc[p].job = Mail => proc[p].credentials \in Nat \ {0})
    BY StateFacts, JobFacts DEF ReadConfig, Ended, ConfigJob, Mail
  <1> DEFINE new == IF proc[p].job.kind = "mail"
                      THEN MailConfigured(config, proc[p].credentials)
                      ELSE Bootstrapped(config)
             fit == IF proc[p].job.kind = "mail" THEN config.stage = "registered"
                    ELSE config.id # NoId /\ config.stage \in {"generated", "registered"}
             st == [pc |-> "backup", job |-> proc[p].job, new |-> new, old |-> config]
  <1>2. /\ proc[p].job.kind = "mail" =>
             raced' = IF config = proc[p].known THEN raced ELSE raced \cup {"config"}
        /\ proc[p].job.kind # "mail" => raced' = raced
    BY DEF ReadConfig, Expects
  <1>3. CASE Step(p, Ended)
    BY <1>2, <1>3, StepFacts DEF State
  <1>4. CASE config # Torn /\ fit /\ Hold(p, new)
    <2>1. config \in Config
      BY <1>4 DEF TypeOK
    <2>2. MailConfigured(config, proc[p].credentials) \in Config \/ proc[p].job # Mail
      BY <1>1, <2>1 DEF MailConfigured, Config
    <2>3. Bootstrapped(config) \in Config
      BY <2>1 DEF Bootstrapped, Config
    <2>4. new \in Config
      BY <1>1, <2>2, <2>3
    <2>5. st \in State
      BY <1>1, <2>1, <2>4 DEF State, Holding
    <2>6. Step(p, st)
      BY <1>1, <1>4 DEF Hold, Content
    <2>7. proc' \in [Tool -> State] /\ proc'[p] = st /\ \A q \in Tool \ {p} : proc'[q] = proc[q]
      BY <2>5, <2>6, StepFacts
    <2>8. CASE proc[p].job = Mail
      BY <1>1, <1>2, <1>4, <2>1, <2>7, <2>8
    <2>9. CASE proc[p].job # Mail
      BY <1>1, <1>2, <1>4, <2>1, <2>7, <2>9
    <2> QED BY <2>8, <2>9
  <1> QED BY <1>3, <1>4 DEF ReadConfig

\* A backup is made.
LEMMA CopyFacts ==
  ASSUME TypeOK, NEW p \in Tool, CopyBackup(p)
  PROVE  LET f == FileOf(proc[p].job) IN
         /\ proc' \in [Tool -> State] /\ \A q \in Tool \ {p} : proc'[q] = proc[q]
         /\ proc[p].pc \in Holding /\ f \in {"table", "config"}
         /\ proc'[p].pc = "truncate" /\ proc'[p].job = proc[p].job
         /\ proc'[p].new = proc[p].new /\ proc'[p].old = proc[p].old
         /\ \E copy \in Copies(f) :
              /\ copy[1] = f
              /\ backup' = [backup EXCEPT ![copy] = Content(f)]
              /\ raced' = IF Content(f) = proc[p].old /\ ~ Replaces(p, copy, Content(f))
                            THEN raced ELSE raced \cup {f}
  <1> DEFINE f == FileOf(proc[p].job)
  <1>1. proc[p].pc \in Holding /\ f \in {"table", "config"} /\ Label(proc[p].job) \in Labels(f)
    BY HoldFacts, JobFacts DEF CopyBackup, Holding, Holds
  <1>2. /\ proc' \in [Tool -> State] /\ \A q \in Tool \ {p} : proc'[q] = proc[q]
        /\ proc'[p] = [pc |-> "truncate", job |-> proc[p].job,
                       new |-> proc[p].new, old |-> proc[p].old]
    BY <1>1, StepFacts, MoveFacts DEF CopyBackup, Holding
  <1>r. /\ proc'[p].pc = "truncate" /\ proc'[p].job = proc[p].job
        /\ proc'[p].new = proc[p].new /\ proc'[p].old = proc[p].old
    BY <1>2
  <1>3. PICK now \in Second :
          LET copy == <<f, Label(proc[p].job), now>> IN
          /\ backup' = [backup EXCEPT ![copy] = Content(f)]
          /\ raced' = IF Content(f) = proc[p].old /\ ~ Replaces(p, copy, Content(f))
                        THEN raced ELSE raced \cup {f}
    BY DEF CopyBackup
  <1>4. <<f, Label(proc[p].job), now>> \in Copies(f)
    BY <1>1 DEF Copies
  <1> QED BY <1>1, <1>2, <1>r, <1>3, <1>4

\* The file is cut.
LEMMA TruncateFacts ==
  ASSUME TypeOK, NEW p \in Tool, Truncate(p)
  PROVE  LET f == FileOf(proc[p].job) IN
         /\ proc' \in [Tool -> State] /\ \A q \in Tool \ {p} : proc'[q] = proc[q]
         /\ proc[p].pc \in Holding /\ f \in {"table", "config"}
         /\ proc'[p].pc = "write" /\ proc'[p].job = proc[p].job
         /\ proc'[p].new = proc[p].new /\ proc'[p].old = proc[p].old
         /\ f = "table" => table' = Torn /\ config' = config
         /\ f = "config" => config' = Torn /\ table' = table
         /\ raced' = IF Content(f) = proc[p].old THEN raced ELSE raced \cup {f}
         /\ cut' = [cut EXCEPT ![f] = Content(f)]
  <1> DEFINE f == FileOf(proc[p].job)
  <1>1. proc[p].pc \in Holding /\ f \in {"table", "config"}
        /\ (EditsTable(proc[p].job) <=> f = "table")
    BY HoldFacts, JobFacts DEF Truncate, Holding, Holds
  <1>2. /\ proc' \in [Tool -> State] /\ \A q \in Tool \ {p} : proc'[q] = proc[q]
        /\ proc'[p] = [pc |-> "write", job |-> proc[p].job,
                       new |-> proc[p].new, old |-> proc[p].old]
    BY <1>1, StepFacts, MoveFacts DEF Truncate, Holding
  <1>r. /\ proc'[p].pc = "write" /\ proc'[p].job = proc[p].job
        /\ proc'[p].new = proc[p].new /\ proc'[p].old = proc[p].old
    BY <1>2
  <1> QED BY <1>1, <1>2, <1>r DEF Truncate, Expects

\* The file is written.
LEMMA WriteFacts ==
  ASSUME TypeOK, NEW p \in Tool, WriteFile(p)
  PROVE  LET f == FileOf(proc[p].job) IN
         /\ proc' \in [Tool -> State] /\ \A q \in Tool \ {p} : proc'[q] = proc[q]
         /\ proc[p].pc \in Holding /\ f \in {"table", "config"} /\ proc'[p] = Ended
         /\ proc'[p].pc = "ended" /\ proc[p].pc = "write"
         /\ backup' = backup /\ accounts' = accounts
         /\ f = "table" => /\ table' = proc[p].new /\ table' \in Table /\ config' = config
                           /\ proc[p].job.manifest \in Manifest
                           /\ provided' = provided \cup {proc[p].job.manifest}
         /\ f = "config" => /\ config' = proc[p].new /\ config' \in Config
                            /\ table' = table /\ provided' = provided
         /\ raced' = IF Content(f) = Torn THEN raced ELSE raced \cup {f}
         /\ cut' = [cut EXCEPT ![f] = None]
  <1> DEFINE f == FileOf(proc[p].job)
  <1>1. proc[p].pc \in Holding /\ f \in {"table", "config"}
        /\ (EditsTable(proc[p].job) <=> f = "table")
        /\ (f = "table" => proc[p].new \in Table /\ proc[p].job.manifest \in Manifest)
        /\ (f = "config" => proc[p].new \in Config)
    BY HoldFacts, JobFacts DEF WriteFile, Holding, Holds
  <1>2. /\ proc' \in [Tool -> State] /\ \A q \in Tool \ {p} : proc'[q] = proc[q]
        /\ proc'[p] = Ended
    BY StepFacts DEF WriteFile, State
  <1>3. proc'[p].pc = "ended"
    BY <1>2 DEF Ended
  <1> QED BY <1>1, <1>2, <1>3 DEF WriteFile, Expects

\* A process ends or dies.
LEMMA StopFacts ==
  ASSUME TypeOK, NEW p \in Tool, Stop(p)
  PROVE  /\ proc' \in [Tool -> State] /\ \A q \in Tool \ {p} : proc'[q] = proc[q]
         /\ proc'[p] = Ended
  BY StepFacts DEF Stop, State

\* The service replaces the accounts by its reading, with one more at most.
LEMMA ReplaceFacts ==
  ASSUME TypeOK, ServiceReplace
  PROVE  /\ accounts' \in Accounts /\ fresh' \in Nat
         /\ service.snapshot \in Accounts
         /\ \/ accounts' = service.snapshot
            \/ /\ service.snapshot[Console] = None
               /\ accounts' = [service.snapshot EXCEPT ![Console] = fresh + 1]
         /\ raced' = IF accounts = service.snapshot THEN raced ELSE raced \cup {"accounts"}
  <1>1. service.snapshot \in Accounts /\ fresh + 1 \in Nat \ {0}
    BY DEF TypeOK, ServiceReplace
  <1>2. [service.snapshot EXCEPT ![Console] = fresh + 1] \in Accounts
    BY <1>1 DEF Accounts
  <1> QED BY <1>1, <1>2 DEF ServiceReplace, Expects, TypeOK

------------------------------------------------------------------------------
(* The parts of the invariant, each preserved by every step. *)

\* The content of a file is of the file's type.
LEMMA ContentFacts ==
  ASSUME TypeOK, NEW f \in {"table", "config"}
  PROVE  /\ Content(f) \in Table \cup Config \cup {Torn}
         /\ f = "table" => Content(f) = table
         /\ f = "config" => Content(f) = config
  BY DEF TypeOK, Content

\* The scheduler's visit leaves a table.
LEMMA VisitFacts ==
  ASSUME TypeOK, NEW s \in Slot, RunTask(s)
  PROVE  /\ table \in Table /\ table' \in Table
         /\ table' = [table EXCEPT ![s].due = FALSE]
         /\ \A r \in Slot : /\ table'[r] = None <=> table[r] = None
                            /\ table[r] # None =>
                                 /\ table'[r].title = table[r].title
                                 /\ table'[r].file = table[r].file
                                 /\ table'[r].url = table[r].url
                                 /\ table'[r].flags = table[r].flags
                                 /\ table'[r].kind = table[r].kind
  <1>1. table \in Table /\ table[s] \in Entry /\ table' = [table EXCEPT ![s].due = FALSE]
    BY DEF TypeOK, RunTask, Table
  <1> DEFINE e == table[s]
             visited == [e EXCEPT !.due = FALSE]
  <1>2. /\ visited \in Entry /\ visited.title = e.title /\ visited.file = e.file
        /\ visited.url = e.url /\ visited.flags = e.flags /\ visited.kind = e.kind
    BY <1>1 DEF Entry
  <1>3. table' = [table EXCEPT ![s] = visited]
    BY <1>1
  <1>4. table' \in Table /\ table'[s] = visited /\ \A r \in Slot \ {s} : table'[r] = table[r]
    BY <1>1, <1>2, <1>3 DEF Table
  <1> HIDE DEF visited
  <1> QED BY <1>1, <1>2, <1>4, MarkAssumption

\* What is provisioned or initial is of its type.
LEMMA InitInv == Init => IInv
  <1> SUFFICES ASSUME Init PROVE IInv
    OBVIOUS
  <1>1. TypeOK
    <2>1. config \in Config
      <3>1. ASSUME NEW id \in {Console, NoId}, NEW stage \in {"initial", "generated", "registered"},
                   NEW booting \in BOOLEAN
            PROVE  Profile(id, stage, booting) \in Config
        BY DEF Profile, Config
      <3> QED BY <3>1 DEF Init
    <2>2. table \in Table
      BY TableAssumption DEF Init
    <2>3. proc \in [Tool -> State]
      BY DEF Init, State
    <2> QED BY <2>1, <2>2, <2>3 DEF Init, TypeOK, Accounts
  <1>2. \A p \in Tool : proc[p].pc = "ended"
    BY DEF Init, Ended
  <1>3. HeldOK /\ CopyOK /\ WriteOK /\ KnownOK /\ CredentialsOK
    BY <1>2 DEF HeldOK, CopyOK, WriteOK, KnownOK, CredentialsOK, Holds, Holding
  <1>4. FitOK
    <2>1. Fit(config)
      BY DEF Init, Profile, Fit
    <2> QED BY <1>2, <2>1 DEF FitOK, Holds, Holding
  <1>5. CutOK /\ TornFileHasABackup
    BY DEF Init, CutOK, TornFileHasABackup
  <1>6. ConfiguredConsoleIsKnown
    BY DEF Init, Profile, ConfiguredConsoleIsKnown
  <1>7. OwnServiceOutlivesConsole
    BY DEF Init, OwnServiceOutlivesConsole
  <1> QED BY <1>1, <1>3, <1>4, <1>5, <1>6, <1>7 DEF IInv

\* Every step keeps the types.
LEMMA NextType == IInv /\ [Next]_vars => TypeOK'
  <1> SUFFICES ASSUME IInv, [Next]_vars PROVE TypeOK'
    OBVIOUS
  <1> USE DEF IInv
  <1>1. ASSUME NEW p \in Tool, Start(p) PROVE TypeOK'
    <2>1. runs' \in Nat
      BY <1>1 DEF TypeOK, Start
    <2> QED BY <1>1, <2>1, StartFacts DEF Start, TypeOK, files, processes, observers
  <1>2. ASSUME NEW p \in Tool, Identify(p) PROVE TypeOK'
    BY <1>2, IdentifyFacts DEF Identify, TypeOK, files, processes, observers
  <1>3. ASSUME NEW p \in Tool, RegisterAccount(p) PROVE TypeOK'
    <2>1. fresh' \in Nat /\ raced' \subseteq {"table", "config", "accounts"}
      BY <1>3, RegisterFacts DEF TypeOK, RegisterAccount
    <2> QED
      BY <1>3, <2>1, RegisterFacts
         DEF RegisterAccount, TypeOK, files, processes, observers
  <1>4. ASSUME NEW p \in Tool, ReadTable(p) PROVE TypeOK'
    BY <1>4, ReadTableFacts DEF ReadTable, TypeOK, files, processes, observers
  <1>5. ASSUME NEW p \in Tool, ReadConfig(p) PROVE TypeOK'
    BY <1>5, ReadConfigFacts DEF ReadConfig, TypeOK, files, processes, observers
  <1>6. ASSUME NEW p \in Tool, CopyBackup(p) PROVE TypeOK'
    <2> DEFINE f == FileOf(proc[p].job)
    <2>1. PICK copy \in Copies(f) :
            /\ backup' = [backup EXCEPT ![copy] = Content(f)]
            /\ raced' \in {raced, raced \cup {f}}
      BY <1>6, CopyFacts
    <2>2. proc' \in [Tool -> State] /\ f \in {"table", "config"}
      BY <1>6, CopyFacts
    <2>3. Content(f) \in Table \cup Config \cup {Torn}
      BY <2>2, ContentFacts
    <2>4. backup' \in [Copies("table") \cup Copies("config") -> Table \cup Config \cup {Torn, None}]
      BY <2>1, <2>2, <2>3 DEF TypeOK
    <2>5. raced' \subseteq {"table", "config", "accounts"}
      BY <2>1, <2>2 DEF TypeOK
    <2> QED BY <1>6, <2>2, <2>4, <2>5 DEF TypeOK, CopyBackup
  <1>7. ASSUME NEW p \in Tool, Truncate(p) PROVE TypeOK'
    <2> DEFINE f == FileOf(proc[p].job)
    <2>1. /\ f \in {"table", "config"} /\ proc' \in [Tool -> State]
          /\ raced' \in {raced, raced \cup {f}}
          /\ cut' \in {[cut EXCEPT ![f] = Content(f)], [cut EXCEPT ![f] = None]}
      BY <1>7, TruncateFacts
    <2>2. Content(f) \in Table \cup Config \cup {Torn}
      BY <2>1, ContentFacts
    <2>3. /\ table' \in Table \cup {Torn} /\ config' \in Config \cup {Torn}
          /\ provided' \subseteq Manifest
      BY <1>7, <2>1, TruncateFacts DEF TypeOK, Truncate
    <2>4. cut' \in [{"table", "config"} -> Table \cup Config \cup {Torn, None}]
      BY <2>1, <2>2 DEF TypeOK
    <2>5. raced' \subseteq {"table", "config", "accounts"}
      BY <2>1 DEF TypeOK
    <2> QED BY <1>7, <2>1, <2>3, <2>4, <2>5 DEF TypeOK, Truncate
  <1>8. ASSUME NEW p \in Tool, WriteFile(p) PROVE TypeOK'
    <2> DEFINE f == FileOf(proc[p].job)
    <2>1. /\ f \in {"table", "config"} /\ proc' \in [Tool -> State]
          /\ raced' \in {raced, raced \cup {f}}
          /\ cut' \in {[cut EXCEPT ![f] = Content(f)], [cut EXCEPT ![f] = None]}
      BY <1>8, WriteFacts
    <2>2. Content(f) \in Table \cup Config \cup {Torn}
      BY <2>1, ContentFacts
    <2>3. /\ table' \in Table \cup {Torn} /\ config' \in Config \cup {Torn}
          /\ provided' \subseteq Manifest
      BY <1>8, <2>1, WriteFacts DEF TypeOK
    <2>4. cut' \in [{"table", "config"} -> Table \cup Config \cup {Torn, None}]
      BY <2>1, <2>2 DEF TypeOK
    <2>5. raced' \subseteq {"table", "config", "accounts"}
      BY <2>1 DEF TypeOK
    <2> QED BY <1>8, <2>1, <2>3, <2>4, <2>5 DEF TypeOK, WriteFile
  <1>9. ASSUME NEW p \in Tool, Stop(p) PROVE TypeOK'
    BY <1>9, StopFacts DEF Stop, TypeOK, files, processes, observers
  <1>10. ASSUME ServiceRead PROVE TypeOK'
    BY <1>10 DEF ServiceRead, TypeOK, files, processes, observers
  <1>11. ASSUME ServiceReplace PROVE TypeOK'
    BY <1>11, ReplaceFacts DEF ServiceReplace, TypeOK, files, processes, observers
  <1>12. ASSUME NEW l \in Launcher, Launch(l) PROVE TypeOK'
    BY <1>12 DEF Launch, TypeOK, files, processes, observers
  <1>13. ASSUME NEW l \in Launcher, HealthCheck(l) PROVE TypeOK'
    BY <1>13 DEF HealthCheck, TypeOK, files, processes, observers
  <1>14. ASSUME NEW l \in Launcher, ConsoleReturns(l) PROVE TypeOK'
    BY <1>14 DEF ConsoleReturns, TypeOK, files, processes, observers
  <1>15. ASSUME GenerateId PROVE TypeOK'
    <2>1. config' \in Config
      BY <1>15 DEF GenerateId, Profile, Config, TypeOK
    <2> QED BY <1>15, <2>1 DEF GenerateId, TypeOK, files, processes, observers
  <1>16. ASSUME NEW s \in Slot, RunTask(s) PROVE TypeOK'
    BY <1>16, VisitFacts DEF RunTask, TypeOK, files, processes, observers
  <1>17. CASE UNCHANGED vars
    BY <1>17 DEF vars, files, processes, observers, TypeOK
  <1> QED
    BY <1>1, <1>2, <1>3, <1>4, <1>5, <1>6, <1>7, <1>8, <1>9, <1>10, <1>11, <1>12, <1>13,
       <1>14, <1>15, <1>16, <1>17
       DEF Next

\* Every step keeps what the table commands hold in order.
LEMMA NextHeld == IInv /\ [Next]_vars => HeldOK'
  <1> SUFFICES ASSUME IInv, [Next]_vars PROVE HeldOK'
    OBVIOUS
  <1> USE DEF IInv
  <1>1. ASSUME NEW p \in Tool, Start(p) PROVE HeldOK'
    BY <1>1, StartFacts DEF HeldOK, Holds, Holding, Ended
  <1>2. ASSUME NEW p \in Tool, Identify(p) PROVE HeldOK'
    BY <1>2, IdentifyFacts DEF HeldOK, Holds, Holding, Ended
  <1>3. ASSUME NEW p \in Tool, RegisterAccount(p) PROVE HeldOK'
    BY <1>3, RegisterFacts DEF HeldOK, Holds, Holding, Ended
  <1>4. ASSUME NEW p \in Tool, ReadTable(p) PROVE HeldOK'
    BY <1>4, ReadTableFacts DEF HeldOK, Holds, Holding, Ended
  <1>5. ASSUME NEW p \in Tool, ReadConfig(p) PROVE HeldOK'
    <2>1. proc'[p] = Ended \/ FileOf(proc'[p].job) = "config"
      BY <1>5, ReadConfigFacts, JobFacts DEF ConfigJob, Job, Mail
    <2> QED BY <1>5, <2>1, ReadConfigFacts DEF HeldOK, Holds, Holding, Ended
  <1>6. ASSUME NEW p \in Tool, CopyBackup(p) PROVE HeldOK'
    <2>1. /\ proc[p].pc \in Holding /\ proc'[p].job = proc[p].job
          /\ proc'[p].new = proc[p].new /\ proc'[p].old = proc[p].old
          /\ \A q \in Tool \ {p} : proc'[q] = proc[q]
      BY <1>6, CopyFacts
    <2> QED BY <2>1 DEF HeldOK, Holds
  <1>7. ASSUME NEW p \in Tool, Truncate(p) PROVE HeldOK'
    <2>1. /\ proc[p].pc \in Holding /\ proc'[p].job = proc[p].job
          /\ proc'[p].new = proc[p].new /\ proc'[p].old = proc[p].old
          /\ \A q \in Tool \ {p} : proc'[q] = proc[q]
      BY <1>7, TruncateFacts
    <2> QED BY <2>1 DEF HeldOK, Holds
  <1>8. ASSUME NEW p \in Tool, WriteFile(p) PROVE HeldOK'
    BY <1>8, WriteFacts DEF HeldOK, Holds, Holding, Ended
  <1>9. ASSUME NEW p \in Tool, Stop(p) PROVE HeldOK'
    BY <1>9, StopFacts DEF HeldOK, Holds, Holding, Ended
  <1>10. ASSUME ServiceRead PROVE HeldOK'
    BY <1>10 DEF ServiceRead, HeldOK, Holds, files, processes, observers
  <1>11. ASSUME ServiceReplace PROVE HeldOK'
    BY <1>11 DEF ServiceReplace, HeldOK, Holds, files, processes, observers
  <1>12. ASSUME NEW l \in Launcher, Launch(l) PROVE HeldOK'
    BY <1>12 DEF Launch, HeldOK, Holds, files, processes, observers
  <1>13. ASSUME NEW l \in Launcher, HealthCheck(l) PROVE HeldOK'
    BY <1>13 DEF HealthCheck, HeldOK, Holds, files, processes, observers
  <1>14. ASSUME NEW l \in Launcher, ConsoleReturns(l) PROVE HeldOK'
    BY <1>14 DEF ConsoleReturns, HeldOK, Holds, files, processes, observers
  <1>15. ASSUME GenerateId PROVE HeldOK'
    BY <1>15 DEF GenerateId, HeldOK, Holds, files, processes, observers
  <1>16. ASSUME NEW s \in Slot, RunTask(s) PROVE HeldOK'
    BY <1>16 DEF RunTask, HeldOK, Holds, files, processes, observers
  <1>17. CASE UNCHANGED vars
    BY <1>17 DEF vars, files, processes, observers, HeldOK, Holds
  <1> QED
    BY <1>1, <1>2, <1>3, <1>4, <1>5, <1>6, <1>7, <1>8, <1>9, <1>10, <1>11, <1>12, <1>13,
       <1>14, <1>15, <1>16, <1>17
       DEF Next

\* Every step keeps the copy that a command relies on.
LEMMA NextCopy == IInv /\ [Next]_vars => CopyOK'
  <1> SUFFICES ASSUME IInv, [Next]_vars PROVE CopyOK'
    OBVIOUS
  <1> USE DEF IInv
  <1>1. ASSUME NEW p \in Tool, Start(p) PROVE CopyOK'
    <2>1. /\ \A q \in Tool \ {p} : proc'[q] = proc[q]
          /\ proc'[p].pc # "truncate" /\ raced \subseteq raced' /\ backup' = backup
      BY <1>1, StartFacts DEF Start, Ended, files, processes, observers
    <2> QED BY <2>1 DEF CopyOK, Copies, Labels
  <1>2. ASSUME NEW p \in Tool, Identify(p) PROVE CopyOK'
    <2>1. /\ \A q \in Tool \ {p} : proc'[q] = proc[q]
          /\ proc'[p].pc # "truncate" /\ raced \subseteq raced' /\ backup' = backup
      BY <1>2, IdentifyFacts DEF Identify, Ended, files, processes, observers
    <2> QED BY <2>1 DEF CopyOK, Copies, Labels
  <1>3. ASSUME NEW p \in Tool, RegisterAccount(p) PROVE CopyOK'
    <2>1. /\ \A q \in Tool \ {p} : proc'[q] = proc[q]
          /\ proc'[p].pc # "truncate" /\ raced \subseteq raced' /\ backup' = backup
      BY <1>3, RegisterFacts DEF RegisterAccount, Ended, files, processes, observers
    <2> QED BY <2>1 DEF CopyOK, Copies, Labels
  <1>4. ASSUME NEW p \in Tool, ReadTable(p) PROVE CopyOK'
    <2>1. /\ \A q \in Tool \ {p} : proc'[q] = proc[q]
          /\ proc'[p].pc # "truncate" /\ raced \subseteq raced' /\ backup' = backup
      BY <1>4, ReadTableFacts DEF ReadTable, Ended, files, processes, observers
    <2> QED BY <2>1 DEF CopyOK, Copies, Labels
  <1>5. ASSUME NEW p \in Tool, ReadConfig(p) PROVE CopyOK'
    <2>1. /\ \A q \in Tool \ {p} : proc'[q] = proc[q]
          /\ proc'[p].pc # "truncate" /\ raced \subseteq raced' /\ backup' = backup
      BY <1>5, ReadConfigFacts DEF ReadConfig, Ended, files, processes, observers
    <2> QED BY <2>1 DEF CopyOK, Copies, Labels
  <1>6. ASSUME NEW p \in Tool, CopyBackup(p) PROVE CopyOK'
    <2> DEFINE f == FileOf(proc[p].job)
    <2>1. PICK copy \in Copies(f) :
            /\ copy[1] = f
            /\ backup' = [backup EXCEPT ![copy] = Content(f)]
            /\ raced' = IF Content(f) = proc[p].old /\ ~ Replaces(p, copy, Content(f))
                          THEN raced ELSE raced \cup {f}
      BY <1>6, CopyFacts
    <2>2. /\ \A q \in Tool \ {p} : proc'[q] = proc[q]
          /\ proc'[p].job = proc[p].job /\ proc'[p].old = proc[p].old
          /\ f \in {"table", "config"}
      BY <1>6, CopyFacts
    <2>3. /\ copy \in DOMAIN backup /\ backup'[copy] = Content(f)
          /\ \A b \in DOMAIN backup \ {copy} : backup'[b] = backup[b]
      BY <2>1, <2>2 DEF TypeOK
    <2>4. CASE f \notin raced'
      <3>1. Content(f) = proc[p].old /\ ~ Replaces(p, copy, Content(f)) /\ raced' = raced
        BY <2>1, <2>4
      <3> SUFFICES ASSUME NEW q \in Tool, proc'[q].pc = "truncate",
                          FileOf(proc'[q].job) \notin raced'
                   PROVE  \E b \in Copies(FileOf(proc'[q].job)) : backup'[b] = proc'[q].old
        BY DEF CopyOK, Copies, Labels
      <3>2. CASE q = p
        BY <2>1, <2>2, <2>3, <3>1, <3>2
      <3>3. CASE q # p
        <4>1. PICK b \in Copies(FileOf(proc[q].job)) : backup[b] = proc[q].old
          BY <2>2, <3>1, <3>3 DEF CopyOK
        <4>2. proc[q].pc \in Holding
          BY <2>2, <3>3 DEF Holding
        <4>3. b \in DOMAIN backup /\ b[1] = FileOf(proc[q].job)
          BY <4>1, <4>2, HoldFacts DEF TypeOK, Copies
        <4>4. CASE b = copy
          BY <2>1, <2>2, <2>3, <3>1, <3>3, <4>1, <4>3, <4>4 DEF Replaces
        <4>5. CASE b # copy
          BY <2>2, <2>3, <3>3, <4>1, <4>3, <4>5
        <4> QED BY <4>4, <4>5
      <3> QED BY <3>2, <3>3
    <2>5. CASE f \in raced'
      <3> SUFFICES ASSUME NEW q \in Tool, proc'[q].pc = "truncate",
                          FileOf(proc'[q].job) \notin raced'
                   PROVE  \E b \in Copies(FileOf(proc'[q].job)) : backup'[b] = proc'[q].old
        BY DEF CopyOK, Copies, Labels
      <3>1. q # p /\ proc'[q] = proc[q] /\ FileOf(proc[q].job) # f
            /\ FileOf(proc[q].job) \notin raced
        BY <2>1, <2>2, <2>5
      <3>2. PICK b \in Copies(FileOf(proc[q].job)) : backup[b] = proc[q].old
        BY <3>1 DEF CopyOK
      <3>3. proc[q].pc \in Holding
        BY <3>1 DEF Holding
      <3>4. b \in DOMAIN backup /\ b[1] = FileOf(proc[q].job)
        BY <3>2, <3>3, HoldFacts DEF TypeOK, Copies
      <3> QED BY <2>1, <2>3, <3>1, <3>2, <3>4
    <2> QED BY <2>4, <2>5
  <1>7. ASSUME NEW p \in Tool, Truncate(p) PROVE CopyOK'
    <2>1. /\ \A q \in Tool \ {p} : proc'[q] = proc[q]
          /\ proc'[p].pc # "truncate" /\ raced \subseteq raced' /\ backup' = backup
      BY <1>7, TruncateFacts DEF Truncate
    <2> QED BY <2>1 DEF CopyOK, Copies, Labels
  <1>8. ASSUME NEW p \in Tool, WriteFile(p) PROVE CopyOK'
    <2>1. /\ \A q \in Tool \ {p} : proc'[q] = proc[q]
          /\ proc'[p].pc # "truncate" /\ raced \subseteq raced' /\ backup' = backup
      BY <1>8, WriteFacts
    <2> QED BY <2>1 DEF CopyOK, Copies, Labels
  <1>9. ASSUME NEW p \in Tool, Stop(p) PROVE CopyOK'
    <2>1. /\ \A q \in Tool \ {p} : proc'[q] = proc[q]
          /\ proc'[p].pc # "truncate" /\ raced \subseteq raced' /\ backup' = backup
      BY <1>9, StopFacts DEF Stop, Ended, files, processes, observers
    <2> QED BY <2>1 DEF CopyOK, Copies, Labels
  <1>10. ASSUME ServiceRead PROVE CopyOK'
    BY <1>10 DEF ServiceRead, CopyOK, Copies, Labels, files, processes, observers
  <1>11. ASSUME ServiceReplace PROVE CopyOK'
    <2>1. proc' = proc /\ backup' = backup /\ raced \subseteq raced'
      BY <1>11, ReplaceFacts DEF ServiceReplace
    <2> QED BY <2>1 DEF CopyOK, Copies, Labels
  <1>12. ASSUME NEW l \in Launcher, Launch(l) PROVE CopyOK'
    BY <1>12 DEF Launch, CopyOK, Copies, Labels, files, processes, observers
  <1>13. ASSUME NEW l \in Launcher, HealthCheck(l) PROVE CopyOK'
    BY <1>13 DEF HealthCheck, CopyOK, Copies, Labels, files, processes, observers
  <1>14. ASSUME NEW l \in Launcher, ConsoleReturns(l) PROVE CopyOK'
    BY <1>14 DEF ConsoleReturns, CopyOK, Copies, Labels, files, processes, observers
  <1>15. ASSUME GenerateId PROVE CopyOK'
    BY <1>15 DEF GenerateId, CopyOK, Copies, Labels, files, processes, observers
  <1>16. ASSUME NEW s \in Slot, RunTask(s) PROVE CopyOK'
    BY <1>16 DEF RunTask, CopyOK, Copies, Labels, files, processes, observers
  <1>17. CASE UNCHANGED vars
    BY <1>17 DEF vars, files, processes, observers, CopyOK, Copies, Labels
  <1> QED
    BY <1>1, <1>2, <1>3, <1>4, <1>5, <1>6, <1>7, <1>8, <1>9, <1>10, <1>11, <1>12, <1>13,
       <1>14, <1>15, <1>16, <1>17
       DEF Next

\* Every step keeps what the truncations removed in order.
LEMMA NextCut == IInv /\ [Next]_vars => CutOK'
  <1> SUFFICES ASSUME IInv, [Next]_vars PROVE CutOK'
    OBVIOUS
  <1> USE DEF IInv
  <1>1. ASSUME NEW p \in Tool, Start(p) PROVE CutOK'
    BY <1>1 DEF Start, CutOK, Content, files, processes, observers
  <1>2. ASSUME NEW p \in Tool, Identify(p) PROVE CutOK'
    BY <1>2 DEF Identify, CutOK, Content, files, processes, observers
  <1>3. ASSUME NEW p \in Tool, RegisterAccount(p) PROVE CutOK'
    BY <1>3 DEF RegisterAccount, CutOK, Content, files, processes, observers
  <1>4. ASSUME NEW p \in Tool, ReadTable(p) PROVE CutOK'
    BY <1>4 DEF ReadTable, CutOK, Content, files, processes, observers
  <1>5. ASSUME NEW p \in Tool, ReadConfig(p) PROVE CutOK'
    BY <1>5 DEF ReadConfig, CutOK, Content, files, processes, observers
  <1>6. ASSUME NEW p \in Tool, CopyBackup(p) PROVE CutOK'
    BY <1>6 DEF CopyBackup, CutOK, Content, files, processes, observers
  <1>7. ASSUME NEW p \in Tool, Truncate(p) PROVE CutOK'
    <2> DEFINE f == FileOf(proc[p].job)
    <2>1. /\ f \in {"table", "config"}
          /\ f = "table" => config' = config /\ (cut'["table"] = None \/ table' = Torn)
          /\ f = "config" => table' = table /\ (cut'["config"] = None \/ config' = Torn)
          /\ \A h \in {"table", "config"} \ {f} : cut'[h] = cut[h]
      BY <1>7, TruncateFacts DEF TypeOK
    <2> QED BY <2>1 DEF CutOK, Content
  <1>8. ASSUME NEW p \in Tool, WriteFile(p) PROVE CutOK'
    <2> DEFINE f == FileOf(proc[p].job)
    <2>1. /\ f \in {"table", "config"}
          /\ f = "table" => config' = config /\ (cut'["table"] = None \/ table' = Torn)
          /\ f = "config" => table' = table /\ (cut'["config"] = None \/ config' = Torn)
          /\ \A h \in {"table", "config"} \ {f} : cut'[h] = cut[h]
      BY <1>8, WriteFacts DEF TypeOK
    <2> QED BY <2>1 DEF CutOK, Content
  <1>9. ASSUME NEW p \in Tool, Stop(p) PROVE CutOK'
    BY <1>9 DEF Stop, CutOK, Content, files, processes, observers
  <1>10. ASSUME ServiceRead PROVE CutOK'
    BY <1>10 DEF ServiceRead, CutOK, Content, files, processes, observers
  <1>11. ASSUME ServiceReplace PROVE CutOK'
    BY <1>11 DEF ServiceReplace, CutOK, Content, files, processes, observers
  <1>12. ASSUME NEW l \in Launcher, Launch(l) PROVE CutOK'
    BY <1>12 DEF Launch, CutOK, Content, files, processes, observers
  <1>13. ASSUME NEW l \in Launcher, HealthCheck(l) PROVE CutOK'
    BY <1>13 DEF HealthCheck, CutOK, Content, files, processes, observers
  <1>14. ASSUME NEW l \in Launcher, ConsoleReturns(l) PROVE CutOK'
    BY <1>14 DEF ConsoleReturns, CutOK, Content, files, processes, observers
  <1>15. ASSUME GenerateId PROVE CutOK'
    BY <1>15 DEF GenerateId, CutOK, Content, files, processes, observers
  <1>16. ASSUME NEW s \in Slot, RunTask(s) PROVE CutOK'
    BY <1>16 DEF RunTask, CutOK, Content, files, processes, observers
  <1>17. CASE UNCHANGED vars
    BY <1>17 DEF vars, files, processes, observers, CutOK, Content
  <1> QED
    BY <1>1, <1>2, <1>3, <1>4, <1>5, <1>6, <1>7, <1>8, <1>9, <1>10, <1>11, <1>12, <1>13,
       <1>14, <1>15, <1>16, <1>17
       DEF Next

\* Every step keeps a copy of what a torn file held.
LEMMA NextTorn == IInv /\ [Next]_vars => TornFileHasABackup'
  <1> SUFFICES ASSUME IInv, [Next]_vars PROVE TornFileHasABackup'
    OBVIOUS
  <1> USE DEF IInv
  <1>1. ASSUME NEW p \in Tool, Start(p) PROVE TornFileHasABackup'
    BY <1>1 DEF Start, TornFileHasABackup, Copies, Labels, files, processes, observers
  <1>2. ASSUME NEW p \in Tool, Identify(p) PROVE TornFileHasABackup'
    BY <1>2 DEF Identify, TornFileHasABackup, Copies, Labels, files, processes, observers
  <1>3. ASSUME NEW p \in Tool, RegisterAccount(p) PROVE TornFileHasABackup'
    <2>1. cut' = cut /\ backup' = backup /\ raced \subseteq raced'
      BY <1>3, RegisterFacts DEF RegisterAccount, files, processes, observers
    <2> QED BY <2>1 DEF TornFileHasABackup, Copies, Labels
  <1>4. ASSUME NEW p \in Tool, ReadTable(p) PROVE TornFileHasABackup'
    BY <1>4 DEF ReadTable, TornFileHasABackup, Copies, Labels, files, processes, observers
  <1>5. ASSUME NEW p \in Tool, ReadConfig(p) PROVE TornFileHasABackup'
    <2>1. cut' = cut /\ backup' = backup /\ raced \subseteq raced'
      BY <1>5, ReadConfigFacts DEF ReadConfig, files, processes, observers
    <2> QED BY <2>1 DEF TornFileHasABackup, Copies, Labels
  <1>6. ASSUME NEW p \in Tool, CopyBackup(p) PROVE TornFileHasABackup'
    <2> DEFINE f == FileOf(proc[p].job)
    <2>1. PICK copy \in Copies(f) :
            /\ copy[1] = f
            /\ backup' = [backup EXCEPT ![copy] = Content(f)]
            /\ raced' = IF Content(f) = proc[p].old /\ ~ Replaces(p, copy, Content(f))
                          THEN raced ELSE raced \cup {f}
      BY <1>6, CopyFacts
    <2>2. f \in {"table", "config"} /\ proc[p].old # Torn /\ cut' = cut
      BY <1>6, CopyFacts, HoldFacts DEF CopyBackup
    <2> SUFFICES ASSUME NEW h \in {"table", "config"}, cut[h] # None, h \notin raced'
                 PROVE  \E b \in Copies(h) : backup'[b] = cut[h]
      BY <2>2 DEF TornFileHasABackup, Copies, Labels
    <2>3. h \notin raced /\ h # f
      BY <2>1, <2>2 DEF CutOK
    <2>4. PICK b \in Copies(h) : backup[b] = cut[h]
      BY <2>3 DEF TornFileHasABackup
    <2>5. b \in DOMAIN backup /\ b[1] = h
      BY <2>4 DEF TypeOK, Copies
    <2>6. backup'[b] = backup[b]
      BY <2>1, <2>3, <2>5 DEF TypeOK
    <2> QED BY <2>4, <2>6
  <1>7. ASSUME NEW p \in Tool, Truncate(p) PROVE TornFileHasABackup'
    <2> DEFINE f == FileOf(proc[p].job)
    <2>1. /\ f \in {"table", "config"} /\ backup' = backup /\ raced \subseteq raced'
          /\ f \notin raced' => Content(f) = proc[p].old
          /\ cut'[f] = Content(f)
          /\ \A h \in {"table", "config"} \ {f} : cut'[h] = cut[h]
      BY <1>7, TruncateFacts DEF Truncate, TypeOK
    <2>2. f \notin raced' => \E b \in Copies(f) : backup'[b] = cut'[f]
      BY <1>7, <2>1 DEF CopyOK, Truncate
    <2> QED BY <2>1, <2>2 DEF TornFileHasABackup, Copies, Labels
  <1>8. ASSUME NEW p \in Tool, WriteFile(p) PROVE TornFileHasABackup'
    <2> DEFINE f == FileOf(proc[p].job)
    <2>1. /\ f \in {"table", "config"} /\ backup' = backup /\ raced \subseteq raced'
          /\ cut'[f] = None
          /\ \A h \in {"table", "config"} \ {f} : cut'[h] = cut[h]
      BY <1>8, WriteFacts DEF WriteFile, TypeOK
    <2> QED BY <2>1 DEF TornFileHasABackup, Copies, Labels
  <1>9. ASSUME NEW p \in Tool, Stop(p) PROVE TornFileHasABackup'
    BY <1>9 DEF Stop, TornFileHasABackup, Copies, Labels, files, processes, observers
  <1>10. ASSUME ServiceRead PROVE TornFileHasABackup'
    BY <1>10
       DEF ServiceRead, TornFileHasABackup, Copies, Labels, files, processes, observers
  <1>11. ASSUME ServiceReplace PROVE TornFileHasABackup'
    <2>1. cut' = cut /\ backup' = backup /\ raced \subseteq raced'
      BY <1>11, ReplaceFacts DEF ServiceReplace, files, processes, observers
    <2> QED BY <2>1 DEF TornFileHasABackup, Copies, Labels
  <1>12. ASSUME NEW l \in Launcher, Launch(l) PROVE TornFileHasABackup'
    BY <1>12 DEF Launch, TornFileHasABackup, Copies, Labels, files, processes, observers
  <1>13. ASSUME NEW l \in Launcher, HealthCheck(l) PROVE TornFileHasABackup'
    BY <1>13
       DEF HealthCheck, TornFileHasABackup, Copies, Labels, files, processes, observers
  <1>14. ASSUME NEW l \in Launcher, ConsoleReturns(l) PROVE TornFileHasABackup'
    BY <1>14
       DEF ConsoleReturns, TornFileHasABackup, Copies, Labels, files, processes, observers
  <1>15. ASSUME GenerateId PROVE TornFileHasABackup'
    BY <1>15 DEF GenerateId, TornFileHasABackup, Copies, Labels, files, processes, observers
  <1>16. ASSUME NEW s \in Slot, RunTask(s) PROVE TornFileHasABackup'
    BY <1>16 DEF RunTask, TornFileHasABackup, Copies, Labels, files, processes, observers
  <1>17. CASE UNCHANGED vars
    BY <1>17 DEF vars, files, processes, observers, TornFileHasABackup, Copies, Labels
  <1> QED
    BY <1>1, <1>2, <1>3, <1>4, <1>5, <1>6, <1>7, <1>8, <1>9, <1>10, <1>11, <1>12, <1>13,
       <1>14, <1>15, <1>16, <1>17
       DEF Next

\* Every step keeps an undisturbed file with one writer.
LEMMA NextWrite == IInv /\ [Next]_vars => WriteOK'
  <1> SUFFICES ASSUME IInv, [Next]_vars PROVE WriteOK'
    OBVIOUS
  <1> USE DEF IInv
  <1>1. ASSUME NEW p \in Tool, Start(p) PROVE WriteOK'
    <2>1. /\ \A q \in Tool \ {p} : proc'[q] = proc[q]
          /\ proc'[p].pc # "write" /\ raced \subseteq raced' /\ table' = table /\ config' = config
      BY <1>1, StartFacts DEF Start, Ended, files, processes, observers
    <2> QED BY <2>1 DEF WriteOK, Content, Holds, Holding
  <1>2. ASSUME NEW p \in Tool, Identify(p) PROVE WriteOK'
    <2>1. /\ \A q \in Tool \ {p} : proc'[q] = proc[q]
          /\ proc'[p].pc # "write" /\ raced \subseteq raced' /\ table' = table /\ config' = config
      BY <1>2, IdentifyFacts DEF Identify, Ended, files, processes, observers
    <2> QED BY <2>1 DEF WriteOK, Content, Holds, Holding
  <1>3. ASSUME NEW p \in Tool, RegisterAccount(p) PROVE WriteOK'
    <2>1. /\ \A q \in Tool \ {p} : proc'[q] = proc[q]
          /\ proc'[p].pc # "write" /\ raced \subseteq raced' /\ table' = table /\ config' = config
      BY <1>3, RegisterFacts DEF RegisterAccount, Ended, files, processes, observers
    <2> QED BY <2>1 DEF WriteOK, Content, Holds, Holding
  <1>4. ASSUME NEW p \in Tool, ReadTable(p) PROVE WriteOK'
    <2>1. /\ \A q \in Tool \ {p} : proc'[q] = proc[q]
          /\ proc'[p].pc # "write" /\ raced \subseteq raced' /\ table' = table /\ config' = config
      BY <1>4, ReadTableFacts DEF ReadTable, Ended, files, processes, observers
    <2> QED BY <2>1 DEF WriteOK, Content, Holds, Holding
  <1>5. ASSUME NEW p \in Tool, ReadConfig(p) PROVE WriteOK'
    <2>1. /\ \A q \in Tool \ {p} : proc'[q] = proc[q]
          /\ proc'[p].pc # "write" /\ raced \subseteq raced' /\ table' = table /\ config' = config
      BY <1>5, ReadConfigFacts DEF ReadConfig, Ended, files, processes, observers
    <2> QED BY <2>1 DEF WriteOK, Content, Holds, Holding
  <1>6. ASSUME NEW p \in Tool, CopyBackup(p) PROVE WriteOK'
    <2>1. /\ \A q \in Tool \ {p} : proc'[q] = proc[q]
          /\ proc'[p].pc # "write" /\ raced \subseteq raced' /\ table' = table /\ config' = config
      BY <1>6, CopyFacts DEF CopyBackup, Ended, files, processes, observers
    <2> QED BY <2>1 DEF WriteOK, Content, Holds, Holding
  <1>7. ASSUME NEW p \in Tool, Truncate(p) PROVE WriteOK'
    <2> DEFINE f == FileOf(proc[p].job)
    <2>1. /\ f \in {"table", "config"} /\ proc[p].old # Torn /\ raced \subseteq raced'
          /\ f \notin raced' => Content(f) = proc[p].old
          /\ proc'[p].job = proc[p].job
          /\ \A q \in Tool \ {p} : proc'[q] = proc[q]
          /\ f = "table" => table' = Torn /\ config' = config
          /\ f = "config" => config' = Torn /\ table' = table
      BY <1>7, TruncateFacts, HoldFacts
    <2>2. ASSUME NEW q \in Tool \ {p}, proc[q].pc = "write", f \notin raced'
          PROVE  FileOf(proc[q].job) # f
      BY <2>1, <2>2 DEF WriteOK
    <2>3. ASSUME NEW q \in Tool, proc'[q].pc = "write", FileOf(proc'[q].job) = f, f \notin raced'
          PROVE  q = p
      BY <2>1, <2>2, <2>3
    <2>4. ASSUME NEW q \in Tool, proc'[q].pc = "write", FileOf(proc'[q].job) \notin raced',
                 FileOf(proc'[q].job) # f
          PROVE  /\ (IF FileOf(proc'[q].job) = "table" THEN table' ELSE config') = Torn
                 /\ \A r \in Tool : proc'[r].pc = "write" /\ FileOf(proc'[r].job) = FileOf(proc'[q].job)
                                      => r = q
      <3>1. q # p /\ proc'[q] = proc[q] /\ proc[q].pc = "write" /\ proc[q].pc \in Holding
            /\ FileOf(proc[q].job) \notin raced
        BY <2>1, <2>4 DEF Holding
      <3>2. Content(FileOf(proc[q].job)) = Torn /\ FileOf(proc[q].job) \in {"table", "config"}
        BY <3>1, HoldFacts DEF WriteOK
      <3>3. (IF FileOf(proc'[q].job) = "table" THEN table' ELSE config') = Torn
        BY <2>1, <2>4, <3>1, <3>2 DEF Content
      <3>4. ASSUME NEW r \in Tool, proc'[r].pc = "write", FileOf(proc'[r].job) = FileOf(proc'[q].job)
            PROVE  r = q
        <4>1. r # p /\ proc'[r] = proc[r]
          BY <2>1, <2>4, <3>4
        <4> QED BY <3>1, <3>4, <4>1 DEF WriteOK, Holds
      <3> QED BY <3>3, <3>4
    <2> QED BY <2>1, <2>3, <2>4 DEF WriteOK, Content, Holds
  <1>8. ASSUME NEW p \in Tool, WriteFile(p) PROVE WriteOK'
    <2> DEFINE f == FileOf(proc[p].job)
    <2>1. /\ f \in {"table", "config"} /\ raced \subseteq raced' /\ proc'[p].pc # "write"
          /\ \A q \in Tool \ {p} : proc'[q] = proc[q]
          /\ f = "table" => config' = config
          /\ f = "config" => table' = table
          /\ proc[p].pc = "write"
      BY <1>8, WriteFacts
    <2> SUFFICES ASSUME NEW q \in Tool, proc'[q].pc = "write", FileOf(proc'[q].job) \notin raced'
                 PROVE  /\ (IF FileOf(proc'[q].job) = "table" THEN table' ELSE config') = Torn
                        /\ \A r \in Tool : proc'[r].pc = "write"
                             /\ FileOf(proc'[r].job) = FileOf(proc'[q].job) => r = q
      BY DEF WriteOK, Holds, Content
    <2>2. q # p /\ proc'[q] = proc[q] /\ proc[q].pc = "write" /\ proc[q].pc \in Holding
          /\ FileOf(proc[q].job) \notin raced
      BY <2>1 DEF Holding
    <2>3. /\ Content(FileOf(proc[q].job)) = Torn /\ FileOf(proc[q].job) \in {"table", "config"}
          /\ FileOf(proc[q].job) # f
      <3>1. Holds(p, f)
        BY <2>1 DEF Holds, Holding
      <3> QED BY <2>1, <2>2, <3>1, HoldFacts DEF WriteOK
    <2>4. (IF FileOf(proc'[q].job) = "table" THEN table' ELSE config') = Torn
      BY <2>1, <2>2, <2>3 DEF Content
    <2>5. ASSUME NEW r \in Tool, proc'[r].pc = "write", FileOf(proc'[r].job) = FileOf(proc'[q].job)
          PROVE  r = q
      <3>1. proc'[r] = proc[r]
        BY <2>1, <2>5
      <3> QED BY <2>2, <2>5, <3>1 DEF WriteOK, Holds, Holding
    <2> QED BY <2>4, <2>5
  <1>9. ASSUME NEW p \in Tool, Stop(p) PROVE WriteOK'
    <2>1. /\ \A q \in Tool \ {p} : proc'[q] = proc[q]
          /\ proc'[p].pc # "write" /\ raced \subseteq raced' /\ table' = table /\ config' = config
      BY <1>9, StopFacts DEF Stop, Ended, files, processes, observers
    <2> QED BY <2>1 DEF WriteOK, Content, Holds, Holding
  <1>10. ASSUME ServiceRead PROVE WriteOK'
    BY <1>10 DEF ServiceRead, WriteOK, Content, Holds, files, processes, observers
  <1>11. ASSUME ServiceReplace PROVE WriteOK'
    <2>1. UNCHANGED <<proc, table, config>> /\ raced \subseteq raced'
      BY <1>11, ReplaceFacts DEF ServiceReplace
    <2> QED BY <2>1 DEF WriteOK, Content, Holds
  <1>12. ASSUME NEW l \in Launcher, Launch(l) PROVE WriteOK'
    BY <1>12 DEF Launch, WriteOK, Content, Holds, files, processes, observers
  <1>13. ASSUME NEW l \in Launcher, HealthCheck(l) PROVE WriteOK'
    BY <1>13 DEF HealthCheck, WriteOK, Content, Holds, files, processes, observers
  <1>14. ASSUME NEW l \in Launcher, ConsoleReturns(l) PROVE WriteOK'
    BY <1>14 DEF ConsoleReturns, WriteOK, Content, Holds, files, processes, observers
  <1>15. ASSUME GenerateId PROVE WriteOK'
    <2>1. UNCHANGED <<proc, raced, table>> /\ config # Torn
      BY <1>15 DEF GenerateId, files, processes, observers
    <2>2. ASSUME NEW q \in Tool, proc[q].pc = "write", FileOf(proc[q].job) \notin raced
          PROVE  FileOf(proc[q].job) = "table"
      BY <2>1, <2>2, HoldFacts DEF WriteOK, Content, Holding
    <2> QED BY <2>1, <2>2 DEF WriteOK, Content, Holds
  <1>16. ASSUME NEW s \in Slot, RunTask(s) PROVE WriteOK'
    <2>1. UNCHANGED <<proc, raced, config>> /\ table # Torn
      BY <1>16 DEF RunTask, files, processes, observers
    <2>2. ASSUME NEW q \in Tool, proc[q].pc = "write", FileOf(proc[q].job) \notin raced
          PROVE  FileOf(proc[q].job) = "config"
      BY <2>1, <2>2, HoldFacts DEF WriteOK, Content, Holding
    <2> QED BY <2>1, <2>2 DEF WriteOK, Content, Holds
  <1>17. CASE UNCHANGED vars
    BY <1>17 DEF vars, files, processes, observers, WriteOK, Content, Holds
  <1> QED
    BY <1>1, <1>2, <1>3, <1>4, <1>5, <1>6, <1>7, <1>8, <1>9, <1>10, <1>11, <1>12, <1>13,
       <1>14, <1>15, <1>16, <1>17
       DEF Next

\* Every step keeps the configurations fit.
LEMMA NextFit == IInv /\ [Next]_vars => FitOK'
  <1> SUFFICES ASSUME IInv, [Next]_vars PROVE FitOK'
    OBVIOUS
  <1> USE DEF IInv
  <1>1. ASSUME NEW p \in Tool, Start(p) PROVE FitOK'
    <2>1. /\ \A q \in Tool \ {p} : proc'[q] = proc[q]
          /\ proc'[p].pc \notin Holding \/ FileOf(proc'[p].job) = "table"
          /\ config' = config
      BY <1>1, StartFacts, JobFacts
         DEF Start, Ended, Holding, Job, ProvisionJob, files, processes, observers
    <2> QED BY <2>1 DEF FitOK, Holds
  <1>2. ASSUME NEW p \in Tool, Identify(p) PROVE FitOK'
    <2>1. /\ \A q \in Tool \ {p} : proc'[q] = proc[q]
          /\ proc'[p].pc \notin Holding \/ FileOf(proc'[p].job) = "table"
          /\ config' = config
      BY <1>2, IdentifyFacts, JobFacts
         DEF Identify, Ended, Holding, Job, ProvisionJob, files, processes, observers
    <2> QED BY <2>1 DEF FitOK, Holds
  <1>3. ASSUME NEW p \in Tool, RegisterAccount(p) PROVE FitOK'
    <2>1. /\ \A q \in Tool \ {p} : proc'[q] = proc[q]
          /\ proc'[p].pc \notin Holding \/ FileOf(proc'[p].job) = "table"
          /\ config' = config
      BY <1>3, RegisterFacts, JobFacts
         DEF RegisterAccount, Ended, Holding, Job, ProvisionJob, files, processes,
             observers
    <2> QED BY <2>1 DEF FitOK, Holds
  <1>4. ASSUME NEW p \in Tool, ReadTable(p) PROVE FitOK'
    <2>1. /\ \A q \in Tool \ {p} : proc'[q] = proc[q]
          /\ proc'[p].pc \notin Holding \/ FileOf(proc'[p].job) = "table"
          /\ config' = config
      BY <1>4, ReadTableFacts, JobFacts
         DEF ReadTable, Ended, Holding, Job, ProvisionJob, files, processes, observers
    <2> QED BY <2>1 DEF FitOK, Holds
  <1>5. ASSUME NEW p \in Tool, ReadConfig(p) PROVE FitOK'
    <2>1. /\ proc' \in [Tool -> State] /\ \A q \in Tool \ {p} : proc'[q] = proc[q]
          /\ config' = config
      BY <1>5, ReadConfigFacts DEF ReadConfig, files, processes, observers
    <2>2. CASE proc'[p] = Ended
      BY <2>1, <2>2 DEF FitOK, Holds, Holding, Ended
    <2>3. CASE config \in Config /\ config.stage = "registered"
               /\ proc'[p].new = MailConfigured(config, proc[p].credentials)
      <3>1. Fit(config)
        BY <2>3, MarkAssumption DEF FitOK
      <3>2. Fit(proc'[p].new)
        BY <2>3, <3>1 DEF Fit, MailConfigured
      <3> QED BY <2>1, <3>2 DEF FitOK, Holds
    <2>4. CASE config \in Config /\ config.id # NoId /\ proc'[p].new = Bootstrapped(config)
      <3>1. config.id = Console
        BY <2>4 DEF Config
      <3>2. Fit(proc'[p].new)
        BY <2>4, <3>1 DEF Fit, Bootstrapped
      <3> QED BY <2>1, <3>2 DEF FitOK, Holds
    <2> QED BY <1>5, <2>2, <2>3, <2>4, ReadConfigFacts
  <1>6. ASSUME NEW p \in Tool, CopyBackup(p) PROVE FitOK'
    <2>1. /\ proc[p].pc \in Holding /\ proc'[p].job = proc[p].job /\ proc'[p].new = proc[p].new
          /\ \A q \in Tool \ {p} : proc'[q] = proc[q]
          /\ config' = config
      BY <1>6, CopyFacts DEF CopyBackup
    <2> QED BY <2>1 DEF FitOK, Holds
  <1>7. ASSUME NEW p \in Tool, Truncate(p) PROVE FitOK'
    <2>1. /\ proc[p].pc \in Holding /\ proc'[p].job = proc[p].job /\ proc'[p].new = proc[p].new
          /\ \A q \in Tool \ {p} : proc'[q] = proc[q]
          /\ config' \in {config, Torn}
      BY <1>7, TruncateFacts
    <2> QED BY <2>1 DEF FitOK, Holds
  <1>8. ASSUME NEW p \in Tool, WriteFile(p) PROVE FitOK'
    <2>1. /\ proc[p].pc \in Holding /\ proc'[p].pc = "ended"
          /\ \A q \in Tool \ {p} : proc'[q] = proc[q]
          /\ config' = config \/ (config' = proc[p].new /\ Holds(p, "config"))
      BY <1>8, WriteFacts DEF Holds
    <2> QED BY <2>1 DEF FitOK, Holds, Holding
  <1>9. ASSUME NEW p \in Tool, Stop(p) PROVE FitOK'
    <2>1. /\ \A q \in Tool \ {p} : proc'[q] = proc[q]
          /\ proc'[p].pc \notin Holding \/ FileOf(proc'[p].job) = "table"
          /\ config' = config
      BY <1>9, StopFacts, JobFacts
         DEF Stop, Ended, Holding, Job, ProvisionJob, files, processes, observers
    <2> QED BY <2>1 DEF FitOK, Holds
  <1>10. ASSUME ServiceRead PROVE FitOK'
    BY <1>10 DEF ServiceRead, FitOK, Holds, files, processes, observers
  <1>11. ASSUME ServiceReplace PROVE FitOK'
    BY <1>11 DEF ServiceReplace, FitOK, Holds, files, processes, observers
  <1>12. ASSUME NEW l \in Launcher, Launch(l) PROVE FitOK'
    BY <1>12 DEF Launch, FitOK, Holds, files, processes, observers
  <1>13. ASSUME NEW l \in Launcher, HealthCheck(l) PROVE FitOK'
    BY <1>13 DEF HealthCheck, FitOK, Holds, files, processes, observers
  <1>14. ASSUME NEW l \in Launcher, ConsoleReturns(l) PROVE FitOK'
    BY <1>14 DEF ConsoleReturns, FitOK, Holds, files, processes, observers
  <1>15. ASSUME GenerateId PROVE FitOK'
    <2>1. Fit(config') /\ proc' = proc
      BY <1>15 DEF GenerateId, Profile, Fit, processes
    <2> QED BY <2>1 DEF FitOK, Holds
  <1>16. ASSUME NEW s \in Slot, RunTask(s) PROVE FitOK'
    BY <1>16 DEF RunTask, FitOK, Holds, files, processes, observers
  <1>17. CASE UNCHANGED vars
    BY <1>17 DEF vars, files, processes, observers, FitOK, Holds
  <1> QED
    BY <1>1, <1>2, <1>3, <1>4, <1>5, <1>6, <1>7, <1>8, <1>9, <1>10, <1>11, <1>12, <1>13,
       <1>14, <1>15, <1>16, <1>17
       DEF Next

\* An account that is known stays as it is, unless the accounts are replaced
\* by a process that went on from an older reading.
LEMMA AccountsStay ==
  ASSUME IInv, NEW i \in {Console, NoId}, accounts[i] # None, "accounts" \notin raced',
         (\E p \in Tool : RegisterAccount(p)) \/ ServiceReplace
  PROVE  accounts'[i] = accounts[i]
  <1>1. ASSUME NEW p \in Tool, RegisterAccount(p) PROVE accounts'[i] = accounts[i]
    <2>1. accounts = proc[p].snapshot /\ proc[p].snapshot[proc[p].known.id] = None
      BY <1>1, RegisterFacts DEF IInv, KnownOK, RegisterAccount
    <2>2. accounts' = [accounts EXCEPT ![proc[p].known.id] = fresh + 1]
      BY <1>1, <2>1, RegisterFacts DEF IInv
    <2> QED BY <2>1, <2>2 DEF IInv, TypeOK, Accounts
  <1>2. CASE ServiceReplace
    BY <1>2, ReplaceFacts DEF IInv, TypeOK, Accounts
  <1> QED BY <1>1, <1>2

\* Every step keeps what mail-config knows of the accounts.
LEMMA NextKnown == IInv /\ [Next]_vars => KnownOK'
  <1> SUFFICES ASSUME IInv, [Next]_vars PROVE KnownOK'
    OBVIOUS
  <1> USE DEF IInv
  <1>1. ASSUME NEW p \in Tool, Start(p) PROVE KnownOK'
    <2>1. /\ \A q \in Tool \ {p} : proc'[q] = proc[q]
          /\ proc'[p].pc # "register" /\ (proc'[p].pc = "read" => proc'[p].job # Mail)
      BY <1>1, StartFacts DEF Ended
    <2>2. raced \subseteq raced' /\ accounts' = accounts
      BY <1>1, StartFacts DEF Start, files, processes, observers
    <2> QED BY <2>1, <2>2 DEF KnownOK
  <1>2. ASSUME NEW p \in Tool, Identify(p) PROVE KnownOK'
    <2>1. /\ \A q \in Tool \ {p} : proc'[q] = proc[q]
          /\ raced' = raced /\ accounts' = accounts
      BY <1>2, IdentifyFacts DEF Identify, files, processes, observers
    <2>2. /\ proc'[p].pc = "register" => proc'[p].snapshot[proc'[p].known.id] = None
          /\ proc'[p].pc = "read" => accounts[proc'[p].known.id] = proc'[p].credentials
      BY <1>2, IdentifyFacts DEF Ended
    <2> QED BY <2>1, <2>2 DEF KnownOK
  <1>3. ASSUME NEW p \in Tool, RegisterAccount(p) PROVE KnownOK'
    <2>1. /\ \A q \in Tool \ {p} : proc'[q] = proc[q]
          /\ proc'[p].pc = "read" /\ proc'[p].known = proc[p].known
          /\ proc'[p].credentials = fresh + 1
          /\ accounts'[proc[p].known.id] = fresh + 1 /\ raced \subseteq raced'
      BY <1>3, RegisterFacts DEF Accounts
    <2>2. ASSUME NEW q \in Tool \ {p}, proc[q].pc = "read", proc[q].job = Mail,
                 "accounts" \notin raced'
          PROVE  accounts'[proc[q].known.id] = proc[q].credentials
      <3>1. /\ accounts[proc[q].known.id] = proc[q].credentials
            /\ proc[q].credentials # None /\ proc[q].known.id \in {Console, NoId}
        BY <2>1, <2>2, StateFacts, MarkAssumption DEF KnownOK, Config
      <3> QED BY <1>3, <2>2, <3>1, AccountsStay
    <2> QED BY <2>1, <2>2 DEF KnownOK
  <1>4. ASSUME NEW p \in Tool, ReadTable(p) PROVE KnownOK'
    <2>1. /\ \A q \in Tool \ {p} : proc'[q] = proc[q]
          /\ proc'[p].pc # "register" /\ (proc'[p].pc = "read" => proc'[p].job # Mail)
      BY <1>4, ReadTableFacts DEF Ended
    <2>2. raced \subseteq raced' /\ accounts' = accounts
      BY <1>4, ReadTableFacts DEF ReadTable, files, processes, observers
    <2> QED BY <2>1, <2>2 DEF KnownOK
  <1>5. ASSUME NEW p \in Tool, ReadConfig(p) PROVE KnownOK'
    <2>1. /\ \A q \in Tool \ {p} : proc'[q] = proc[q]
          /\ proc'[p].pc # "register" /\ (proc'[p].pc = "read" => proc'[p].job # Mail)
      BY <1>5, ReadConfigFacts DEF Ended
    <2>2. raced \subseteq raced' /\ accounts' = accounts
      BY <1>5, ReadConfigFacts DEF ReadConfig, files, processes, observers
    <2> QED BY <2>1, <2>2 DEF KnownOK
  <1>6. ASSUME NEW p \in Tool, CopyBackup(p) PROVE KnownOK'
    <2>1. /\ \A q \in Tool \ {p} : proc'[q] = proc[q]
          /\ proc'[p].pc # "register" /\ (proc'[p].pc = "read" => proc'[p].job # Mail)
      BY <1>6, CopyFacts DEF Ended
    <2>2. raced \subseteq raced' /\ accounts' = accounts
      BY <1>6, CopyFacts DEF CopyBackup, files, processes, observers
    <2> QED BY <2>1, <2>2 DEF KnownOK
  <1>7. ASSUME NEW p \in Tool, Truncate(p) PROVE KnownOK'
    <2>1. /\ \A q \in Tool \ {p} : proc'[q] = proc[q]
          /\ proc'[p].pc # "register" /\ (proc'[p].pc = "read" => proc'[p].job # Mail)
      BY <1>7, TruncateFacts DEF Ended
    <2>2. raced \subseteq raced' /\ accounts' = accounts
      BY <1>7, TruncateFacts DEF Truncate, files, processes, observers
    <2> QED BY <2>1, <2>2 DEF KnownOK
  <1>8. ASSUME NEW p \in Tool, WriteFile(p) PROVE KnownOK'
    <2>1. /\ \A q \in Tool \ {p} : proc'[q] = proc[q]
          /\ proc'[p].pc # "register" /\ (proc'[p].pc = "read" => proc'[p].job # Mail)
      BY <1>8, WriteFacts DEF Ended
    <2>2. raced \subseteq raced' /\ accounts' = accounts
      BY <1>8, WriteFacts DEF WriteFile, files, processes, observers
    <2> QED BY <2>1, <2>2 DEF KnownOK
  <1>9. ASSUME NEW p \in Tool, Stop(p) PROVE KnownOK'
    <2>1. /\ \A q \in Tool \ {p} : proc'[q] = proc[q]
          /\ proc'[p].pc # "register" /\ (proc'[p].pc = "read" => proc'[p].job # Mail)
      BY <1>9, StopFacts DEF Ended
    <2>2. raced \subseteq raced' /\ accounts' = accounts
      BY <1>9, StopFacts DEF Stop, files, processes, observers
    <2> QED BY <2>1, <2>2 DEF KnownOK
  <1>10. ASSUME ServiceRead PROVE KnownOK'
    BY <1>10 DEF ServiceRead, KnownOK, files, processes, observers
  <1>11. ASSUME ServiceReplace PROVE KnownOK'
    <2>1. proc' = proc /\ raced \subseteq raced'
      BY <1>11, ReplaceFacts DEF ServiceReplace
    <2>2. ASSUME NEW q \in Tool, proc[q].pc = "read", proc[q].job = Mail, "accounts" \notin raced'
          PROVE  accounts'[proc[q].known.id] = proc[q].credentials
      <3>1. /\ accounts[proc[q].known.id] = proc[q].credentials
            /\ proc[q].credentials # None /\ proc[q].known.id \in {Console, NoId}
        BY <2>1, <2>2, StateFacts, MarkAssumption DEF KnownOK, Config
      <3> QED BY <1>11, <2>2, <3>1, AccountsStay
    <2> QED BY <2>1, <2>2 DEF KnownOK
  <1>12. ASSUME NEW l \in Launcher, Launch(l) PROVE KnownOK'
    BY <1>12 DEF Launch, KnownOK, files, processes, observers
  <1>13. ASSUME NEW l \in Launcher, HealthCheck(l) PROVE KnownOK'
    BY <1>13 DEF HealthCheck, KnownOK, files, processes, observers
  <1>14. ASSUME NEW l \in Launcher, ConsoleReturns(l) PROVE KnownOK'
    BY <1>14 DEF ConsoleReturns, KnownOK, files, processes, observers
  <1>15. ASSUME GenerateId PROVE KnownOK'
    BY <1>15 DEF GenerateId, KnownOK, files, processes, observers
  <1>16. ASSUME NEW s \in Slot, RunTask(s) PROVE KnownOK'
    BY <1>16 DEF RunTask, KnownOK, files, processes, observers
  <1>17. CASE UNCHANGED vars
    BY <1>17 DEF vars, files, processes, observers, KnownOK
  <1> QED
    BY <1>1, <1>2, <1>3, <1>4, <1>5, <1>6, <1>7, <1>8, <1>9, <1>10, <1>11, <1>12, <1>13,
       <1>14, <1>15, <1>16, <1>17
       DEF Next

\* Every step keeps the accounts of the configurations that are held.
LEMMA NextCredentials == IInv /\ [Next]_vars => CredentialsOK'
  <1> SUFFICES ASSUME IInv, [Next]_vars PROVE CredentialsOK'
    OBVIOUS
  <1> USE DEF IInv
  <1>1. ASSUME NEW p \in Tool, Start(p) PROVE CredentialsOK'
    <2>1. /\ \A q \in Tool \ {p} : proc'[q] = proc[q]
          /\ proc'[p].pc \notin Holding \/ FileOf(proc'[p].job) = "table"
      BY <1>1, StartFacts, JobFacts DEF Ended, Holding, Job, ProvisionJob
    <2>2. accounts' = accounts /\ raced \subseteq raced'
      BY <1>1, StartFacts DEF Start, files, processes, observers
    <2> QED BY <2>1, <2>2 DEF CredentialsOK, Holds
  <1>2. ASSUME NEW p \in Tool, Identify(p) PROVE CredentialsOK'
    <2>1. /\ \A q \in Tool \ {p} : proc'[q] = proc[q]
          /\ proc'[p].pc \notin Holding \/ FileOf(proc'[p].job) = "table"
      BY <1>2, IdentifyFacts, JobFacts DEF Ended, Holding, Job, ProvisionJob
    <2>2. accounts' = accounts /\ raced \subseteq raced'
      BY <1>2, IdentifyFacts DEF Identify, files, processes, observers
    <2> QED BY <2>1, <2>2 DEF CredentialsOK, Holds
  <1>3. ASSUME NEW p \in Tool, RegisterAccount(p) PROVE CredentialsOK'
    <2>1. /\ \A q \in Tool \ {p} : proc'[q] = proc[q]
          /\ proc'[p].pc = "read" /\ raced \subseteq raced'
      BY <1>3, RegisterFacts
    <2>2. ASSUME NEW q \in Tool, Holds(q, "config"), proc[q].new.credentials # None,
                 raced' \cap {"accounts", "config"} = {}
          PROVE  accounts'[proc[q].new.id] = proc[q].new.credentials
      <3>1. /\ accounts[proc[q].new.id] = proc[q].new.credentials
            /\ "accounts" \notin raced'
        BY <2>1, <2>2 DEF CredentialsOK
      <3>2. proc[q].new \in Config
        BY <2>2, HoldFacts DEF Holds
      <3>3. proc[q].new.id \in {Console, NoId}
        BY <3>2 DEF Config
      <3> QED BY <1>3, <2>2, <3>1, <3>3, AccountsStay
    <2> QED BY <2>1, <2>2 DEF CredentialsOK, Holds, Holding
  <1>4. ASSUME NEW p \in Tool, ReadTable(p) PROVE CredentialsOK'
    <2>1. /\ \A q \in Tool \ {p} : proc'[q] = proc[q]
          /\ proc'[p].pc \notin Holding \/ FileOf(proc'[p].job) = "table"
      BY <1>4, ReadTableFacts, JobFacts DEF Ended, Holding, Job, ProvisionJob
    <2>2. accounts' = accounts /\ raced \subseteq raced'
      BY <1>4, ReadTableFacts DEF ReadTable, files, processes, observers
    <2> QED BY <2>1, <2>2 DEF CredentialsOK, Holds
  <1>5. ASSUME NEW p \in Tool, ReadConfig(p) PROVE CredentialsOK'
    <2>1. /\ \A q \in Tool \ {p} : proc'[q] = proc[q]
          /\ accounts' = accounts /\ raced \subseteq raced'
      BY <1>5, ReadConfigFacts DEF ReadConfig, files, processes, observers
    <2>2. ASSUME proc'[p].pc \in Holding, proc'[p].new.credentials # None,
                 raced' \cap {"accounts", "config"} = {}
          PROVE  accounts[proc'[p].new.id] = proc'[p].new.credentials
      <3>1. CASE /\ proc[p].job = Mail
                 /\ "config" \notin raced' => config = proc[p].known
                 /\ proc'[p].new = MailConfigured(config, proc[p].credentials)
        <4>1. "config" \notin raced' /\ "accounts" \notin raced
          BY <2>1, <2>2
        <4>2. proc[p].pc = "read"
          BY <1>5 DEF ReadConfig
        <4>3. accounts[proc[p].known.id] = proc[p].credentials
          BY <3>1, <4>1, <4>2 DEF KnownOK
        <4>4. proc'[p].new.id = config.id /\ proc'[p].new.credentials = proc[p].credentials
          BY <3>1 DEF MailConfigured
        <4> QED BY <3>1, <4>1, <4>3, <4>4
      <3>2. CASE proc'[p].new = Bootstrapped(config) /\ config \in Config
        <4>1. proc'[p].new.id = config.id /\ proc'[p].new.credentials = config.credentials
          BY <3>2 DEF Bootstrapped
        <4>2. raced \cap {"accounts", "config"} = {} /\ config # Torn
          BY <2>1, <2>2, <3>2, MarkAssumption
        <4> QED BY <2>2, <4>1, <4>2 DEF ConfiguredConsoleIsKnown
      <3>3. proc'[p] # Ended
        BY <2>2 DEF Ended, Holding
      <3> QED BY <1>5, <3>1, <3>2, <3>3, ReadConfigFacts
    <2> QED BY <2>1, <2>2 DEF CredentialsOK, Holds
  <1>6. ASSUME NEW p \in Tool, CopyBackup(p) PROVE CredentialsOK'
    <2>1. /\ proc[p].pc \in Holding /\ proc'[p].job = proc[p].job /\ proc'[p].new = proc[p].new
          /\ \A q \in Tool \ {p} : proc'[q] = proc[q]
      BY <1>6, CopyFacts
    <2>2. accounts' = accounts /\ raced \subseteq raced'
      BY <1>6, CopyFacts DEF CopyBackup
    <2> QED BY <2>1, <2>2 DEF CredentialsOK, Holds
  <1>7. ASSUME NEW p \in Tool, Truncate(p) PROVE CredentialsOK'
    <2>1. /\ proc[p].pc \in Holding /\ proc'[p].job = proc[p].job /\ proc'[p].new = proc[p].new
          /\ \A q \in Tool \ {p} : proc'[q] = proc[q]
      BY <1>7, TruncateFacts
    <2>2. accounts' = accounts /\ raced \subseteq raced'
      BY <1>7, TruncateFacts DEF Truncate
    <2> QED BY <2>1, <2>2 DEF CredentialsOK, Holds
  <1>8. ASSUME NEW p \in Tool, WriteFile(p) PROVE CredentialsOK'
    <2>1. /\ \A q \in Tool \ {p} : proc'[q] = proc[q]
          /\ proc'[p].pc \notin Holding \/ FileOf(proc'[p].job) = "table"
      BY <1>8, WriteFacts, JobFacts DEF Ended, Holding, Job, ProvisionJob
    <2>2. accounts' = accounts /\ raced \subseteq raced'
      BY <1>8, WriteFacts DEF WriteFile, files, processes, observers
    <2> QED BY <2>1, <2>2 DEF CredentialsOK, Holds
  <1>9. ASSUME NEW p \in Tool, Stop(p) PROVE CredentialsOK'
    <2>1. /\ \A q \in Tool \ {p} : proc'[q] = proc[q]
          /\ proc'[p].pc \notin Holding \/ FileOf(proc'[p].job) = "table"
      BY <1>9, StopFacts, JobFacts DEF Ended, Holding, Job, ProvisionJob
    <2>2. accounts' = accounts /\ raced \subseteq raced'
      BY <1>9, StopFacts DEF Stop, files, processes, observers
    <2> QED BY <2>1, <2>2 DEF CredentialsOK, Holds
  <1>10. ASSUME ServiceRead PROVE CredentialsOK'
    BY <1>10 DEF ServiceRead, CredentialsOK, Holds, files, processes, observers
  <1>11. ASSUME ServiceReplace PROVE CredentialsOK'
    <2>1. proc' = proc /\ raced \subseteq raced'
      BY <1>11, ReplaceFacts DEF ServiceReplace
    <2>2. ASSUME NEW q \in Tool, Holds(q, "config"), proc[q].new.credentials # None,
                 raced' \cap {"accounts", "config"} = {}
          PROVE  accounts'[proc[q].new.id] = proc[q].new.credentials
      <3>1. /\ accounts[proc[q].new.id] = proc[q].new.credentials
            /\ "accounts" \notin raced'
        BY <2>1, <2>2 DEF CredentialsOK
      <3>2. proc[q].new \in Config
        BY <2>2, HoldFacts DEF Holds
      <3>3. proc[q].new.id \in {Console, NoId}
        BY <3>2 DEF Config
      <3> QED BY <1>11, <2>2, <3>1, <3>3, AccountsStay
    <2> QED BY <2>1, <2>2 DEF CredentialsOK, Holds, Holding
  <1>12. ASSUME NEW l \in Launcher, Launch(l) PROVE CredentialsOK'
    BY <1>12 DEF Launch, CredentialsOK, Holds, files, processes, observers
  <1>13. ASSUME NEW l \in Launcher, HealthCheck(l) PROVE CredentialsOK'
    BY <1>13 DEF HealthCheck, CredentialsOK, Holds, files, processes, observers
  <1>14. ASSUME NEW l \in Launcher, ConsoleReturns(l) PROVE CredentialsOK'
    BY <1>14 DEF ConsoleReturns, CredentialsOK, Holds, files, processes, observers
  <1>15. ASSUME GenerateId PROVE CredentialsOK'
    BY <1>15 DEF GenerateId, CredentialsOK, Holds, files, processes, observers
  <1>16. ASSUME NEW s \in Slot, RunTask(s) PROVE CredentialsOK'
    BY <1>16 DEF RunTask, CredentialsOK, Holds, files, processes, observers
  <1>17. CASE UNCHANGED vars
    BY <1>17 DEF vars, files, processes, observers, CredentialsOK, Holds
  <1> QED
    BY <1>1, <1>2, <1>3, <1>4, <1>5, <1>6, <1>7, <1>8, <1>9, <1>10, <1>11, <1>12, <1>13,
       <1>14, <1>15, <1>16, <1>17
       DEF Next

\* Every step keeps a configured console known.
LEMMA NextConsole == IInv /\ [Next]_vars => ConfiguredConsoleIsKnown'
  <1> SUFFICES ASSUME IInv, [Next]_vars PROVE ConfiguredConsoleIsKnown'
    OBVIOUS
  <1> USE DEF IInv
  <1>1. ASSUME NEW p \in Tool, Start(p) PROVE ConfiguredConsoleIsKnown'
    BY <1>1 DEF Start, ConfiguredConsoleIsKnown, files, processes, observers
  <1>2. ASSUME NEW p \in Tool, Identify(p) PROVE ConfiguredConsoleIsKnown'
    BY <1>2 DEF Identify, ConfiguredConsoleIsKnown, files, processes, observers
  <1>3. ASSUME NEW p \in Tool, RegisterAccount(p) PROVE ConfiguredConsoleIsKnown'
    <2>1. config' = config /\ raced \subseteq raced'
      BY <1>3, RegisterFacts DEF RegisterAccount
    <2>2. ASSUME config # Torn, config.credentials # None, raced' \cap {"accounts", "config"} = {}
          PROVE  accounts'[config.id] = config.credentials
      <3>1. accounts[config.id] = config.credentials /\ "accounts" \notin raced'
        BY <2>1, <2>2 DEF ConfiguredConsoleIsKnown
      <3>2. config.id \in {Console, NoId}
        BY <2>2 DEF TypeOK, Config
      <3> QED BY <1>3, <2>2, <3>1, <3>2, AccountsStay
    <2> QED BY <2>1, <2>2 DEF ConfiguredConsoleIsKnown
  <1>4. ASSUME NEW p \in Tool, ReadTable(p) PROVE ConfiguredConsoleIsKnown'
    BY <1>4 DEF ReadTable, ConfiguredConsoleIsKnown, files, processes, observers
  <1>5. ASSUME NEW p \in Tool, ReadConfig(p) PROVE ConfiguredConsoleIsKnown'
    <2>1. config' = config /\ raced \subseteq raced' /\ accounts' = accounts
      BY <1>5, ReadConfigFacts DEF ReadConfig, files, processes, observers
    <2> QED BY <2>1 DEF ConfiguredConsoleIsKnown
  <1>6. ASSUME NEW p \in Tool, CopyBackup(p) PROVE ConfiguredConsoleIsKnown'
    <2>1. config' = config /\ raced \subseteq raced' /\ accounts' = accounts
      BY <1>6, CopyFacts DEF CopyBackup, files, processes, observers
    <2> QED BY <2>1 DEF ConfiguredConsoleIsKnown
  <1>7. ASSUME NEW p \in Tool, Truncate(p) PROVE ConfiguredConsoleIsKnown'
    <2>1. config' \in {config, Torn} /\ raced \subseteq raced' /\ accounts' = accounts
      BY <1>7, TruncateFacts DEF Truncate
    <2> QED BY <2>1 DEF ConfiguredConsoleIsKnown
  <1>8. ASSUME NEW p \in Tool, WriteFile(p) PROVE ConfiguredConsoleIsKnown'
    <2>1. /\ config' = config \/ (config' = proc[p].new /\ Holds(p, "config"))
          /\ raced \subseteq raced' /\ accounts' = accounts
      BY <1>8, WriteFacts DEF Holds
    <2> QED BY <2>1 DEF ConfiguredConsoleIsKnown, CredentialsOK
  <1>9. ASSUME NEW p \in Tool, Stop(p) PROVE ConfiguredConsoleIsKnown'
    BY <1>9 DEF Stop, ConfiguredConsoleIsKnown, files, processes, observers
  <1>10. ASSUME ServiceRead PROVE ConfiguredConsoleIsKnown'
    BY <1>10 DEF ServiceRead, ConfiguredConsoleIsKnown, files, processes, observers
  <1>11. ASSUME ServiceReplace PROVE ConfiguredConsoleIsKnown'
    <2>1. config' = config /\ raced \subseteq raced'
      BY <1>11, ReplaceFacts DEF ServiceReplace
    <2>2. ASSUME config # Torn, config.credentials # None, raced' \cap {"accounts", "config"} = {}
          PROVE  accounts'[config.id] = config.credentials
      <3>1. accounts[config.id] = config.credentials /\ "accounts" \notin raced'
        BY <2>1, <2>2 DEF ConfiguredConsoleIsKnown
      <3>2. config.id \in {Console, NoId}
        BY <2>2 DEF TypeOK, Config
      <3> QED BY <1>11, <2>2, <3>1, <3>2, AccountsStay
    <2> QED BY <2>1, <2>2 DEF ConfiguredConsoleIsKnown
  <1>12. ASSUME NEW l \in Launcher, Launch(l) PROVE ConfiguredConsoleIsKnown'
    BY <1>12 DEF Launch, ConfiguredConsoleIsKnown, files, processes, observers
  <1>13. ASSUME NEW l \in Launcher, HealthCheck(l) PROVE ConfiguredConsoleIsKnown'
    BY <1>13 DEF HealthCheck, ConfiguredConsoleIsKnown, files, processes, observers
  <1>14. ASSUME NEW l \in Launcher, ConsoleReturns(l) PROVE ConfiguredConsoleIsKnown'
    BY <1>14 DEF ConsoleReturns, ConfiguredConsoleIsKnown, files, processes, observers
  <1>15. ASSUME GenerateId PROVE ConfiguredConsoleIsKnown'
    BY <1>15 DEF GenerateId, Profile, ConfiguredConsoleIsKnown
  <1>16. ASSUME NEW s \in Slot, RunTask(s) PROVE ConfiguredConsoleIsKnown'
    BY <1>16 DEF RunTask, ConfiguredConsoleIsKnown, files, processes, observers
  <1>17. CASE UNCHANGED vars
    BY <1>17 DEF vars, files, processes, observers, ConfiguredConsoleIsKnown
  <1> QED
    BY <1>1, <1>2, <1>3, <1>4, <1>5, <1>6, <1>7, <1>8, <1>9, <1>10, <1>11, <1>12, <1>13,
       <1>14, <1>15, <1>16, <1>17
       DEF Next

\* Every step leaves a launch its service.
LEMMA NextOwn == IInv /\ [Next]_vars => OwnServiceOutlivesConsole'
  <1> SUFFICES ASSUME IInv, [Next]_vars PROVE OwnServiceOutlivesConsole'
    OBVIOUS
  <1> USE DEF IInv
  <1>1. ASSUME NEW p \in Tool, Start(p) PROVE OwnServiceOutlivesConsole'
    BY <1>1 DEF Start, OwnServiceOutlivesConsole, files, processes, observers
  <1>2. ASSUME NEW p \in Tool, Identify(p) PROVE OwnServiceOutlivesConsole'
    BY <1>2 DEF Identify, OwnServiceOutlivesConsole, files, processes, observers
  <1>3. ASSUME NEW p \in Tool, RegisterAccount(p) PROVE OwnServiceOutlivesConsole'
    BY <1>3 DEF RegisterAccount, OwnServiceOutlivesConsole, files, processes, observers
  <1>4. ASSUME NEW p \in Tool, ReadTable(p) PROVE OwnServiceOutlivesConsole'
    BY <1>4 DEF ReadTable, OwnServiceOutlivesConsole, files, processes, observers
  <1>5. ASSUME NEW p \in Tool, ReadConfig(p) PROVE OwnServiceOutlivesConsole'
    BY <1>5 DEF ReadConfig, OwnServiceOutlivesConsole, files, processes, observers
  <1>6. ASSUME NEW p \in Tool, CopyBackup(p) PROVE OwnServiceOutlivesConsole'
    BY <1>6 DEF CopyBackup, OwnServiceOutlivesConsole, files, processes, observers
  <1>7. ASSUME NEW p \in Tool, Truncate(p) PROVE OwnServiceOutlivesConsole'
    BY <1>7 DEF Truncate, OwnServiceOutlivesConsole, files, processes, observers
  <1>8. ASSUME NEW p \in Tool, WriteFile(p) PROVE OwnServiceOutlivesConsole'
    BY <1>8 DEF WriteFile, OwnServiceOutlivesConsole, files, processes, observers
  <1>9. ASSUME NEW p \in Tool, Stop(p) PROVE OwnServiceOutlivesConsole'
    BY <1>9 DEF Stop, OwnServiceOutlivesConsole, files, processes, observers
  <1>10. ASSUME ServiceRead PROVE OwnServiceOutlivesConsole'
    BY <1>10 DEF ServiceRead, OwnServiceOutlivesConsole, files, processes, observers
  <1>11. ASSUME ServiceReplace PROVE OwnServiceOutlivesConsole'
    BY <1>11 DEF ServiceReplace, OwnServiceOutlivesConsole, files, processes, observers
  <1>12. ASSUME NEW l \in Launcher, Launch(l) PROVE OwnServiceOutlivesConsole'
    BY <1>12, MarkAssumption DEF Launch, TypeOK, OwnServiceOutlivesConsole
  <1>13. ASSUME NEW l \in Launcher, HealthCheck(l) PROVE OwnServiceOutlivesConsole'
    BY <1>13, MarkAssumption DEF HealthCheck, TypeOK, OwnServiceOutlivesConsole
  <1>14. ASSUME NEW l \in Launcher, ConsoleReturns(l) PROVE OwnServiceOutlivesConsole'
    BY <1>14, MarkAssumption DEF ConsoleReturns, TypeOK, OwnServiceOutlivesConsole
  <1>15. ASSUME GenerateId PROVE OwnServiceOutlivesConsole'
    BY <1>15 DEF GenerateId, OwnServiceOutlivesConsole, files, processes, observers
  <1>16. ASSUME NEW s \in Slot, RunTask(s) PROVE OwnServiceOutlivesConsole'
    BY <1>16 DEF RunTask, OwnServiceOutlivesConsole, files, processes, observers
  <1>17. CASE UNCHANGED vars
    BY <1>17 DEF vars, files, processes, observers, OwnServiceOutlivesConsole
  <1> QED
    BY <1>1, <1>2, <1>3, <1>4, <1>5, <1>6, <1>7, <1>8, <1>9, <1>10, <1>11, <1>12, <1>13,
       <1>14, <1>15, <1>16, <1>17
       DEF Next

\* The invariant is inductive.
LEMMA NextInv == IInv /\ [Next]_vars => IInv'
  BY NextType, NextHeld, NextCopy, NextCut, NextWrite, NextFit, NextKnown, NextCredentials,
     NextTorn, NextConsole, NextOwn DEF IInv

------------------------------------------------------------------------------
(* What was provided passes, if the manifests have no task in common. *)

\* The preflight does not look at the time at which a task is due.
LEMMA VisitPasses ==
  ASSUME TypeOK, NEW s \in Slot, RunTask(s), NEW m \in Manifest, Passes(table, m)
  PROVE  Passes(table', m)
  <1> SUFFICES ASSUME NEW task \in m.tasks, NEW i \in TaskIssues(table', m, task)
               PROVE  i \in Inherited(task)
    BY DEF Passes
  <1>1. task.slot \in Slot
    BY ManifestAssumption
  <1>2. table[task.slot] # None /\ TaskAt(table, task.slot) = TaskId(m, task)
    BY PassFacts
  <1>3. /\ table'[task.slot] # None
        /\ table'[task.slot].title = table[task.slot].title
        /\ table'[task.slot].file = table[task.slot].file
        /\ table'[task.slot].url = table[task.slot].url
        /\ table'[task.slot].flags = table[task.slot].flags
        /\ table'[task.slot].kind = table[task.slot].kind
    BY <1>1, <1>2, VisitFacts
  <1>4. TaskAt(table', task.slot) = TaskId(m, task)
    BY <1>2, <1>3 DEF TaskAt
  <1>5. i \in TaskIssues(table, m, task)
    BY <1>2, <1>3, <1>4, IssueFacts, IssuesOf
  <1> QED BY <1>5 DEF Passes

\* Every step keeps what the provisions wrote passing.
LEMMA NextPass == ManifestsApart /\ IInv /\ PassOK /\ [Next]_vars => PassOK'
  <1> SUFFICES ASSUME ManifestsApart, IInv, PassOK, [Next]_vars PROVE PassOK'
    OBVIOUS
  <1> USE DEF IInv
  <1>1. ASSUME NEW p \in Tool, Start(p) PROVE PassOK'
    <2>1. /\ \A q \in Tool \ {p} : proc'[q] = proc[q]
          /\ proc'[p].pc # "write"
      BY <1>1, StartFacts DEF Ended
    <2>2. raced \subseteq raced' /\ table' = table /\ provided' = provided
      BY <1>1, StartFacts DEF Start, files, processes, observers
    <2> QED BY <2>1, <2>2 DEF PassOK, Holds
  <1>2. ASSUME NEW p \in Tool, Identify(p) PROVE PassOK'
    <2>1. /\ \A q \in Tool \ {p} : proc'[q] = proc[q]
          /\ proc'[p].pc # "write"
      BY <1>2, IdentifyFacts DEF Ended
    <2>2. raced \subseteq raced' /\ table' = table /\ provided' = provided
      BY <1>2, IdentifyFacts DEF Identify, files, processes, observers
    <2> QED BY <2>1, <2>2 DEF PassOK, Holds
  <1>3. ASSUME NEW p \in Tool, RegisterAccount(p) PROVE PassOK'
    <2>1. /\ \A q \in Tool \ {p} : proc'[q] = proc[q]
          /\ proc'[p].pc # "write"
      BY <1>3, RegisterFacts DEF Ended
    <2>2. raced \subseteq raced' /\ table' = table /\ provided' = provided
      BY <1>3, RegisterFacts DEF RegisterAccount, files, processes, observers
    <2> QED BY <2>1, <2>2 DEF PassOK, Holds
  <1>4. ASSUME NEW p \in Tool, ReadTable(p) PROVE PassOK'
    <2>1. /\ \A q \in Tool \ {p} : proc'[q] = proc[q]
          /\ proc'[p].pc # "write"
      BY <1>4, ReadTableFacts DEF Ended
    <2>2. raced \subseteq raced' /\ table' = table /\ provided' = provided
      BY <1>4, ReadTableFacts DEF ReadTable, files, processes, observers
    <2> QED BY <2>1, <2>2 DEF PassOK, Holds
  <1>5. ASSUME NEW p \in Tool, ReadConfig(p) PROVE PassOK'
    <2>1. /\ \A q \in Tool \ {p} : proc'[q] = proc[q]
          /\ proc'[p].pc # "write"
      BY <1>5, ReadConfigFacts DEF Ended
    <2>2. raced \subseteq raced' /\ table' = table /\ provided' = provided
      BY <1>5, ReadConfigFacts DEF ReadConfig, files, processes, observers
    <2> QED BY <2>1, <2>2 DEF PassOK, Holds
  <1>6. ASSUME NEW p \in Tool, CopyBackup(p) PROVE PassOK'
    <2>1. /\ \A q \in Tool \ {p} : proc'[q] = proc[q]
          /\ proc'[p].pc # "write"
      BY <1>6, CopyFacts DEF Ended
    <2>2. raced \subseteq raced' /\ table' = table /\ provided' = provided
      BY <1>6, CopyFacts DEF CopyBackup, files, processes, observers
    <2> QED BY <2>1, <2>2 DEF PassOK, Holds
  <1>7. ASSUME NEW p \in Tool, Truncate(p) PROVE PassOK'
    <2> SUFFICES ASSUME "table" \notin raced' PROVE PassOK'
      BY DEF PassOK
    <2> DEFINE f == FileOf(proc[p].job)
               m == proc[p].job.manifest
    <2>1. /\ "table" \notin raced /\ provided' = provided /\ proc[p].pc \in Holding
          /\ proc'[p].job = proc[p].job /\ proc'[p].new = proc[p].new
          /\ \A q \in Tool \ {p} : proc'[q] = proc[q]
          /\ f \in {"table", "config"}
      BY <1>7, TruncateFacts DEF Truncate
    <2>2. CASE f = "config"
      <3>1. table' = table
        BY <1>7, <2>2, TruncateFacts
      <3>2. ~ Holds(p, "table")'
        BY <2>1, <2>2 DEF Holds
      <3> QED BY <2>1, <3>1, <3>2 DEF PassOK, Holds
    <2>3. CASE f = "table"
      <3>1. table' = Torn /\ Holds(p, "table")
        BY <1>7, <2>1, <2>3, TruncateFacts DEF Holds
      <3>2. table = proc[p].old
        BY <1>7, <2>3, TruncateFacts DEF Content
      <3>3. table \in Table /\ table # Torn /\ m \in Manifest
        <4>1. "table" # "config"
          OBVIOUS
        <4>2. proc[p].job \in ProvisionJob /\ proc[p].old \in Table
          BY <2>1, <2>3, <4>1, HoldFacts DEF Holds
        <4> QED BY <2>1, <3>2, <4>2, HoldFacts, JobFacts
      <3>4. ~ Refused(Pruned(table, m), m) /\ proc[p].new = Provisioned(Pruned(table, m), m)
        BY <3>1, <3>2 DEF HeldOK
      <3>5. Passes(proc[p].new, m)
        BY <3>3, <3>4, PrunedFacts, OwnPasses
      <3>6. ASSUME NEW n \in provided, n # m PROVE Passes(proc[p].new, n)
        <4>1. Passes(table, n) /\ n \in Manifest
          BY <2>1, <3>3 DEF PassOK, TypeOK
        <4> QED BY <3>3, <3>4, <3>6, <4>1, OthersPass
      <3>7. ASSUME NEW q \in Tool, proc'[q].pc = "write", Holds(q, "table")'
            PROVE  q = p
        <4> SUFFICES ASSUME q # p PROVE FALSE
          OBVIOUS
        <4>1. proc[q].pc = "write" /\ FileOf(proc[q].job) = "table"
          BY <2>1, <3>7 DEF Holds
        <4> QED BY <2>1, <3>3, <4>1 DEF WriteOK, Content
      <3> QED BY <2>1, <3>1, <3>5, <3>6, <3>7 DEF PassOK
    <2> QED BY <2>1, <2>2, <2>3
  <1>8. ASSUME NEW p \in Tool, WriteFile(p) PROVE PassOK'
    <2> SUFFICES ASSUME "table" \notin raced' PROVE PassOK'
      BY DEF PassOK
    <2> DEFINE f == FileOf(proc[p].job)
    <2>1. /\ "table" \notin raced /\ proc[p].pc = "write" /\ proc'[p].pc = "ended"
          /\ proc[p].pc \in Holding
          /\ \A q \in Tool \ {p} : proc'[q] = proc[q]
          /\ f \in {"table", "config"}
      BY <1>8, WriteFacts
    <2>2. CASE f = "config"
      <3>1. table' = table /\ provided' = provided
        BY <1>8, <2>2, WriteFacts
      <3> QED BY <2>1, <3>1 DEF PassOK, Holds
    <2>3. CASE f = "table"
      <3>1. /\ table' = proc[p].new /\ provided' = provided \cup {proc[p].job.manifest}
            /\ Holds(p, "table")
        BY <1>8, <2>1, <2>3, WriteFacts DEF Holds
      <3>2. ASSUME NEW q \in Tool, proc'[q].pc = "write", Holds(q, "table")'
            PROVE  FALSE
        <4>1. q # p /\ proc[q].pc = "write" /\ FileOf(proc[q].job) = "table"
          BY <2>1, <3>2 DEF Holds
        <4> QED BY <2>1, <3>1, <4>1 DEF WriteOK, Holds
      <3> QED BY <2>1, <3>1, <3>2 DEF PassOK
    <2> QED BY <2>1, <2>2, <2>3
  <1>9. ASSUME NEW p \in Tool, Stop(p) PROVE PassOK'
    <2>1. /\ \A q \in Tool \ {p} : proc'[q] = proc[q]
          /\ proc'[p].pc # "write"
      BY <1>9, StopFacts DEF Ended
    <2>2. raced \subseteq raced' /\ table' = table /\ provided' = provided
      BY <1>9, StopFacts DEF Stop, files, processes, observers
    <2> QED BY <2>1, <2>2 DEF PassOK, Holds
  <1>10. ASSUME ServiceRead PROVE PassOK'
    BY <1>10 DEF ServiceRead, PassOK, Holds, files, processes, observers
  <1>11. ASSUME ServiceReplace PROVE PassOK'
    <2>1. UNCHANGED <<proc, table, provided>> /\ raced \subseteq raced'
      BY <1>11, ReplaceFacts DEF ServiceReplace
    <2> QED BY <2>1 DEF PassOK, Holds
  <1>12. ASSUME NEW l \in Launcher, Launch(l) PROVE PassOK'
    BY <1>12 DEF Launch, PassOK, Holds, files, processes, observers
  <1>13. ASSUME NEW l \in Launcher, HealthCheck(l) PROVE PassOK'
    BY <1>13 DEF HealthCheck, PassOK, Holds, files, processes, observers
  <1>14. ASSUME NEW l \in Launcher, ConsoleReturns(l) PROVE PassOK'
    BY <1>14 DEF ConsoleReturns, PassOK, Holds, files, processes, observers
  <1>15. ASSUME GenerateId PROVE PassOK'
    BY <1>15 DEF GenerateId, PassOK, Holds, files, processes, observers
  <1>16. ASSUME NEW s \in Slot, RunTask(s) PROVE PassOK'
    <2>1. UNCHANGED <<proc, raced, provided>> /\ table # Torn /\ table \in Table
      BY <1>16, VisitFacts DEF RunTask, files, processes, observers
    <2>2. ASSUME NEW m \in provided, Passes(table, m) PROVE Passes(table', m)
      BY <1>16, <2>2, VisitPasses DEF TypeOK
    <2> QED BY <2>1, <2>2 DEF PassOK, Holds
  <1>17. CASE UNCHANGED vars
    BY <1>17 DEF vars, files, processes, observers, PassOK, Holds
  <1> QED
    BY <1>1, <1>2, <1>3, <1>4, <1>5, <1>6, <1>7, <1>8, <1>9, <1>10, <1>11, <1>12, <1>13,
       <1>14, <1>15, <1>16, <1>17
       DEF Next

------------------------------------------------------------------------------
(* The theorems. *)

\* The invariant holds in every state.
LEMMA Invariance == Spec => []IInv
  BY InitInv, NextInv, PTL DEF Spec

\* A manifest that was provided passes, and so does a configured console.
LEMMA PassProperty ==
  ASSUME IInv, PassOK PROVE PreparedProfilePasses
  <1>1. ASSUME table # Torn, "table" \notin raced, NEW m \in provided, NEW task \in m.tasks
        PROVE  TaskIssues(table, m, task) \subseteq Inherited(task)
    BY <1>1 DEF PassOK, Passes
  <1>2. ASSUME config # Torn, config.credentials # None PROVE AccountIssues(config) = {}
    <2>1. Fit(config) /\ config \in Config
      BY <1>2 DEF IInv, TypeOK, FitOK
    <2>2. config.sound
      BY <2>1 DEF Config
    <2>3. config.stage = "registered" /\ config.booting /\ config.id = Console
      BY <1>2, <2>1 DEF Fit
    <2> QED BY <1>2, <2>2, <2>3, MarkAssumption DEF AccountIssues
  <1> QED BY <1>1, <1>2 DEF PreparedProfilePasses

\* Every variable has its type: what a command holds between two steps is of the
\* file it edits, and provision always computes a table.
THEOREM TypeCorrect == Spec => []TypeOK
  BY Invariance, PTL DEF IInv

\* However many commands run, stop and overlap: a file left torn is found in a
\* dated copy as the truncation found it, if no command went on from an older
\* reading or replaced a copy still needed.
THEOREM TornFilesCanBeRestored == Spec => []TornFileHasABackup
  BY Invariance, PTL DEF IInv

\* mail-config leaves the credentials that the service knows for the console,
\* whatever other commands, the service and the console do between its steps.
THEOREM ConfiguredConsolesAreKnown == Spec => []ConfiguredConsoleIsKnown
  BY Invariance, PTL DEF IInv

\* The service a launch has started is there until its own console returns.
THEOREM ServicesOutliveConsoles == Spec => []OwnServiceOutlivesConsole
  BY Invariance, PTL DEF IInv

\* In any table reached, a provision that is not refused converges: repeated, it
\* is accepted and changes nothing, and it spares entries of other titles.
THEOREM ProvisionsConverge == Spec => []ProvisionConverges
  <1>1. TypeOK => ProvisionConverges
    <2> SUFFICES ASSUME TypeOK, table # Torn, NEW m \in Manifest,
                        ~ Refused(Pruned(table, m), m)
                 PROVE  LET once == Provisioned(Pruned(table, m), m) IN
                        /\ ~ Refused(Pruned(once, m), m)
                        /\ Provisioned(Pruned(once, m), m) = once
                        /\ \A s \in Slot \ {task.slot : task \in m.tasks} :
                             table[s] # None /\ table[s].title # m.title => once[s] = table[s]
                        /\ \A s \in Slot : m.prune => ~ Duplicate(once, m, s)
      BY Zenon DEF ProvisionConverges
    <2>1. table \in Table
      BY DEF TypeOK
    <2> QED BY <2>1, Converges
  <1> QED BY <1>1, TypeCorrect, PTL

\* For manifests that have no task in common, what was provisioned and
\* configured passes the preflight, as long as no command wrote from an older
\* reading, whatever the scheduler and the other commands did since.
THEOREM PreparedProfilesPass == ManifestsApart /\ Spec => []PreparedProfilePasses
  <1>1. Init => PassOK
    <2> SUFFICES ASSUME Init PROVE PassOK
      OBVIOUS
    <2>1. provided = {} /\ \A p \in Tool : proc[p].pc = "ended"
      BY DEF Init, Ended
    <2> QED BY <2>1 DEF PassOK
  <1> SUFFICES ASSUME ManifestsApart PROVE Spec => []PreparedProfilePasses
    OBVIOUS
  <1>2. IInv /\ PassOK /\ [Next]_vars => PassOK'
    BY NextPass
  <1>3. IInv /\ PassOK => PreparedProfilePasses
    BY PassProperty
  <1> QED BY <1>1, <1>2, <1>3, Invariance, PTL DEF Spec

------------------------------------------------------------------------------
(* The server (ContentServer), for any manifests, publications and routes. *)

\* Every payload of a manifest has a place among the files, filled or not, and an
\* update fills it.
FilesOK ==
  /\ DOMAIN live = Serving!GuidePaths \cup Serving!OtherPaths
  /\ todo # <<>> => building # Serving!Absent

\* What preflight has looked at and nothing takes away: what it has found of manifests,
\* files and keys.
Vetted(list, guide, news, nand) ==
  /\ list \in Listing /\ Len(list) > 0
  /\ Serving!GuideFits(list, guide) /\ Serving!NewsFits(list, news)
  /\ Serving!Missing(list, guide) = {}
  /\ Serving!Undisputed(list)
  /\ nand => Serving!KeysArePresent(list)

\* The same of arguments whose publications may have been loaded anew since.
VettedArguments(a) ==
  /\ Serving!SingleBase(a)
  /\ \E guide, news : /\ a.guide <=> guide # Serving!Absent
                      /\ a.news <=> news # Serving!Absent
                      /\ Vetted(a.list, guide, news, a.nand)

\* What preflight has passed is still as it was found, at each stage of the server.
StagesOK ==
  /\ server.stage = "passed" => VettedArguments(server.args)
  /\ server.stage = "starting" /\ server.passed =>
       Vetted(server.list, server.guide, server.news, server.nand)
  /\ server.stage = "up" /\ server.passed =>
       Vetted(server.list, server.guide, server.news, FALSE)
  /\ server.stage # "up" => answers = {}

\* The inductive invariant of the server.
ServerInv ==
  /\ FilesOK /\ StagesOK
  /\ Serving!PreflightAgreesWithServe /\ Serving!OneEditionPerProcess

\* Where a task comes from.
LEMMA TaskIsListed ==
  ASSUME NEW list, NEW t \in Serving!Tasks(list)
  PROVE  /\ t[1] \in DOMAIN list /\ t[2] \in list[t[1]].tasks
         /\ t \in Serving!Items(list)
  BY DEF Serving!Tasks, Serving!Items

\* The payload of a listed item has a place.
LEMMA PayloadHasPlace ==
  ASSUME FilesOK, NEW list \in Listing, NEW i \in Serving!Items(list)
  PROVE  i[2].payload \in DOMAIN live
  <1>1. i[1] \in DOMAIN list /\ i[2] \in Serving!ItemsOf(list[i[1]])
    BY DEF Serving!Items, Serving!Tasks, Serving!Assets, Serving!ItemsOf
  <1>2. list[i[1]] \in Serving!Manifests
    BY <1>1 DEF Serving!Manifests, Serving!Range
  <1>3. i[2] \in UNION {Serving!ItemsOf(m) : m \in Serving!Manifests}
    BY <1>1, <1>2
  <1> QED BY <1>3 DEF FilesOK, Serving!OtherPaths

\* A task's own route is declared by that task alone.
LEMMA DeclaredAlone ==
  ASSUME NEW list, ~ Serving!SameRoutes(list), NEW t \in Serving!Tasks(list)
  PROVE  Serving!Declared(list, t[2].route) = {t[2]}
  <1> DEFINE same == {u \in Serving!Tasks(list) : u[2].route = t[2].route}
  <1>1. same = {t}
    BY DEF Serving!SameRoutes
  <1>2. Serving!Declared(list, t[2].route) = {i[2] : i \in same}
    BY <1>1 DEF Serving!Declared
  <1> QED BY <1>1, <1>2

\* A route of the guide is one by its last part.
LEMMA GuideName ==
  ASSUME NEW route, Serving!InGuide(route)
  PROVE  Serving!Basename(route) \in Serving!GuideNames
  <1>1. CASE route = <<"header.bin">>
    BY <1>1 DEF Serving!Basename, Serving!Last, Serving!GuideNames
  <1>2. CASE Len(route) = 2 /\ route[2] \in {"epg.bin", "str.bin"}
    BY <1>2 DEF Serving!Basename, Serving!Last, Serving!GuideNames
  <1> QED BY <1>1, <1>2 DEF Serving!InGuide

\* What was vetted fits any editions of the publications that were named.
LEMMA VettedAnew ==
  ASSUME NEW list, NEW nand, NEW guide, NEW news, Vetted(list, guide, news, nand),
         NEW g, NEW n, g # Serving!Absent <=> guide # Serving!Absent,
         n # Serving!Absent <=> news # Serving!Absent
  PROVE  Vetted(list, g, n, nand)
  <1>1. Serving!Owned(list, g) = Serving!Owned(list, guide)
    BY DEF Serving!Owned
  <1> QED BY <1>1 DEF Vetted, Serving!GuideFits, Serving!NewsFits, Serving!Missing

\* What is loaded is there when it is named, and only then.
LEMMA LoadedWhenNamed ==
  ASSUME NEW a \in Serving!Arguments, Serving!Loads(a), NEW name \in {"guide", "news"}
  PROVE  a[name] <=> Serving!Loaded(a, name) # Serving!Absent
  BY DEF Serving!Arguments, Serving!Loads, Serving!Loaded, Serving!In

\* No step of an update takes a file away.
LEMMA VettedStays ==
  ASSUME FilesOK, [Serving!Next]_(Serving!vars),
         NEW list, NEW guide, NEW news, NEW nand, Vetted(list, guide, news, nand)
  PROVE  Vetted(list, guide, news, nand)'
  <1>1. \A p \in DOMAIN live : live[p] # Serving!Absent => live'[p] # Serving!Absent
    <2>1. CASE Serving!ReplaceFile
      BY <2>1 DEF Serving!ReplaceFile, FilesOK
    <2>2. CASE UNCHANGED live
      BY <2>2
    <2> QED BY <2>1, <2>2 DEF Serving!Next, Serving!vars, Serving!Tick, Serving!UpdateFails,
          Serving!Stop, Serving!StartUpdate, Serving!Publish, Serving!Preflight,
          Serving!Serve, Serving!Start, Serving!Get
  <1>2. Serving!Missing(list, guide)' = {}
    <2> SUFFICES ASSUME NEW i \in Serving!Items(list) \ Serving!Owned(list, guide)
                 PROVE  live'[i[2].payload] # Serving!Absent
      BY DEF Serving!Missing, Serving!Items, Serving!Tasks, Serving!Assets, Serving!Owned,
         Serving!GuideNames, Serving!Absent
    <2>1. live[i[2].payload] # Serving!Absent /\ list \in Listing
      BY DEF Vetted, Serving!Missing
    <2> QED BY <1>1, <2>1, PayloadHasPlace
  <1>3. /\ Serving!GuideFits(list, guide)' <=> Serving!GuideFits(list, guide)
        /\ Serving!NewsFits(list, news)' <=> Serving!NewsFits(list, news)
        /\ Serving!Undisputed(list)' <=> Serving!Undisputed(list)
        /\ Serving!KeysArePresent(list)' <=> Serving!KeysArePresent(list)
    OBVIOUS
  <1> QED BY <1>2, <1>3 DEF Vetted

\* What preflight passes is vetted.
LEMMA PreparedIsVetted ==
  ASSUME NEW a \in Serving!Arguments, Serving!Prepared(a)
  PROVE  VettedArguments(a)
  <1> DEFINE guide == Serving!Loaded(a, "guide")
             news  == Serving!Loaded(a, "news")
  <1>3. /\ Serving!Loads(a) /\ Serving!SingleBase(a)
        /\ Len(a.list) > 0
        /\ Serving!GuideFits(a.list, guide) /\ Serving!NewsFits(a.list, news)
        /\ Serving!Missing(a.list, guide) = {} /\ Serving!Undisputed(a.list)
        /\ a.nand => Serving!KeysArePresent(a.list)
    <2> HIDE DEF guide, news
    <2>1. guide = Serving!Loaded(a, "guide") /\ news = Serving!Loaded(a, "news")
      BY DEF guide, news
    <2> QED BY <2>1, Zenon DEF Serving!Prepared
  <1>4. a.list \in Listing /\ a.nand \in BOOLEAN
    BY DEF Serving!Arguments
  <1>1. Vetted(a.list, guide, news, a.nand)
    <2> HIDE DEF guide, news
    <2> QED BY <1>3, <1>4, Zenon DEF Vetted
  <1>2. /\ a.guide <=> Serving!Loaded(a, "guide") # Serving!Absent
        /\ a.news <=> Serving!Loaded(a, "news") # Serving!Absent
    BY <1>3, LoadedWhenNamed
  <1> QED BY <1>1, <1>2, <1>3 DEF VettedArguments

\* What was vetted meets no check of serve but the clock's and the keys'.
LEMMA VettedIsServed ==
  ASSUME NEW s, Vetted(s.list, s.guide, s.news, s.nand), NEW fault \in Serving!Faults(s)
  PROVE  fault = "expired" \/ (fault = "keys" /\ ~ s.nand)
  BY DEF Vetted, Serving!Faults, Serving!Undisputed

\* The server's answer to the route of a task that was vetted.
LEMMA ReachableTask ==
  ASSUME FilesOK, Vetted(server.list, server.guide, server.news, FALSE),
         NEW t \in Serving!Tasks(server.list), NEW path, Serving!Reachable(t),
         Serving!Normalize(path) = t[2].route, Serving!Beneath(path) => path = t[2].route
  PROVE  Serving!Answer(server, path) =
           IF t \in Serving!Owned(server.list, server.guide)
             THEN IF Serving!In(server.guide, clock) THEN Serving!Memory(server.guide)
                  ELSE Serving!Failure(503)
           ELSE IF Serving!Regional(t[2].route)
             THEN Serving!Stored(Serving!AreaFile(t[2].route[1], t[2].payload))
           ELSE Serving!Ok(t[2].payload, live[t[2].payload])
  <1> DEFINE route == t[2].route
             owned == Serving!Owned(server.list, server.guide)
             file  == IF Serving!Regional(route)
                        THEN Serving!Stored(Serving!AreaFile(route[1], t[2].payload))
                        ELSE Serving!Ok(t[2].payload, live[t[2].payload])
  <1>1. ~ (server.news # Serving!Absent /\ Serving!Beneath(path))
    BY DEF Vetted, Serving!NewsFits
  <1>2. route \notin Direct /\ (t \in owned => Serving!InGuide(route))
    BY DEF Serving!Reachable
  <1>3. CASE t \in owned
    <2>1. server.guide # Serving!Absent /\ Serving!InGuide(route)
      BY <1>2, <1>3 DEF Serving!Owned
    <2>2. Serving!Basename(route) \in Serving!GuideNames
      BY <2>1, GuideName
    <2>3. Serving!Answer(server, path) = Serving!GuideAnswer(server, route)
      BY <1>1, <2>1, <2>2 DEF Serving!Answer
    <2> QED BY <1>3, <2>1, <2>3 DEF Serving!GuideAnswer
  <1>4. CASE t \notin owned
    <2>1. ~ (server.guide # Serving!Absent /\ Serving!Basename(route) \in Serving!GuideNames)
      BY <1>4 DEF Vetted, Serving!GuideFits
    <2>2. Serving!Answer(server, path) = Serving!FileAnswer(server, route)
      BY <1>1, <1>2, <2>1 DEF Serving!Answer
    <2>3. Serving!Declared(server.list, route) = {t[2]}
      BY DeclaredAlone DEF Vetted, Serving!Undisputed
    <2>4. Serving!FileAnswer(server, route) =
            IF Serving!Regional(route)
              THEN Serving!Stored(Serving!AreaFile(route[1], t[2].payload))
              ELSE Serving!Stored(t[2].payload)
      <3>1. (CHOOSE i \in {t[2]} : TRUE) = t[2]
        OBVIOUS
      <3> QED BY <2>3, <3>1 DEF Serving!FileAnswer
    <2>5. t \in Serving!Items(server.list) /\ server.list \in Listing
      BY TaskIsListed DEF Vetted
    <2>6. live[t[2].payload] # Serving!Absent /\ t[2].payload \in DOMAIN live
      BY <1>4, <2>5, PayloadHasPlace DEF Vetted, Serving!Missing
    <2>7. Serving!Stored(t[2].payload) = Serving!Ok(t[2].payload, live[t[2].payload])
      BY <2>6 DEF Serving!Stored
    <2> QED BY <1>4, <2>2, <2>4, <2>7
  <1> QED BY <1>3, <1>4

\* A behaviour of both starts as one of the server starts, and a step of the
\* server's part is one of the server.
LEMMA ServerSteps ==
  /\ SuiteInit => Serving!Init
  /\ [SuiteNext]_suite =>
       active' = active /\ (active = "server" => [Serving!Next]_(Serving!vars))
  BY DEF SuiteInit, SuiteNext, suite, serving, Serving!vars

\* Files are replaced, and none loses its place.
LEMMA FilesStep ==
  ASSUME FilesOK, [Serving!Next]_(Serving!vars)
  PROVE  FilesOK'
  <1>1. DOMAIN live' = DOMAIN live
    BY DEF Serving!Next, Serving!vars, Serving!Tick, Serving!ReplaceFile,
       Serving!UpdateFails, Serving!Stop, Serving!StartUpdate, Serving!Publish,
       Serving!Preflight, Serving!Serve, Serving!Start, Serving!Get
  <1>2. /\ Serving!GuidePaths' = Serving!GuidePaths
        /\ Serving!OtherPaths' = Serving!OtherPaths
    OBVIOUS
  <1>3. todo' # <<>> => building' # Serving!Absent
    <2>1. CASE \E edition \in Serving!Edition : Serving!StartUpdate(edition)
      BY <2>1 DEF Serving!StartUpdate, Serving!Edition, Serving!Absent
    <2>2. CASE todo' = <<>> \/ (building' = building /\ todo # <<>>) \/ UNCHANGED <<todo, building>>
      BY <2>2 DEF FilesOK
    <2> QED BY <2>1, <2>2 DEF Serving!Next, Serving!vars, Serving!Tick, Serving!ReplaceFile,
          Serving!UpdateFails, Serving!Stop, Serving!Publish, Serving!Preflight,
          Serving!Serve, Serving!Start, Serving!Get
  <1> QED BY <1>1, <1>2, <1>3 DEF FilesOK

\* What was vetted once goes with the server from stage to stage.
LEMMA StagesStep ==
  ASSUME ServerInv, [Serving!Next]_(Serving!vars)
  PROVE  StagesOK' /\ Serving!PreflightAgreesWithServe'
  <1> USE DEF Serving!PreflightAgreesWithServe
  <1>1. FilesOK /\ StagesOK /\ Serving!PreflightAgreesWithServe
    BY DEF ServerInv
  <1>2. ASSUME NEW a \in Serving!Arguments, Serving!Preflight(a)
        PROVE  StagesOK' /\ Serving!PreflightAgreesWithServe'
    <2>1. /\ server' = [stage |-> "passed", args |-> a] /\ answers' = answers
          /\ server.stage = "down" /\ live' = live
      BY <1>2 DEF Serving!Preflight, Serving!Down
    <2>2. VettedArguments(a)
      BY <1>2, PreparedIsVetted DEF Serving!Preflight
    <2>3. VettedArguments(a)'
      BY <1>1, <2>2, VettedStays DEF VettedArguments, Serving!SingleBase, Serving!Bases
    <2> QED BY <1>1, <2>1, <2>3 DEF StagesOK
  <1>3. ASSUME NEW a \in Serving!Arguments, Serving!Serve(a)
        PROVE  StagesOK' /\ Serving!PreflightAgreesWithServe'
    <2> DEFINE passed == server.stage = "passed"
               guide  == Serving!Loaded(a, "guide")
               news   == Serving!Loaded(a, "news")
    <2>1. /\ server.stage # "up" /\ answers' = answers
          /\ passed => server.args = a
      BY <1>3 DEF Serving!Serve, Serving!Down
    <2>2. passed => VettedArguments(a)
      BY <1>1, <2>1 DEF StagesOK
    <2>3. CASE Serving!LoadFaults(a) # {}
      <3>1. PICK fault \in Serving!LoadFaults(a) :
              server' = [stage |-> "refused", nand |-> a.nand, passed |-> passed,
                         fault |-> fault]
        BY <1>3, <2>3 DEF Serving!Serve, Serving!Refuse
      <3>2. passed => fault = "load"
        <4>1. passed => Serving!SingleBase(a)
          BY <2>2 DEF VettedArguments
        <4>2. Serving!SingleBase(a) => fault = "load"
          BY DEF Serving!LoadFaults
        <4> QED BY <4>1, <4>2
      <3> QED BY <1>1, <2>1, <3>1, <3>2 DEF StagesOK
    <2>4. CASE Serving!LoadFaults(a) = {}
      <3>1. server' = [stage |-> "starting", nand |-> a.nand, passed |-> passed,
                       list |-> a.list, guide |-> guide, news |-> news]
        BY <1>3, <2>4 DEF Serving!Serve
      <3>2. Serving!Loads(a)
        BY <2>4 DEF Serving!LoadFaults
      <3>3. (a.guide <=> guide # Serving!Absent) /\ (a.news <=> news # Serving!Absent)
        BY <3>2, LoadedWhenNamed
      <3>4. ASSUME passed PROVE Vetted(a.list, guide, news, a.nand)
        <4>1. PICK g, n : /\ a.guide <=> g # Serving!Absent
                          /\ a.news <=> n # Serving!Absent
                          /\ Vetted(a.list, g, n, a.nand)
          BY <2>2, <3>4 DEF VettedArguments
        <4> QED BY <3>3, <4>1, VettedAnew
      <3>5. PICK g, n : g = guide /\ n = news
        OBVIOUS
      <3>6. passed => Vetted(a.list, g, n, a.nand)'
        BY <1>1, <3>4, <3>5, VettedStays
      <3>7. /\ server'.stage = "starting" /\ server'.passed = passed
            /\ server'.list = a.list /\ server'.guide = g /\ server'.news = n
            /\ server'.nand = a.nand
        BY <3>1, <3>5
      <3>8. Vetted(a.list, g, n, a.nand)' =>
              Vetted(server.list, server.guide, server.news, server.nand)'
        BY <3>7 DEF Vetted
      <3> HIDE DEF passed
      <3> QED BY <1>1, <2>1, <3>6, <3>7, <3>8 DEF StagesOK
    <2> QED BY <2>3, <2>4
  <1>4. CASE Serving!Start
    <2> DEFINE fits(k) == Vetted(server.list, server.guide, server.news, k)
    <2>1. server.stage = "starting" /\ answers' = answers /\ live' = live
      BY <1>4 DEF Serving!Start
    <2>2. CASE \E fault \in Serving!Faults(server) \cup Serving!Surroundings :
                 server' = [stage |-> "refused", nand |-> server.nand,
                            passed |-> server.passed, fault |-> fault]
      <3>1. PICK fault \in Serving!Faults(server) \cup Serving!Surroundings :
              server' = [stage |-> "refused", nand |-> server.nand,
                         passed |-> server.passed, fault |-> fault]
        BY <2>2
      <3>2. ASSUME server.passed
            PROVE  \/ fault \in {"load", "expired"} \cup Serving!Surroundings
                   \/ fault = "keys" /\ ~ server.nand
        BY <1>1, <2>1, <3>2, VettedIsServed DEF StagesOK
      <3> QED BY <1>1, <2>1, <3>1, <3>2 DEF StagesOK, Serving!Surroundings
    <2>3. CASE server' = [stage |-> "up", passed |-> server.passed, list |-> server.list,
                          guide |-> server.guide, news |-> server.news]
      <3>1. server.passed => fits(server.nand)
        BY <1>1, <2>1 DEF StagesOK
      <3>2. PICK list, guide, news : list = server.list /\ guide = server.guide
                                       /\ news = server.news
        OBVIOUS
      <3>3. server.passed => Vetted(list, guide, news, FALSE)
        BY <3>1, <3>2 DEF Vetted
      <3>4. server.passed => Vetted(list, guide, news, FALSE)'
        BY <1>1, <3>3, VettedStays
      <3>5. /\ server'.stage = "up" /\ server'.passed = server.passed
            /\ server'.list = list /\ server'.guide = guide /\ server'.news = news
        BY <2>3, <3>2
      <3>6. Vetted(list, guide, news, FALSE)' =>
              Vetted(server.list, server.guide, server.news, FALSE)'
        BY <3>5 DEF Vetted
      <3> QED BY <3>4, <3>5, <3>6 DEF StagesOK
    <2> QED BY <1>4, <2>2, <2>3 DEF Serving!Start, Serving!Refuse
  <1>5. CASE Serving!Stop
    BY <1>5 DEF Serving!Stop, Serving!Down, StagesOK
  <1>6. ASSUME server' = server, server.stage = "up" \/ answers' = answers
        PROVE  StagesOK' /\ Serving!PreflightAgreesWithServe'
    <2>1. server.stage = "passed" => VettedArguments(server.args)'
      <3>1. ASSUME NEW a, VettedArguments(a) PROVE VettedArguments(a)'
        BY <1>1, <3>1, VettedStays DEF VettedArguments, Serving!SingleBase, Serving!Bases
      <3>2. PICK a : a = server.args
        OBVIOUS
      <3>3. server.stage = "passed" => VettedArguments(a)'
        BY <1>1, <3>1, <3>2 DEF StagesOK
      <3>4. VettedArguments(a)' => VettedArguments(server.args)'
        BY <1>6, <3>2 DEF VettedArguments
      <3> QED BY <3>3, <3>4
    <2>2. ASSUME NEW nand, Vetted(server.list, server.guide, server.news, nand)
          PROVE  Vetted(server.list, server.guide, server.news, nand)'
      <3>1. PICK list, guide, news : list = server.list /\ guide = server.guide
                                       /\ news = server.news
        OBVIOUS
      <3>2. Vetted(list, guide, news, nand)'
        BY <1>1, <2>2, <3>1, VettedStays
      <3>3. server'.list = list /\ server'.guide = guide /\ server'.news = news
        BY <1>6, <3>1
      <3> QED BY <3>2, <3>3 DEF Vetted
    <2>3. PICK nand : nand = server.nand
      OBVIOUS
    <2>4. server.stage = "starting" /\ server.passed =>
            Vetted(server.list, server.guide, server.news, nand)'
      BY <1>1, <2>2, <2>3 DEF StagesOK
    <2>5. Vetted(server.list, server.guide, server.news, nand)' =>
            Vetted(server.list, server.guide, server.news, server.nand)'
      BY <1>6, <2>3 DEF Vetted
    <2>6. server.stage = "up" /\ server.passed =>
            Vetted(server.list, server.guide, server.news, FALSE)'
      BY <1>1, <2>2 DEF StagesOK
    <2> QED BY <1>1, <1>6, <2>1, <2>4, <2>5, <2>6 DEF StagesOK
  <1> QED
    BY <1>2, <1>3, <1>4, <1>5, <1>6
       DEF Serving!Next, Serving!vars, Serving!Tick, Serving!ReplaceFile,
           Serving!UpdateFails, Serving!StartUpdate, Serving!Publish, Serving!Get

\* Each answer of a publication's route is of the edition that the process has loaded.
LEMMA AnswersStep ==
  ASSUME ServerInv, [Serving!Next]_(Serving!vars)
  PROVE  Serving!OneEditionPerProcess'
  <1>1. /\ Serving!OneEditionPerProcess
        /\ server.stage # "up" => answers = {}
    BY DEF ServerInv, StagesOK
  <1>2. CASE UNCHANGED <<server, answers>>
    BY <1>1, <1>2 DEF Serving!OneEditionPerProcess
  <1>3. CASE answers' = {}
    BY <1>3 DEF Serving!OneEditionPerProcess
  <1>4. CASE server.stage # "up" /\ answers' = answers
    BY <1>1, <1>4 DEF Serving!OneEditionPerProcess
  <1>5. ASSUME NEW path \in Routes, Serving!Get(path)
        PROVE  Serving!OneEditionPerProcess'
    <2> DEFINE answer == Serving!Answer(server, path)
               Made(k) == [kind |-> k, edition |-> answer.edition,
                           current |-> Serving!In(answer.edition, clock)]
    <2>1. ASSUME NEW k \in Serving!Kind(path), answer.status = 200
          PROVE  answer.edition = server[k] /\ Serving!In(answer.edition, clock)
      <3>1. CASE server.news # Serving!Absent /\ Serving!Beneath(path)
        <4>1. k = "news" /\ answer = Serving!NewsAnswer(server, path)
          BY <2>1, <3>1 DEF Serving!Kind, Serving!Answer
        <4> QED BY <2>1, <4>1 DEF Serving!NewsAnswer, Serving!Failure, Serving!Memory,
               Serving!Ok
      <3>2. CASE ~ (server.news # Serving!Absent /\ Serving!Beneath(path))
        <4>1. /\ server.guide # Serving!Absent /\ k = "guide"
              /\ Serving!Basename(Serving!Normalize(path)) \in Serving!GuideNames
          BY <2>1, <3>2 DEF Serving!Kind
        <4>2. answer = Serving!GuideAnswer(server, Serving!Normalize(path))
          BY <3>2, <4>1 DEF Serving!Answer
        <4> QED BY <2>1, <4>1, <4>2 DEF Serving!GuideAnswer, Serving!Failure,
               Serving!Memory, Serving!Ok
      <3> QED BY <3>1, <3>2
    <2>2. /\ server' = server
          /\ answers' = answers \cup
               {Made(k) : k \in IF answer.status = 200 THEN Serving!Kind(path) ELSE {}}
      BY <1>5 DEF Serving!Get
    <2> HIDE DEF answer
    <2> QED BY <1>1, <2>1, <2>2 DEF Serving!OneEditionPerProcess
  <1> QED
    BY <1>2, <1>3, <1>4, <1>5
       DEF Serving!Next, Serving!vars, Serving!Tick, Serving!ReplaceFile,
           Serving!UpdateFails, Serving!Stop, Serving!StartUpdate, Serving!Publish,
           Serving!Preflight, Serving!Serve, Serving!Start, Serving!Down

\* It holds of every state of the server.
LEMMA ServerInvariance == SuiteSpec => [](active = "server" => ServerInv)
  <1>1. Serving!Init => ServerInv
    BY DEF Serving!Init, Serving!Down, ServerInv, FilesOK, StagesOK,
       Serving!PreflightAgreesWithServe, Serving!OneEditionPerProcess
  <1>2. ServerInv /\ [Serving!Next]_(Serving!vars) => ServerInv'
    BY FilesStep, StagesStep, AnswersStep DEF ServerInv
  <1>3. SuiteInit => (active = "server" => ServerInv)
    BY <1>1, ServerSteps
  <1>4. (active = "server" => ServerInv) /\ [SuiteNext]_suite
          => (active = "server" => ServerInv)'
    BY <1>2, ServerSteps
  <1> QED BY <1>3, <1>4, PTL DEF SuiteSpec

\* What preflight has passed, the server refuses only for what has changed since or
\* was not looked at, for any manifests and editions and whatever has happened
\* between the two commands (readiness.inspect_readiness, server.serve).
THEOREM PreflightIsEnough == SuiteSpec => []PreflightAgreesWithServe
  <1>1. (active = "server" => ServerInv) => PreflightAgreesWithServe
    BY DEF ServerInv, PreflightAgreesWithServe
  <1> QED BY <1>1, ServerInvariance, PTL

\* A server that runs what preflight has passed answers each reachable task's route
\* with the task's own payload, however the request is padded and whatever was
\* published and replaced since (do_GET, snapshot_tasks).
THEOREM PreparedTasksAreServed == SuiteSpec => []PreflightedTaskIsServed
  <1>1. ServerInv => Serving!PreflightedTaskIsServed
    <2> SUFFICES ASSUME ServerInv, server.stage = "up", server.passed,
                        NEW t \in Serving!Tasks(server.list),
                        NEW path \in Routes \cup {t[2].route}, Serving!Reachable(t),
                        Serving!Normalize(path) = t[2].route,
                        Serving!Beneath(path) => path = t[2].route
                 PROVE  Serving!Answer(server, path) =
                          IF t \in Serving!Owned(server.list, server.guide)
                            THEN IF Serving!In(server.guide, clock)
                                   THEN Serving!Memory(server.guide)
                                   ELSE Serving!Failure(503)
                          ELSE IF Serving!Regional(t[2].route)
                            THEN Serving!Stored(
                                   Serving!AreaFile(t[2].route[1], t[2].payload))
                          ELSE Serving!Ok(t[2].payload, live[t[2].payload])
      BY Zenon DEF Serving!PreflightedTaskIsServed
    <2>1. FilesOK /\ Vetted(server.list, server.guide, server.news, FALSE)
      BY DEF ServerInv, StagesOK
    <2> QED BY <2>1, ReachableTask
  <1>2. (active = "server" => ServerInv) => PreflightedTaskIsServed
    BY <1>1 DEF PreflightedTaskIsServed
  <1> QED BY <1>2, ServerInvariance, PTL

\* A process answers the routes of its publications from the editions it loaded,
\* while they are current (do_GET, NewsApplication.get, raw_payload).
THEOREM AnswersAreOfOneEdition == SuiteSpec => []OneEditionPerProcess
  <1>1. (active = "server" => ServerInv) => OneEditionPerProcess
    BY DEF ServerInv, OneEditionPerProcess
  <1> QED BY <1>1, ServerInvariance, PTL
==============================================================================
