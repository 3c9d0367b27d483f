--------------------------- MODULE InteractionStore ---------------------------
(***************************************************************************)
(* The receipts of Wii no Ma votes and ratings                             *)
(* (jwc24/wii_no_ma_interactions.py): request handlers record forms in one *)
(* SQLite file, a transaction each, and acknowledge what is committed.     *)
(* The first record on a file of the earlier schema migrates it.           *)
(***************************************************************************)
EXTENDS Naturals, Sequences, SequencesExt, FiniteSetsExt

CONSTANTS
  Form,         \* an interaction endpoint with a valid form
  Malformed,    \* the text of an earlier row that is not a valid form
  Earlier,      \* contents of files of the earlier schema: sequences of forms
  Handler, MaxSubmits

VARIABLES
  rows,       \* receipts.sqlite3: the rows by their id
  version,    \* its user_version
  handling,   \* handling[h]: the form a handler is to record, its row, or Idle
  submits,    \* submissions so far
  committed,  \* observer: forms of the transactions that were committed
  told        \* observer: <<form, id>> of every acknowledgment

vars == <<rows, version, handling, submits, committed, told>>

Idle == [pc |-> "idle"]

\* An earlier row has no fingerprint; the added column counts it as one attempt.
EarlierRow(f) == [form |-> f, marked |-> FALSE, attempts |-> 1]

Init ==
  /\ \/ rows = <<>> /\ version = 0
     \/ \E s \in Earlier : rows = [i \in DOMAIN s |-> EarlierRow(s[i])] /\ version = 0
  /\ handling = [h \in Handler |-> Idle]
  /\ submits = 0 /\ told = {}
  /\ committed = [i \in DOMAIN rows |-> rows[i].form]

\* Mutant: a file of the earlier schema is taken over without fingerprints.
Migrated_Unmarked == rows

\* Version 0: the first of identical rows is the one that retries will find.
Migrated ==
  IF version = 1 THEN rows
  ELSE [i \in DOMAIN rows |->
          [rows[i] EXCEPT !.marked = \A j \in 1 .. i - 1 : rows[j].form # rows[i].form]]

\* submit: the form is checked and its response resolved before storage opens.
Submit(h) ==
  /\ handling[h] = Idle /\ submits < MaxSubmits
  /\ submits' = submits + 1
  /\ \E f \in Form : handling' = [handling EXCEPT ![h] = [pc |-> "record", form |-> f]]
  /\ UNCHANGED <<rows, version, committed, told>>

Recorded(f) ==
  IF \E i \in DOMAIN Migrated : Migrated[i].marked /\ Migrated[i].form = f
    THEN [i \in DOMAIN Migrated |->
            IF Migrated[i].marked /\ Migrated[i].form = f
              THEN [Migrated[i] EXCEPT !.attempts = @ + 1] ELSE Migrated[i]]
    ELSE Append(Migrated, [form |-> f, marked |-> TRUE, attempts |-> 1])

\* One immediate transaction: migration, index, and the attempt or the new row.
\* An earlier row that cannot be read rolls it back, this time and every time.
Record(h) ==
  /\ handling[h].pc = "record"
  /\ LET f == handling[h].form IN
     IF version = 0 /\ \E i \in DOMAIN rows : rows[i].form = Malformed
       THEN /\ handling' = [handling EXCEPT ![h] = Idle]
            /\ UNCHANGED <<rows, version, committed>>
       ELSE /\ rows' = Recorded(f) /\ version' = 1
            /\ committed' = Append(committed, f)
            /\ handling' = [handling EXCEPT ![h] =
                 [pc |-> "answer", form |-> f,
                  id |-> CHOOSE i \in DOMAIN rows' : rows'[i].marked /\ rows'[i].form = f]]
  /\ UNCHANGED <<submits, told>>

\* The receipt answers with the channel's response, or the answer is lost.
Answer(h) ==
  /\ handling[h].pc = "answer"
  /\ told' = told \cup {<<handling[h].form, handling[h].id>>}
  /\ handling' = [handling EXCEPT ![h] = Idle]
  /\ UNCHANGED <<rows, version, submits, committed>>

\* The file stays locked for ten seconds, the disk is full, the process stops or
\* the connection breaks: what is not committed is rolled back.
Fail(h) ==
  /\ handling[h] # Idle
  /\ handling' = [handling EXCEPT ![h] = Idle]
  /\ UNCHANGED <<rows, version, submits, committed, told>>

Next == \E h \in Handler : Submit(h) \/ Record(h) \/ Answer(h) \/ Fail(h)

Spec == Init /\ [][Next]_vars

------------------------------------------------------------------------------
(* Properties. *)

\* An acknowledgment names the first row of its form, one that an earlier version
\* stored included: retries of a form, before and after the migration and from
\* any handler, are told the same identifier for ever, and the attempts of its
\* rows add up to the submissions that were committed, none lost or counted twice.
FirstReceiptAnswers ==
  /\ \A x \in told :
       /\ x[2] \in DOMAIN rows /\ rows[x[2]].form = x[1]
       /\ \A i \in 1 .. x[2] - 1 : rows[i].form # x[1]
  /\ \A f \in Form :
       MapThenSumSet(LAMBDA i : rows[i].attempts, {i \in DOMAIN rows : rows[i].form = f})
         = Cardinality({i \in DOMAIN committed : committed[i] = f})
===============================================================================
