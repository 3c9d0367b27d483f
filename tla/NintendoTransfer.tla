--------------------------- MODULE NintendoTransfer ---------------------------
(***************************************************************************)
(* The asynchronous list download of the Nintendo Channel: callbacks copy  *)
(* chunks into a fixed buffer, polls restart a failed request once, and a  *)
(* poll that reached the data phase may hand what was kept to the list     *)
(* decoder (jwc24/nintendo_http.py, nintendo_load.py).                     *)
(*                                                                         *)
(* A byte is the pair of its attempt and its place in the attempt's body.  *)
(***************************************************************************)
EXTENDS Integers, Sequences, SequencesExt

CONSTANTS
  Capacity,   \* cells of the native buffer
  Body,       \* bodies that a server may send: sequences of sizes of chunks
  Prefix,     \* the language bytes of the CSData that may be installed
  Language,   \* the configured language
  Languages,  \* bytes from this number on end the list of languages (7)
  None        \* nothing was handed over

VARIABLES
  state,      \* NintendoHTTPState
  poll,       \* the last NintendoHTTPPoll, or None
  server,     \* the bodies of the attempts, and the chunks still to come
  csdata,     \* language bytes of the installed CSData
  handed      \* what the list decoder was given

vars == <<state, poll, server, csdata, handed>>

Unused   == <<0, 0>>
Expired  == -109    \* stored with a timeout, a failed request
Rejected == -300    \* the poll's answer in a phase it does not know
Reported == 1       \* an error word that a callback brings

\* The tests' snapshots: a request is under way (2), or the manager is asked
\* itself whether the body is complete (4).
Init ==
  /\ \E phase \in {2, 4} :
       state = [buffer |-> [i \in 1 .. Capacity |-> Unused], copied |-> 0, word_04 |-> 2,
                word_08 |-> phase, error |-> 0, retry |-> -1, skipped |-> FALSE]
  /\ \E body \in Body : server = [bodies |-> <<body>>, left |-> body, over |-> FALSE]
  /\ csdata \in Prefix
  /\ poll = None /\ handed = None

------------------------------------------------------------------------------
(* The request manager, an external component: it brings the chunks of the *)
(* attempt in order and ends an attempt once.                              *)

Attempt == Len(server.bodies)
Sum(sizes) == FoldLeft(LAMBDA n, size : n + size, 0, sizes)
Bytes(attempt, from, size) == [i \in 1 .. size |-> <<attempt, from + i>>]
NextChunk ==
  IF server.left = <<>> THEN <<>>
  ELSE Bytes(Attempt, Sum(server.bodies[Attempt]) - Sum(server.left), Head(server.left))
AfterChunk == IF server.left = <<>> THEN <<>> ELSE Tail(server.left)

------------------------------------------------------------------------------
(* apply_http_callback *)

Copied(chunk) ==
  LET new == state.copied + 1 .. state.copied + Len(chunk) IN
  [state EXCEPT
     !.buffer = [i \in 1 .. Capacity |->
       IF i \in new THEN chunk[i - state.copied] ELSE state.buffer[i]],
     !.copied = state.copied + Len(chunk)]

\* Mutant: what does not fit is dropped and not remembered.
Kept_Forgotten(chunk) ==
  IF Len(chunk) <= Capacity - state.copied THEN Copied(chunk) ELSE state

\* A chunk is kept whole or not at all.
Kept(chunk) ==
  IF Len(chunk) <= Capacity - state.copied THEN Copied(chunk)
                                           ELSE [state EXCEPT !.skipped = TRUE]

\* Callback word 2: data, and whatever error it carries is passed over.
Data ==
  /\ ~server.over /\ server.left # <<>>
  /\ state' = Kept(NextChunk)
  /\ server' = [server EXCEPT !.left = AfterChunk]
  /\ UNCHANGED <<poll, csdata, handed>>

\* Any other callback word, without an error: with the last chunk or after it.
Complete ==
  /\ ~server.over /\ AfterChunk = <<>> /\ state.word_08 # 4
  /\ state' = [Kept(NextChunk) EXCEPT !.word_08 = 3,
                 !.retry = IF state.retry = -1 THEN 0 ELSE state.retry]
  /\ server' = [server EXCEPT !.left = <<>>, !.over = TRUE]
  /\ UNCHANGED <<poll, csdata, handed>>

\* With an error, of which four details are worth one more attempt.
Break(worthRetry) ==
  /\ ~server.over
  /\ \E chunk \in {<<>>, NextChunk} :
       state' = IF worthRetry /\ state.retry = -1
                THEN [Kept(chunk) EXCEPT !.retry = 1, !.word_04 = 2, !.word_08 = 7]
                ELSE [Kept(chunk) EXCEPT !.error = Reported, !.word_08 = 6]
  /\ server' = [server EXCEPT !.left = <<>>, !.over = TRUE]
  /\ UNCHANGED <<poll, csdata, handed>>

------------------------------------------------------------------------------
(* poll_http_state *)

\* The manager's normalizer answers a failed poll with the stored error word,
\* which may be zero.
Polled(next, raw) ==
  LET result == IF raw < 0 THEN next.error ELSE raw IN
  /\ state' = next
  /\ poll' = [state |-> next, raw |-> raw, result |-> result,
              reached |-> /\ next.word_04 \in {2, 3} /\ next.word_08 \in {3, 5}
                          /\ raw = 0 /\ result = 0]
  /\ UNCHANGED <<csdata, handed>>

Active == state.word_04 \in {2, 3}

Timeout == Active /\ Polled([state EXCEPT !.error = Expired], Expired) /\ UNCHANGED server

\* The manager answers zero when it has brought the whole body.
AskManager ==
  /\ Active /\ state.word_08 = 4
  /\ IF server.left = <<>> /\ ~server.over
       THEN /\ Polled([state EXCEPT !.word_08 = 5], 0)
            /\ server' = [server EXCEPT !.over = TRUE]
       ELSE Polled(state, 1) /\ UNCHANGED server

\* start: the count and the history of the attempt begin again, the bytes stay.
Fresh == [state EXCEPT !.word_04 = 1, !.copied = 0, !.skipped = FALSE]

Restart ==
  /\ Active /\ state.word_08 = 7
  /\ \/ Polled([state EXCEPT !.word_04 = 1], Rejected) /\ UNCHANGED server  \* no manager
     \/ Polled([Fresh EXCEPT !.error = Expired], Expired) /\ UNCHANGED server
     \/ /\ Polled([Fresh EXCEPT !.word_04 = 2, !.word_08 = 2], 1)
        /\ \E body \in Body :
             server' = [bodies |-> Append(server.bodies, body), left |-> body, over |-> FALSE]

Look ==
  /\ \/ ~Active /\ Polled(state, Rejected)
     \/ Active /\ state.word_08 = 2 /\ Polled(state, 1)
     \/ Active /\ state.word_08 \in {3, 5} /\ Polled(state, 0)
     \/ Active /\ state.word_08 = 6 /\ Polled(state, Expired)
  /\ UNCHANGED server

Poll == Timeout \/ AskManager \/ Restart \/ Look

------------------------------------------------------------------------------
(* inspect_http_list_download, of any poll that is still at hand *)

\* plan_japanese_list_load: the languages are the bytes before the first that is
\* not one.
Eligible ==
  \E i \in DOMAIN csdata :
    csdata[i] = Language /\ \A j \in 1 .. i : csdata[j] < Languages

HandOver ==
  /\ poll # None /\ poll.reached /\ poll.raw = 0 /\ poll.result = 0
  /\ poll.state.word_04 \in {2, 3} /\ poll.state.word_08 \in {3, 5}
  /\ ~poll.state.skipped /\ poll.state.copied # 0
  /\ Eligible
  /\ handed' = SubSeq(poll.state.buffer, 1, poll.state.copied)
  /\ UNCHANGED <<state, poll, server, csdata>>

Next == Data \/ Complete \/ Break(TRUE) \/ Break(FALSE) \/ Poll \/ HandOver

Spec == Init /\ [][Next]_vars

------------------------------------------------------------------------------
(* Properties *)

\* What the list decoder is given is all that the server sent in one attempt:
\* never the remains of an attempt that failed, a body with a hole where a chunk
\* did not fit, or one that a misleading zero made complete
\* (inspect_http_list_download).
HandoffIsWhole ==
  handed # None =>
    \E attempt \in DOMAIN server.bodies :
      handed = Bytes(attempt, 0, Sum(server.bodies[attempt]))
===============================================================================
