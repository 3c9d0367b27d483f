--------------------------- MODULE PublicationProofs ---------------------------
(***************************************************************************)
(* Theorems about Publication for any editions, validity times,            *)
(* publishers, servers and bounds, of the program guide and of News.       *)
(***************************************************************************)
EXTENDS Publication, TLAPS

\* News never validates under the lock, the program guide never before it.
ChannelOK ==
  \A p \in Publisher :
    /\ channel = "news" => pc[p] \notin {"validate", "recheck"}
    /\ channel = "guide" => pc[p] # "prepare"

\* Every generation that has its name is whole, orphans included.
GenerationsAreWhole == \A n \in 1 .. published : Coherent(generations[n])

\* From its validation on, what p is about to publish is whole and had not
\* expired when the validation ended.
Validated(p) == Coherent(copy[p]) /\ validatedAt[p] < Expires[copy[p].guide]

CopyOK ==
  \A p \in Publisher :
    /\ pc[p] = "recheck" => Coherent(copy[p]) /\ validatedAt[p] <= clock
    /\ channel = "news" /\ pc[p] = "lock" => Validated(p)
    /\ pc[p] \in {"rename", "switch"} => Validated(p)

\* The generation that p is about to name is the latest: p has the lock.
TargetOK ==
  \A p \in Publisher : pc[p] = "switch" => target[p] = published /\ published # 0

\* A load has opened a generation, and what it has read is that generation.
LoadOK ==
  \A s \in Server :
    /\ phase[s] \in {"read", "accept"} <=> opened[s] # 0
    /\ phase[s] = "accept" => memory[s] = generations[opened[s]]

IInv == TypeOK /\ ChannelOK /\ GenerationsAreWhole /\ CopyOK /\ TargetOK /\ LoadOK

------------------------------------------------------------------------------
\* The initial state is well formed and whole.
LEMMA InitIInv == Init => IInv
  BY EditionAssumption, BoundsAssumption, PublisherAssumption
     DEF Init, IInv, TypeOK, ChannelOK, GenerationsAreWhole, CopyOK, TargetOK, LoadOK,
         Coherent, Files, NoFiles, Partly, Generation

\* Well-formedness is preserved, the lock's exclusion with it.
LEMMA NextTypeOK == IInv /\ [Next]_vars => TypeOK'
  <1> SUFFICES ASSUME IInv, [Next]_vars PROVE TypeOK'
    OBVIOUS
  <1>1. ASSUME NEW p \in Publisher, ReadGuide(p) PROVE TypeOK'
    BY <1>1, EditionAssumption, BoundsAssumption, PublisherAssumption
       DEF ReadGuide, IInv, TypeOK, Files, NoFiles, Partly, Generation, Go, End, Leave,
           vars, inputs, files, publishers, servers
  <1>2. ASSUME NEW p \in Publisher, ReadPayloads(p) PROVE TypeOK'
    BY <1>2, EditionAssumption, BoundsAssumption, PublisherAssumption
       DEF ReadPayloads, IInv, TypeOK, Files, NoFiles, Partly, Generation, Go, End, Leave,
           vars, inputs, files, publishers, servers
  <1>3. ASSUME NEW p \in Publisher, Prepare(p) PROVE TypeOK'
    <2>1. CASE Coherent(copy[p]) /\ Current(copy[p].guide)
      BY <1>3, <2>1
         DEF Prepare, IInv, TypeOK, Files, NoFiles, Partly, Generation, Go, End, inputs,
             files, servers
    <2>2. CASE ~(Coherent(copy[p]) /\ Current(copy[p].guide))
      <3>1. End(p)
        BY <1>3, <2>2 DEF Prepare
      <3> QED
        BY <1>3, <3>1, EditionAssumption, PublisherAssumption
           DEF Prepare, IInv, TypeOK, Files, NoFiles, Partly, Generation, Go, End, inputs,
               files, servers
    <2> QED BY <2>1, <2>2
  <1>4. ASSUME NEW p \in Publisher, Lock(p) PROVE TypeOK'
    BY <1>4, EditionAssumption, BoundsAssumption, PublisherAssumption
       DEF Lock, IInv, TypeOK, Files, NoFiles, Partly, Generation, Go, End, Leave, vars,
           inputs, files, publishers, servers
  <1>5. ASSUME NEW p \in Publisher, Validate(p) PROVE TypeOK'
    <2>1. CASE Coherent(copy[p])
      BY <1>5, <2>1
         DEF Validate, IInv, TypeOK, Files, NoFiles, Partly, Generation, Go, End, inputs,
             files, servers
    <2>2. CASE ~(Coherent(copy[p]))
      <3>1. End(p)
        BY <1>5, <2>2 DEF Validate
      <3> QED
        BY <1>5, <3>1, EditionAssumption, PublisherAssumption
           DEF Validate, IInv, TypeOK, Files, NoFiles, Partly, Generation, Go, End,
               inputs, files, servers
    <2> QED BY <2>1, <2>2
  <1>6. ASSUME NEW p \in Publisher, Recheck(p) PROVE TypeOK'
    <2>1. CASE Current(copy[p].guide)
      BY <1>6, <2>1
         DEF Recheck, IInv, TypeOK, Files, NoFiles, Partly, Generation, Go, End, inputs,
             files, servers
    <2>2. CASE ~(Current(copy[p].guide))
      <3>1. End(p)
        BY <1>6, <2>2 DEF Recheck
      <3> QED
        BY <1>6, <3>1, EditionAssumption, PublisherAssumption
           DEF Recheck, IInv, TypeOK, Files, NoFiles, Partly, Generation, Go, End, inputs,
               files, servers
    <2> QED BY <2>1, <2>2
  <1>7. ASSUME NEW p \in Publisher, Rename(p) PROVE TypeOK'
    <2>1. Coherent(copy[p]) /\ published + 1 \in Generation /\ published + 1 \in Nat
      BY <1>7, BoundsAssumption DEF Rename, IInv, TypeOK, CopyOK, Validated, Generation
    <2>2. generations' \in [Generation -> Files \cup {NoFiles}]
      BY <1>7, <2>1 DEF Rename, IInv, TypeOK, Coherent
    <2>3. published' \in 0 .. MaxGenerations /\ pointer' \in 0 .. published'
      BY <1>7, <2>1 DEF Rename, IInv, TypeOK, Generation
    <2>4. damaged' \subseteq 1 .. published' /\ target' \in [Publisher -> 0 .. published']
      BY <1>7, <2>1 DEF Rename, IInv, TypeOK
    <2>5. opened' \in [Server -> 0 .. published']
      BY <1>7, <2>1 DEF Rename, IInv, TypeOK, servers
    <2>6. pc' \in [Publisher -> {"idle", "payloads", "prepare", "lock", "validate", "recheck",
                               "rename", "switch"}]
      BY <1>7 DEF Rename, IInv, TypeOK, Go
    <2> QED
      BY <1>7, <2>2, <2>3, <2>4, <2>5, <2>6 DEF Rename, IInv, TypeOK, Go, inputs, servers
  <1>8. ASSUME NEW p \in Publisher, Switch(p) PROVE TypeOK'
    BY <1>8, EditionAssumption, BoundsAssumption, PublisherAssumption
       DEF Switch, IInv, TypeOK, Files, NoFiles, Partly, Generation, Go, End, Leave, vars,
           inputs, files, publishers, servers
  <1>9. ASSUME NEW p \in Publisher, Fail(p) PROVE TypeOK'
    BY <1>9, EditionAssumption, BoundsAssumption, PublisherAssumption
       DEF Fail, IInv, TypeOK, Files, NoFiles, Partly, Generation, Go, End, Leave, vars,
           inputs, files, publishers, servers
  <1>10. ASSUME NEW s \in Server, ReadPointer(s) PROVE TypeOK'
    BY <1>10, EditionAssumption, BoundsAssumption, PublisherAssumption
       DEF ReadPointer, IInv, TypeOK, Files, NoFiles, Partly, Generation, Go, End, Leave,
           vars, inputs, files, publishers, servers
  <1>11. ASSUME NEW s \in Server, ReadFiles(s) PROVE TypeOK'
    <2>1. generations[opened[s]] \in Files \cup {NoFiles}
      BY <1>11, BoundsAssumption DEF ReadFiles, IInv, TypeOK, LoadOK, Generation
    <2> QED
      BY <1>11, <2>1 DEF ReadFiles, IInv, TypeOK, inputs, files, publishers
  <1>12. ASSUME NEW s \in Server, Accept(s) PROVE TypeOK'
    BY <1>12, EditionAssumption, BoundsAssumption, PublisherAssumption
       DEF Accept, IInv, TypeOK, Files, NoFiles, Partly, Generation, Go, End, Leave, vars,
           inputs, files, publishers, servers
  <1>13. ASSUME NEW s \in Server, Quit(s) PROVE TypeOK'
    BY <1>13, EditionAssumption, BoundsAssumption, PublisherAssumption
       DEF Quit, IInv, TypeOK, Files, NoFiles, Partly, Generation, Go, End, Leave, vars,
           inputs, files, publishers, servers
  <1>14. ASSUME ChangeInput PROVE TypeOK'
    BY <1>14, EditionAssumption, BoundsAssumption, PublisherAssumption
       DEF ChangeInput, IInv, TypeOK, Files, NoFiles, Partly, Generation, Go, End, Leave,
           vars, inputs, files, publishers, servers
  <1>15. ASSUME Damage PROVE TypeOK'
    BY <1>15, EditionAssumption, BoundsAssumption, PublisherAssumption
       DEF Damage, IInv, TypeOK, Files, NoFiles, Partly, Generation, Go, End, Leave, vars,
           inputs, files, publishers, servers
  <1>16. ASSUME Tick PROVE TypeOK'
    BY <1>16, EditionAssumption, BoundsAssumption, PublisherAssumption
       DEF Tick, IInv, TypeOK, Files, NoFiles, Partly, Generation, Go, End, Leave, vars,
           inputs, files, publishers, servers
  <1>17. ASSUME UNCHANGED vars PROVE TypeOK'
    BY <1>17
       DEF IInv, TypeOK, Files, NoFiles, Partly, Generation, Go, End, Leave, vars, inputs,
           files, publishers, servers
  <1> QED
    BY <1>1, <1>2, <1>3, <1>4, <1>5, <1>6, <1>7, <1>8, <1>9, <1>10, <1>11, <1>12, <1>13,
       <1>14, <1>15, <1>16, <1>17
       DEF Next

\* Each channel keeps to its own steps.
LEMMA NextChannelOK == IInv /\ [Next]_vars => ChannelOK'
  <1> SUFFICES ASSUME IInv, [Next]_vars PROVE ChannelOK'
    OBVIOUS
  <1>1. ASSUME NEW p \in Publisher, ReadGuide(p) PROVE ChannelOK'
    BY <1>1
       DEF ReadGuide, IInv, TypeOK, ChannelOK, Go, End, Leave, vars, inputs, files,
           publishers, servers
  <1>2. ASSUME NEW p \in Publisher, ReadPayloads(p) PROVE ChannelOK'
    BY <1>2
       DEF ReadPayloads, IInv, TypeOK, ChannelOK, Go, End, Leave, vars, inputs, files,
           publishers, servers
  <1>3. ASSUME NEW p \in Publisher, Prepare(p) PROVE ChannelOK'
    BY <1>3
       DEF Prepare, IInv, TypeOK, ChannelOK, Go, End, Leave, vars, inputs, files,
           publishers, servers
  <1>4. ASSUME NEW p \in Publisher, Lock(p) PROVE ChannelOK'
    BY <1>4
       DEF Lock, IInv, TypeOK, ChannelOK, Go, End, Leave, vars, inputs, files, publishers,
           servers
  <1>5. ASSUME NEW p \in Publisher, Validate(p) PROVE ChannelOK'
    BY <1>5
       DEF Validate, IInv, TypeOK, ChannelOK, Go, End, Leave, vars, inputs, files,
           publishers, servers
  <1>6. ASSUME NEW p \in Publisher, Recheck(p) PROVE ChannelOK'
    BY <1>6
       DEF Recheck, IInv, TypeOK, ChannelOK, Go, End, Leave, vars, inputs, files,
           publishers, servers
  <1>7. ASSUME NEW p \in Publisher, Rename(p) PROVE ChannelOK'
    BY <1>7
       DEF Rename, IInv, TypeOK, ChannelOK, Go, End, Leave, vars, inputs, files,
           publishers, servers
  <1>8. ASSUME NEW p \in Publisher, Switch(p) PROVE ChannelOK'
    BY <1>8
       DEF Switch, IInv, TypeOK, ChannelOK, Go, End, Leave, vars, inputs, files,
           publishers, servers
  <1>9. ASSUME NEW p \in Publisher, Fail(p) PROVE ChannelOK'
    BY <1>9
       DEF Fail, IInv, TypeOK, ChannelOK, Go, End, Leave, vars, inputs, files, publishers,
           servers
  <1>10. ASSUME NEW s \in Server, ReadPointer(s) PROVE ChannelOK'
    BY <1>10
       DEF ReadPointer, IInv, TypeOK, ChannelOK, Go, End, Leave, vars, inputs, files,
           publishers, servers
  <1>11. ASSUME NEW s \in Server, ReadFiles(s) PROVE ChannelOK'
    BY <1>11
       DEF ReadFiles, IInv, TypeOK, ChannelOK, Go, End, Leave, vars, inputs, files,
           publishers, servers
  <1>12. ASSUME NEW s \in Server, Accept(s) PROVE ChannelOK'
    BY <1>12
       DEF Accept, IInv, TypeOK, ChannelOK, Go, End, Leave, vars, inputs, files,
           publishers, servers
  <1>13. ASSUME NEW s \in Server, Quit(s) PROVE ChannelOK'
    BY <1>13
       DEF Quit, IInv, TypeOK, ChannelOK, Go, End, Leave, vars, inputs, files, publishers,
           servers
  <1>14. ASSUME ChangeInput PROVE ChannelOK'
    BY <1>14
       DEF ChangeInput, IInv, TypeOK, ChannelOK, Go, End, Leave, vars, inputs, files,
           publishers, servers
  <1>15. ASSUME Damage PROVE ChannelOK'
    BY <1>15
       DEF Damage, IInv, TypeOK, ChannelOK, Go, End, Leave, vars, inputs, files,
           publishers, servers
  <1>16. ASSUME Tick PROVE ChannelOK'
    BY <1>16
       DEF Tick, IInv, TypeOK, ChannelOK, Go, End, Leave, vars, inputs, files, publishers,
           servers
  <1>17. ASSUME UNCHANGED vars PROVE ChannelOK'
    BY <1>17
       DEF IInv, TypeOK, ChannelOK, Go, End, Leave, vars, inputs, files, publishers,
           servers
  <1> QED
    BY <1>1, <1>2, <1>3, <1>4, <1>5, <1>6, <1>7, <1>8, <1>9, <1>10, <1>11, <1>12, <1>13,
       <1>14, <1>15, <1>16, <1>17
       DEF Next

\* A generation is made of a validated copy and never changes.
LEMMA NextGenerations == IInv /\ [Next]_vars => GenerationsAreWhole'
  <1> SUFFICES ASSUME IInv, [Next]_vars PROVE GenerationsAreWhole'
    OBVIOUS
  <1>1. ASSUME NEW p \in Publisher, ReadGuide(p) PROVE GenerationsAreWhole'
    BY <1>1, BoundsAssumption
       DEF ReadGuide, IInv, TypeOK, GenerationsAreWhole, CopyOK, Validated, Generation,
           Go, End, Leave, vars, inputs, files, publishers, servers
  <1>2. ASSUME NEW p \in Publisher, ReadPayloads(p) PROVE GenerationsAreWhole'
    BY <1>2, BoundsAssumption
       DEF ReadPayloads, IInv, TypeOK, GenerationsAreWhole, CopyOK, Validated, Generation,
           Go, End, Leave, vars, inputs, files, publishers, servers
  <1>3. ASSUME NEW p \in Publisher, Prepare(p) PROVE GenerationsAreWhole'
    BY <1>3, BoundsAssumption
       DEF Prepare, IInv, TypeOK, GenerationsAreWhole, CopyOK, Validated, Generation, Go,
           End, Leave, vars, inputs, files, publishers, servers
  <1>4. ASSUME NEW p \in Publisher, Lock(p) PROVE GenerationsAreWhole'
    BY <1>4, BoundsAssumption
       DEF Lock, IInv, TypeOK, GenerationsAreWhole, CopyOK, Validated, Generation, Go,
           End, Leave, vars, inputs, files, publishers, servers
  <1>5. ASSUME NEW p \in Publisher, Validate(p) PROVE GenerationsAreWhole'
    BY <1>5, BoundsAssumption
       DEF Validate, IInv, TypeOK, GenerationsAreWhole, CopyOK, Validated, Generation, Go,
           End, Leave, vars, inputs, files, publishers, servers
  <1>6. ASSUME NEW p \in Publisher, Recheck(p) PROVE GenerationsAreWhole'
    BY <1>6, BoundsAssumption
       DEF Recheck, IInv, TypeOK, GenerationsAreWhole, CopyOK, Validated, Generation, Go,
           End, Leave, vars, inputs, files, publishers, servers
  <1>7. ASSUME NEW p \in Publisher, Rename(p) PROVE GenerationsAreWhole'
    BY <1>7, BoundsAssumption
       DEF Rename, IInv, TypeOK, GenerationsAreWhole, CopyOK, Validated, Generation, Go,
           End, Leave, vars, inputs, files, publishers, servers
  <1>8. ASSUME NEW p \in Publisher, Switch(p) PROVE GenerationsAreWhole'
    BY <1>8, BoundsAssumption
       DEF Switch, IInv, TypeOK, GenerationsAreWhole, CopyOK, Validated, Generation, Go,
           End, Leave, vars, inputs, files, publishers, servers
  <1>9. ASSUME NEW p \in Publisher, Fail(p) PROVE GenerationsAreWhole'
    BY <1>9, BoundsAssumption
       DEF Fail, IInv, TypeOK, GenerationsAreWhole, CopyOK, Validated, Generation, Go,
           End, Leave, vars, inputs, files, publishers, servers
  <1>10. ASSUME NEW s \in Server, ReadPointer(s) PROVE GenerationsAreWhole'
    BY <1>10, BoundsAssumption
       DEF ReadPointer, IInv, TypeOK, GenerationsAreWhole, CopyOK, Validated, Generation,
           Go, End, Leave, vars, inputs, files, publishers, servers
  <1>11. ASSUME NEW s \in Server, ReadFiles(s) PROVE GenerationsAreWhole'
    BY <1>11, BoundsAssumption
       DEF ReadFiles, IInv, TypeOK, GenerationsAreWhole, CopyOK, Validated, Generation,
           Go, End, Leave, vars, inputs, files, publishers, servers
  <1>12. ASSUME NEW s \in Server, Accept(s) PROVE GenerationsAreWhole'
    BY <1>12, BoundsAssumption
       DEF Accept, IInv, TypeOK, GenerationsAreWhole, CopyOK, Validated, Generation, Go,
           End, Leave, vars, inputs, files, publishers, servers
  <1>13. ASSUME NEW s \in Server, Quit(s) PROVE GenerationsAreWhole'
    BY <1>13, BoundsAssumption
       DEF Quit, IInv, TypeOK, GenerationsAreWhole, CopyOK, Validated, Generation, Go,
           End, Leave, vars, inputs, files, publishers, servers
  <1>14. ASSUME ChangeInput PROVE GenerationsAreWhole'
    BY <1>14, BoundsAssumption
       DEF ChangeInput, IInv, TypeOK, GenerationsAreWhole, CopyOK, Validated, Generation,
           Go, End, Leave, vars, inputs, files, publishers, servers
  <1>15. ASSUME Damage PROVE GenerationsAreWhole'
    BY <1>15, BoundsAssumption
       DEF Damage, IInv, TypeOK, GenerationsAreWhole, CopyOK, Validated, Generation, Go,
           End, Leave, vars, inputs, files, publishers, servers
  <1>16. ASSUME Tick PROVE GenerationsAreWhole'
    BY <1>16, BoundsAssumption
       DEF Tick, IInv, TypeOK, GenerationsAreWhole, CopyOK, Validated, Generation, Go,
           End, Leave, vars, inputs, files, publishers, servers
  <1>17. ASSUME UNCHANGED vars PROVE GenerationsAreWhole'
    BY <1>17
       DEF IInv, TypeOK, GenerationsAreWhole, CopyOK, Validated, Generation, Go, End,
           Leave, vars, inputs, files, publishers, servers
  <1> QED
    BY <1>1, <1>2, <1>3, <1>4, <1>5, <1>6, <1>7, <1>8, <1>9, <1>10, <1>11, <1>12, <1>13,
       <1>14, <1>15, <1>16, <1>17
       DEF Next

\* A validation speaks of the copy, which stays as it is until the end.
LEMMA NextCopyOK == IInv /\ [Next]_vars => CopyOK'
  <1> SUFFICES ASSUME IInv, [Next]_vars PROVE CopyOK'
    OBVIOUS
  <1>1. ASSUME NEW p \in Publisher, ReadGuide(p) PROVE CopyOK'
    BY <1>1, EditionAssumption
       DEF ReadGuide, IInv, TypeOK, ChannelOK, CopyOK, Validated, Coherent, Files,
           Current, Go, End, Leave, vars, inputs, files, publishers, servers
  <1>2. ASSUME NEW p \in Publisher, ReadPayloads(p) PROVE CopyOK'
    BY <1>2, EditionAssumption
       DEF ReadPayloads, IInv, TypeOK, ChannelOK, CopyOK, Validated, Coherent, Files,
           Current, Go, End, Leave, vars, inputs, files, publishers, servers
  <1>3. ASSUME NEW p \in Publisher, Prepare(p) PROVE CopyOK'
    BY <1>3, EditionAssumption
       DEF Prepare, IInv, TypeOK, ChannelOK, CopyOK, Validated, Coherent, Files, Current,
           Go, End, Leave, vars, inputs, files, publishers, servers
  <1>4. ASSUME NEW p \in Publisher, Lock(p) PROVE CopyOK'
    BY <1>4, EditionAssumption
       DEF Lock, IInv, TypeOK, ChannelOK, CopyOK, Validated, Coherent, Files, Current, Go,
           End, Leave, vars, inputs, files, publishers, servers
  <1>5. ASSUME NEW p \in Publisher, Validate(p) PROVE CopyOK'
    BY <1>5, EditionAssumption
       DEF Validate, IInv, TypeOK, ChannelOK, CopyOK, Validated, Coherent, Files, Current,
           Go, End, Leave, vars, inputs, files, publishers, servers
  <1>6. ASSUME NEW p \in Publisher, Recheck(p) PROVE CopyOK'
    BY <1>6, EditionAssumption
       DEF Recheck, IInv, TypeOK, ChannelOK, CopyOK, Validated, Coherent, Files, Current,
           Go, End, Leave, vars, inputs, files, publishers, servers
  <1>7. ASSUME NEW p \in Publisher, Rename(p) PROVE CopyOK'
    BY <1>7, EditionAssumption
       DEF Rename, IInv, TypeOK, ChannelOK, CopyOK, Validated, Coherent, Files, Current,
           Go, End, Leave, vars, inputs, files, publishers, servers
  <1>8. ASSUME NEW p \in Publisher, Switch(p) PROVE CopyOK'
    BY <1>8, EditionAssumption
       DEF Switch, IInv, TypeOK, ChannelOK, CopyOK, Validated, Coherent, Files, Current,
           Go, End, Leave, vars, inputs, files, publishers, servers
  <1>9. ASSUME NEW p \in Publisher, Fail(p) PROVE CopyOK'
    BY <1>9, EditionAssumption
       DEF Fail, IInv, TypeOK, ChannelOK, CopyOK, Validated, Coherent, Files, Current, Go,
           End, Leave, vars, inputs, files, publishers, servers
  <1>10. ASSUME NEW s \in Server, ReadPointer(s) PROVE CopyOK'
    BY <1>10, EditionAssumption
       DEF ReadPointer, IInv, TypeOK, ChannelOK, CopyOK, Validated, Coherent, Files,
           Current, Go, End, Leave, vars, inputs, files, publishers, servers
  <1>11. ASSUME NEW s \in Server, ReadFiles(s) PROVE CopyOK'
    BY <1>11, EditionAssumption
       DEF ReadFiles, IInv, TypeOK, ChannelOK, CopyOK, Validated, Coherent, Files,
           Current, Go, End, Leave, vars, inputs, files, publishers, servers
  <1>12. ASSUME NEW s \in Server, Accept(s) PROVE CopyOK'
    BY <1>12, EditionAssumption
       DEF Accept, IInv, TypeOK, ChannelOK, CopyOK, Validated, Coherent, Files, Current,
           Go, End, Leave, vars, inputs, files, publishers, servers
  <1>13. ASSUME NEW s \in Server, Quit(s) PROVE CopyOK'
    BY <1>13, EditionAssumption
       DEF Quit, IInv, TypeOK, ChannelOK, CopyOK, Validated, Coherent, Files, Current, Go,
           End, Leave, vars, inputs, files, publishers, servers
  <1>14. ASSUME ChangeInput PROVE CopyOK'
    BY <1>14, EditionAssumption
       DEF ChangeInput, IInv, TypeOK, ChannelOK, CopyOK, Validated, Coherent, Files,
           Current, Go, End, Leave, vars, inputs, files, publishers, servers
  <1>15. ASSUME Damage PROVE CopyOK'
    BY <1>15, EditionAssumption
       DEF Damage, IInv, TypeOK, ChannelOK, CopyOK, Validated, Coherent, Files, Current,
           Go, End, Leave, vars, inputs, files, publishers, servers
  <1>16. ASSUME Tick PROVE CopyOK'
    BY <1>16, EditionAssumption
       DEF Tick, IInv, TypeOK, ChannelOK, CopyOK, Validated, Coherent, Files, Current, Go,
           End, Leave, vars, inputs, files, publishers, servers
  <1>17. ASSUME UNCHANGED vars PROVE CopyOK'
    BY <1>17
       DEF IInv, TypeOK, ChannelOK, CopyOK, Validated, Coherent, Files, Current, Go, End,
           Leave, vars, inputs, files, publishers, servers
  <1> QED
    BY <1>1, <1>2, <1>3, <1>4, <1>5, <1>6, <1>7, <1>8, <1>9, <1>10, <1>11, <1>12, <1>13,
       <1>14, <1>15, <1>16, <1>17
       DEF Next

\* Whoever is about to switch has the lock, so no generation is newer.
LEMMA NextTargetOK == IInv /\ [Next]_vars => TargetOK'
  <1> SUFFICES ASSUME IInv, [Next]_vars PROVE TargetOK'
    OBVIOUS
  <1>1. ASSUME NEW p \in Publisher, ReadGuide(p) PROVE TargetOK'
    BY <1>1, BoundsAssumption, PublisherAssumption
       DEF ReadGuide, IInv, TypeOK, TargetOK, Go, End, Leave, vars, inputs, files,
           publishers, servers
  <1>2. ASSUME NEW p \in Publisher, ReadPayloads(p) PROVE TargetOK'
    BY <1>2, BoundsAssumption, PublisherAssumption
       DEF ReadPayloads, IInv, TypeOK, TargetOK, Go, End, Leave, vars, inputs, files,
           publishers, servers
  <1>3. ASSUME NEW p \in Publisher, Prepare(p) PROVE TargetOK'
    BY <1>3, BoundsAssumption, PublisherAssumption
       DEF Prepare, IInv, TypeOK, TargetOK, Go, End, Leave, vars, inputs, files,
           publishers, servers
  <1>4. ASSUME NEW p \in Publisher, Lock(p) PROVE TargetOK'
    BY <1>4, BoundsAssumption, PublisherAssumption
       DEF Lock, IInv, TypeOK, TargetOK, Go, End, Leave, vars, inputs, files, publishers,
           servers
  <1>5. ASSUME NEW p \in Publisher, Validate(p) PROVE TargetOK'
    BY <1>5, BoundsAssumption, PublisherAssumption
       DEF Validate, IInv, TypeOK, TargetOK, Go, End, Leave, vars, inputs, files,
           publishers, servers
  <1>6. ASSUME NEW p \in Publisher, Recheck(p) PROVE TargetOK'
    BY <1>6, BoundsAssumption, PublisherAssumption
       DEF Recheck, IInv, TypeOK, TargetOK, Go, End, Leave, vars, inputs, files,
           publishers, servers
  <1>7. ASSUME NEW p \in Publisher, Rename(p) PROVE TargetOK'
    BY <1>7, BoundsAssumption, PublisherAssumption
       DEF Rename, IInv, TypeOK, TargetOK, Go, End, Leave, vars, inputs, files,
           publishers, servers
  <1>8. ASSUME NEW p \in Publisher, Switch(p) PROVE TargetOK'
    BY <1>8, BoundsAssumption, PublisherAssumption
       DEF Switch, IInv, TypeOK, TargetOK, Go, End, Leave, vars, inputs, files,
           publishers, servers
  <1>9. ASSUME NEW p \in Publisher, Fail(p) PROVE TargetOK'
    BY <1>9, BoundsAssumption, PublisherAssumption
       DEF Fail, IInv, TypeOK, TargetOK, Go, End, Leave, vars, inputs, files, publishers,
           servers
  <1>10. ASSUME NEW s \in Server, ReadPointer(s) PROVE TargetOK'
    BY <1>10, BoundsAssumption, PublisherAssumption
       DEF ReadPointer, IInv, TypeOK, TargetOK, Go, End, Leave, vars, inputs, files,
           publishers, servers
  <1>11. ASSUME NEW s \in Server, ReadFiles(s) PROVE TargetOK'
    BY <1>11, BoundsAssumption, PublisherAssumption
       DEF ReadFiles, IInv, TypeOK, TargetOK, Go, End, Leave, vars, inputs, files,
           publishers, servers
  <1>12. ASSUME NEW s \in Server, Accept(s) PROVE TargetOK'
    BY <1>12, BoundsAssumption, PublisherAssumption
       DEF Accept, IInv, TypeOK, TargetOK, Go, End, Leave, vars, inputs, files,
           publishers, servers
  <1>13. ASSUME NEW s \in Server, Quit(s) PROVE TargetOK'
    BY <1>13, BoundsAssumption, PublisherAssumption
       DEF Quit, IInv, TypeOK, TargetOK, Go, End, Leave, vars, inputs, files, publishers,
           servers
  <1>14. ASSUME ChangeInput PROVE TargetOK'
    BY <1>14, BoundsAssumption, PublisherAssumption
       DEF ChangeInput, IInv, TypeOK, TargetOK, Go, End, Leave, vars, inputs, files,
           publishers, servers
  <1>15. ASSUME Damage PROVE TargetOK'
    BY <1>15, BoundsAssumption, PublisherAssumption
       DEF Damage, IInv, TypeOK, TargetOK, Go, End, Leave, vars, inputs, files,
           publishers, servers
  <1>16. ASSUME Tick PROVE TargetOK'
    BY <1>16, BoundsAssumption, PublisherAssumption
       DEF Tick, IInv, TypeOK, TargetOK, Go, End, Leave, vars, inputs, files, publishers,
           servers
  <1>17. ASSUME UNCHANGED vars PROVE TargetOK'
    BY <1>17
       DEF IInv, TypeOK, TargetOK, Go, End, Leave, vars, inputs, files, publishers,
           servers
  <1> QED
    BY <1>1, <1>2, <1>3, <1>4, <1>5, <1>6, <1>7, <1>8, <1>9, <1>10, <1>11, <1>12, <1>13,
       <1>14, <1>15, <1>16, <1>17
       DEF Next

\* A load keeps to the generation that it opened.
LEMMA NextLoadOK == IInv /\ [Next]_vars => LoadOK'
  <1> SUFFICES ASSUME IInv, [Next]_vars PROVE LoadOK'
    OBVIOUS
  <1>1. ASSUME NEW p \in Publisher, ReadGuide(p) PROVE LoadOK'
    BY <1>1, BoundsAssumption
       DEF ReadGuide, IInv, TypeOK, LoadOK, Generation, Go, End, Leave, vars, inputs,
           files, publishers, servers
  <1>2. ASSUME NEW p \in Publisher, ReadPayloads(p) PROVE LoadOK'
    BY <1>2, BoundsAssumption
       DEF ReadPayloads, IInv, TypeOK, LoadOK, Generation, Go, End, Leave, vars, inputs,
           files, publishers, servers
  <1>3. ASSUME NEW p \in Publisher, Prepare(p) PROVE LoadOK'
    BY <1>3, BoundsAssumption
       DEF Prepare, IInv, TypeOK, LoadOK, Generation, Go, End, Leave, vars, inputs, files,
           publishers, servers
  <1>4. ASSUME NEW p \in Publisher, Lock(p) PROVE LoadOK'
    BY <1>4, BoundsAssumption
       DEF Lock, IInv, TypeOK, LoadOK, Generation, Go, End, Leave, vars, inputs, files,
           publishers, servers
  <1>5. ASSUME NEW p \in Publisher, Validate(p) PROVE LoadOK'
    BY <1>5, BoundsAssumption
       DEF Validate, IInv, TypeOK, LoadOK, Generation, Go, End, Leave, vars, inputs,
           files, publishers, servers
  <1>6. ASSUME NEW p \in Publisher, Recheck(p) PROVE LoadOK'
    BY <1>6, BoundsAssumption
       DEF Recheck, IInv, TypeOK, LoadOK, Generation, Go, End, Leave, vars, inputs, files,
           publishers, servers
  <1>7. ASSUME NEW p \in Publisher, Rename(p) PROVE LoadOK'
    BY <1>7, BoundsAssumption
       DEF Rename, IInv, TypeOK, LoadOK, Generation, Go, End, Leave, vars, inputs, files,
           publishers, servers
  <1>8. ASSUME NEW p \in Publisher, Switch(p) PROVE LoadOK'
    BY <1>8, BoundsAssumption
       DEF Switch, IInv, TypeOK, LoadOK, Generation, Go, End, Leave, vars, inputs, files,
           publishers, servers
  <1>9. ASSUME NEW p \in Publisher, Fail(p) PROVE LoadOK'
    BY <1>9, BoundsAssumption
       DEF Fail, IInv, TypeOK, LoadOK, Generation, Go, End, Leave, vars, inputs, files,
           publishers, servers
  <1>10. ASSUME NEW s \in Server, ReadPointer(s) PROVE LoadOK'
    BY <1>10, BoundsAssumption
       DEF ReadPointer, IInv, TypeOK, LoadOK, Generation, Go, End, Leave, vars, inputs,
           files, publishers, servers
  <1>11. ASSUME NEW s \in Server, ReadFiles(s) PROVE LoadOK'
    BY <1>11, BoundsAssumption
       DEF ReadFiles, IInv, TypeOK, LoadOK, Generation, Go, End, Leave, vars, inputs,
           files, publishers, servers
  <1>12. ASSUME NEW s \in Server, Accept(s) PROVE LoadOK'
    BY <1>12, BoundsAssumption
       DEF Accept, IInv, TypeOK, LoadOK, Generation, Go, End, Leave, vars, inputs, files,
           publishers, servers
  <1>13. ASSUME NEW s \in Server, Quit(s) PROVE LoadOK'
    BY <1>13, BoundsAssumption
       DEF Quit, IInv, TypeOK, LoadOK, Generation, Go, End, Leave, vars, inputs, files,
           publishers, servers
  <1>14. ASSUME ChangeInput PROVE LoadOK'
    BY <1>14, BoundsAssumption
       DEF ChangeInput, IInv, TypeOK, LoadOK, Generation, Go, End, Leave, vars, inputs,
           files, publishers, servers
  <1>15. ASSUME Damage PROVE LoadOK'
    BY <1>15, BoundsAssumption
       DEF Damage, IInv, TypeOK, LoadOK, Generation, Go, End, Leave, vars, inputs, files,
           publishers, servers
  <1>16. ASSUME Tick PROVE LoadOK'
    BY <1>16, BoundsAssumption
       DEF Tick, IInv, TypeOK, LoadOK, Generation, Go, End, Leave, vars, inputs, files,
           publishers, servers
  <1>17. ASSUME UNCHANGED vars PROVE LoadOK'
    BY <1>17
       DEF IInv, TypeOK, LoadOK, Generation, Go, End, Leave, vars, inputs, files,
           publishers, servers
  <1> QED
    BY <1>1, <1>2, <1>3, <1>4, <1>5, <1>6, <1>7, <1>8, <1>9, <1>10, <1>11, <1>12, <1>13,
       <1>14, <1>15, <1>16, <1>17
       DEF Next

\* Together: IInv is inductive.
LEMMA Invariance == Spec => []IInv
  <1>1. IInv /\ [Next]_vars => IInv'
    BY NextTypeOK, NextChannelOK, NextGenerations, NextCopyOK, NextTargetOK, NextLoadOK
       DEF IInv
  <1> QED
    BY InitIInv, <1>1, PTL DEF Spec

------------------------------------------------------------------------------
\* The state is well formed: only the holder of the directory lock validates a
\* guide, names a generation or switches the pointer.
THEOREM TypeCorrect == Spec => []TypeOK
  <1>1. IInv => TypeOK
    BY DEF IInv
  <1> QED
    BY <1>1, Invariance, PTL

\* The pointer of a publication directory names one whole edition at all
\* times, however inputs change, publishers overlap or fail, and time passes.
THEOREM PublicationIsWhole == Spec => []PointerIsWhole
  <1>1. IInv => PointerIsWhole
    BY BoundsAssumption DEF IInv, TypeOK, GenerationsAreWhole, PointerIsWhole
  <1> QED
    BY <1>1, Invariance, PTL

\* What is switched to had not expired when its validation ended.
THEOREM PublicationIsCurrent == Spec => []NothingExpiredIsPublished
  <1>1. IInv => NothingExpiredIsPublished
    BY DEF IInv, CopyOK, Validated, NothingExpiredIsPublished
  <1> QED
    BY <1>1, Invariance, PTL

\* The pointer never returns to a generation made before the one it names.
THEOREM PublicationMovesForward == Spec => PointerMovesForward
  <1>1. IInv /\ [Next]_vars => pointer' >= pointer
    <2> SUFFICES ASSUME IInv, [Next]_vars PROVE pointer' >= pointer
      OBVIOUS
    <2>1. pointer \in Nat /\ published \in Nat /\ pointer <= published
      BY BoundsAssumption DEF IInv, TypeOK
    <2>2. ASSUME NEW p \in Publisher, Switch(p) PROVE pointer' >= pointer
      BY <2>1, <2>2 DEF Switch, IInv, TargetOK
    <2>3. CASE \A p \in Publisher : ~Switch(p)
      <3>1. pointer' = pointer
        BY <2>3
           DEF Next, ReadGuide, ReadPayloads, Prepare, Lock, Validate, Recheck, Rename,
               Fail,
           ReadPointer, ReadFiles, Accept, Quit, Leave, ChangeInput, Damage, Tick, files, vars
      <3> QED BY <2>1, <3>1
    <2> QED BY <2>2, <2>3
  <1>2. IInv /\ [Next]_vars => [pointer' >= pointer]_vars
    BY <1>1
  <1> QED
    BY <1>2, Invariance, PTL DEF Spec, PointerMovesForward

------------------------------------------------------------------------------
\* A whole generation stands for its edition, and no files for none.
LEMMA EditionOfWhole ==
  ASSUME NEW f, Coherent(f)
  PROVE  EditionOf(f) \in Edition /\ EditionOf(f) # NoEdition
  BY EditionAssumption DEF EditionOf, Coherent, Files

\* Steps that leave pointer, generations in use, loads and snapshots alone are
\* stutters of the register.
LEMMA RegisterStutters ==
  ASSUME UNCHANGED <<pointer, opened, snapshot, generations>>
  PROVE  UNCHANGED Register!vars
  BY DEF Register!vars, EditionOf, Coherent

\* The publication directory and its servers implement EditionRegister: a
\* publication takes effect in one step, the switch, and a load that succeeds
\* returns the whole edition that was named when it read the pointer.
THEOREM DirectoryImplementsRegister == Spec => ImplementsRegister
  <1>1. Init => Register!Init
    BY EditionAssumption DEF Init, Register!Init, EditionOf, Coherent, Files, NoFiles
  <1>2. IInv /\ [Next]_vars => [Register!Next]_(Register!vars)
    <2> SUFFICES ASSUME IInv, [Next]_vars PROVE [Register!Next]_(Register!vars)
      OBVIOUS
    <2>1. /\ pointer \in 0 .. published /\ opened \in [Server -> 0 .. published]
          /\ published \in Nat /\ published <= MaxGenerations
      BY BoundsAssumption DEF IInv, TypeOK
    <2>2. \A n \in 1 .. published : Coherent(generations[n])
      BY DEF IInv, GenerationsAreWhole
    <2>3. ASSUME NEW p \in Publisher, Rename(p) PROVE [Register!Next]_(Register!vars)
      <3>1. \A n \in 1 .. published : generations'[n] = generations[n]
        BY <2>1, <2>3 DEF Rename, IInv, TypeOK, Generation
      <3>2. UNCHANGED <<pointer, opened, snapshot>>
        BY <2>3 DEF Rename, servers
      <3>3. pointer # 0 => EditionOf(generations'[pointer]) = EditionOf(generations[pointer])
        BY <2>1, <3>1
      <3>4. \A s \in Server : opened[s] # 0 =>
              EditionOf(generations'[opened[s]]) = EditionOf(generations[opened[s]])
        BY <2>1, <3>1
      <3> QED BY <3>2, <3>3, <3>4 DEF Register!vars, EditionOf, Coherent
    <2>4. ASSUME NEW p \in Publisher, Switch(p) PROVE [Register!Next]_(Register!vars)
      <3>1. pointer' \in 1 .. published
        BY <2>1, <2>4 DEF Switch, IInv, TargetOK
      <3>2. UNCHANGED <<generations, opened, snapshot>>
        BY <2>4 DEF Switch, servers
      <3>3. EditionOf(generations[pointer']) \in Edition
        BY <2>2, <3>1, EditionOfWhole
      <3>4. Register!Publish
        BY <3>1, <3>2, <3>3 DEF Register!Publish, EditionOf, Coherent
      <3> QED BY <3>4 DEF Register!Next
    <2>5. ASSUME NEW s \in Server, ReadPointer(s) PROVE [Register!Next]_(Register!vars)
      <3>1. EditionOf(generations[pointer]) # NoEdition
        BY <2>1, <2>2, <2>5, EditionOfWhole DEF ReadPointer
      <3>2. Register!BeginLoad(s)
        BY <2>1, <2>5, <3>1 DEF ReadPointer, Register!BeginLoad, files, EditionOf, Coherent
      <3> QED BY <3>2 DEF Register!Next
    <2>6. ASSUME NEW s \in Server, ReadFiles(s) PROVE [Register!Next]_(Register!vars)
      BY <2>6, RegisterStutters DEF ReadFiles, files
    <2>7. ASSUME NEW s \in Server, Accept(s) PROVE [Register!Next]_(Register!vars)
      <3>1. opened[s] # 0 /\ memory[s] = generations[opened[s]]
        BY <2>7 DEF Accept, IInv, LoadOK
      <3>2. EditionOf(generations[opened[s]]) # NoEdition
        BY <2>1, <2>2, <3>1, EditionOfWhole
      <3>3. Register!EndLoad(s)
        BY <2>1, <2>7, <3>1, <3>2
           DEF Accept, Register!EndLoad, files, EditionOf, Coherent, IInv, TypeOK
      <3> QED BY <3>3 DEF Register!Next
    <2>8. ASSUME NEW s \in Server, Quit(s) PROVE [Register!Next]_(Register!vars)
      <3>1. EditionOf(NoFiles) = NoEdition
        BY EditionAssumption DEF EditionOf, Coherent, Files, NoFiles
      <3>2. Register!Abandon(s)
        BY <2>1, <2>8, <3>1
           DEF Quit, Leave, Register!Abandon, files, EditionOf, Coherent, IInv, TypeOK
      <3> QED BY <3>2 DEF Register!Next
    <2>9. CASE \/ \E p \in Publisher :
                    \/ ReadGuide(p) \/ ReadPayloads(p) \/ Prepare(p) \/ Lock(p) \/ Validate(p)
                    \/ Recheck(p) \/ Fail(p)
               \/ ChangeInput \/ Damage \/ Tick \/ UNCHANGED vars
      <3>1. UNCHANGED <<pointer, opened, snapshot, generations>>
        BY <2>9 DEF ReadGuide, ReadPayloads, Prepare, Lock, Validate, Recheck, Fail,
           ChangeInput, Damage, Tick, vars, files, servers
      <3> QED BY <3>1, RegisterStutters
    <2> QED
      BY <2>3, <2>4, <2>5, <2>6, <2>7, <2>8, <2>9 DEF Next
  <1> QED
    BY <1>1, <1>2, Invariance, PTL DEF Spec, ImplementsRegister, Register!Spec
==============================================================================
