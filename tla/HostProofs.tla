----------------------------- MODULE HostProofs -----------------------------
(* The theorems of Host: a user's identity and the state of the files.       *)
EXTENDS Host, TLAPS

-----------------------------------------------------------------------------
\* Types: the interface belongs to the process that runs, and a process that
\* saves, starts or runs knows its identity.
THEOREM TypeCorrect == Spec => []TypeOK
<1> USE HostAssumption
<1>1. Init => TypeOK
  BY DEF Init, TypeOK, Alive, Content, File, None, Idle, AtStart, Running
<1>2. TypeOK /\ [Next]_vars => TypeOK'
  <2> SUFFICES ASSUME TypeOK, [Next]_vars
               PROVE  TypeOK'
    OBVIOUS
  <2> USE DEF TypeOK, File, None, Alive
  <2> DEFINE Kept == /\ \A q \in Proc : at'[q].do = "read" => at'[q] = at[q]
                     /\ \A f \in File : files'[f] = "missing" => files[f] = "missing"
  <2> HIDE DEF Kept
  <2>0. Kept => \A q \in Proc :
                  at'[q].do = "read" => files'[FileOf(at'[q].stage)] # "missing"
    BY DEF Kept, FileOf
  <2>1. ASSUME NEW p \in Proc, NEW c \in Command, Begin(p, c)
        PROVE  TypeOK'
    <3>1. Kept
      BY <2>1 DEF Kept, Begin
    <3> QED
      BY <2>1, <2>0, <3>1 DEF Begin, Idle, AtStart, Running, FileStep, Stage
  <2>2. ASSUME NEW p \in Proc, Exists(p)
        PROVE  TypeOK'
    <3>1. at[p] \in FileStep
      BY <2>2 DEF Exists, Idle, AtStart, Running
    <3>2. at' \in [Proc -> FileStep \cup {Idle, AtStart, Running}]
      BY <2>2, <3>1 DEF Exists, FileStep
    <3>3. \A q \in Proc : at'[q].do = "read" => files'[FileOf(at'[q].stage)] # "missing"
      BY <2>2, <3>1 DEF Exists, FileStep
    <3> QED
      BY <2>2, <3>1, <3>2, <3>3 DEF Exists, Idle, AtStart, Running, FileStep
  <2>3. ASSUME NEW p \in Proc, Gone(p)
        PROVE  /\ interface' \in Proc \cup {None}
               /\ \A q \in Proc : interface' = q <=> at'[q] = Running
               /\ command' \in [Proc -> Command \cup {None}]
               /\ at' \in [Proc -> FileStep \cup {Idle, AtStart, Running}]
               /\ identity' \in [Proc -> Key \cup {None}]
               /\ \A q \in Proc : at'[q] \in {AtStart, Running} \/ at'[q].stage = "save"
                                    => identity'[q] # None
               /\ \A q \in Proc : at'[q] = Idle => identity'[q] = None
               /\ \A q \in Proc : at'[q].do = "read" => at'[q] = at[q]
               /\ late' \subseteq Proc
    BY <2>3 DEF Gone, Idle, AtStart, Running
  <2>4. ASSUME NEW p \in Proc, NEW stage \in Stage, NEW id \in Key \cup {None},
               Proceed(p, stage, id), at[p] \in FileStep,
               stage # "config" => id # None
        PROVE  /\ interface' \in Proc \cup {None}
               /\ \A q \in Proc : interface' = q <=> at'[q] = Running
               /\ command' \in [Proc -> Command \cup {None}]
               /\ at' \in [Proc -> FileStep \cup {Idle, AtStart, Running}]
               /\ identity' \in [Proc -> Key \cup {None}]
               /\ \A q \in Proc : at'[q] \in {AtStart, Running} \/ at'[q].stage = "save"
                                    => identity'[q] # None
               /\ \A q \in Proc : at'[q] = Idle => identity'[q] = None
               /\ \A q \in Proc : at'[q].do = "read" => at'[q] = at[q]
               /\ late' \subseteq Proc
    <3>1. CASE Gone(p)
      BY <2>3, <3>1
    <3>2. CASE ~ Gone(p)
      <4>1. /\ at' = [at EXCEPT ![p] = After(stage)]
            /\ identity' = [identity EXCEPT ![p] = id]
            /\ UNCHANGED <<command, late, interface>>
        BY <2>4, <3>2 DEF Proceed
      <4>2. /\ After(stage) \in FileStep \cup {AtStart}
            /\ After(stage) # Running /\ After(stage) # Idle /\ After(stage).do # "read"
            /\ After(stage) = AtStart \/ After(stage).stage = "save" => id # None
        BY <2>4 DEF After, Stage, FileStep, AtStart, Running, Idle
      <4>3. at[p] # Running
        BY <2>4 DEF FileStep, Running
      <4>4. /\ interface' \in Proc \cup {None}
            /\ command' \in [Proc -> Command \cup {None}]
            /\ at' \in [Proc -> FileStep \cup {Idle, AtStart, Running}]
            /\ identity' \in [Proc -> Key \cup {None}]
            /\ late' \subseteq Proc
        BY <2>4, <4>1, <4>2
      <4>5. \A q \in Proc : /\ at'[q] = IF q = p THEN After(stage) ELSE at[q]
                            /\ identity'[q] = IF q = p THEN id ELSE identity[q]
        BY <4>1
      <4>6. \A q \in Proc : interface' = q <=> at'[q] = Running
        BY <4>1, <4>2, <4>3, <4>5
      <4>7. \A q \in Proc : at'[q] \in {AtStart, Running} \/ at'[q].stage = "save"
                             => identity'[q] # None
        BY <4>2, <4>5
      <4>8. \A q \in Proc : /\ at'[q] = Idle => identity'[q] = None
                            /\ at'[q].do = "read" => at'[q] = at[q]
        BY <4>2, <4>5
      <4> QED
        BY <4>4, <4>6, <4>7, <4>8
    <3> QED
      BY <3>1, <3>2
  <2>5. ASSUME NEW p \in Proc, Read(p)
        PROVE  TypeOK'
    <3>1. at[p] \in FileStep /\ at[p].stage \in Stage
      BY <2>5 DEF Read, Idle, AtStart, Running, FileStep
    <3> DEFINE f == FileOf(at[p].stage)
    <3>2. f \in File
      BY <3>1 DEF FileOf
    <3>3. UNCHANGED <<files, generated, overlapped, torn, crashes>>
      BY <2>5 DEF Read
    <3>4. CASE Gone(p)
      <4>1. Kept
        BY <2>3, <3>3, <3>4 DEF Kept
      <4> QED
        BY <2>3, <2>0, <3>3, <3>4, <4>1
    <3>5. CASE ~ Gone(p)
      <4> DEFINE id == IF f = "keys" THEN files[f] ELSE identity[p]
      <4>1. f = "keys" => files[f] \in Key
        BY <2>5, <3>5 DEF Read, Content
      <4>2. id \in Key \cup {None} /\ (at[p].stage # "config" => id # None)
        BY <3>1, <4>1 DEF Stage, FileOf
      <4>3. Proceed(p, at[p].stage, id)
        BY <2>5, <3>5 DEF Read
      <4> HIDE DEF id
      <4>4. Kept
        BY <2>4, <3>1, <3>3, <4>2, <4>3 DEF Kept
      <4> QED
        BY <2>4, <2>0, <3>1, <3>3, <4>2, <4>3, <4>4
    <3> QED
      BY <3>4, <3>5
  <2>6. ASSUME NEW p \in Proc, Truncate(p)
        PROVE  TypeOK'
    <3>1. at[p] \in FileStep /\ FileOf(at[p].stage) \in File
      BY <2>6 DEF Truncate, Idle, AtStart, Running, FileStep, FileOf
    <3>2. at' \in [Proc -> FileStep \cup {Idle, AtStart, Running}]
      BY <2>6, <3>1 DEF Truncate, FileStep
    <3>3. DOMAIN files' = File /\ \A f \in File : files'[f] \in Content(f)
      BY <2>6, <3>1 DEF Truncate, Content, Damaged
    <3>4. overlapped' \subseteq File /\ torn' \subseteq File
      BY <2>6, <3>1 DEF Truncate
    <3>5. \A q \in Proc : /\ at'[q] = Running <=> at[q] = Running
                          /\ at'[q] = AtStart <=> at[q] = AtStart
                          /\ at'[q] = Idle <=> at[q] = Idle
                          /\ at'[q].stage = at[q].stage
      BY <2>6, <3>1 DEF Truncate, AtStart, Running, Idle, FileStep
    <3>6. UNCHANGED <<interface, command, identity, generated, late, crashes>>
      BY <2>6 DEF Truncate
    <3>7. \A q \in Proc : interface' = q <=> at'[q] = Running
      BY <3>5, <3>6
    <3>8. \A q \in Proc : at'[q] \in {AtStart, Running} \/ at'[q].stage = "save"
                           => identity'[q] # None
      BY <3>5, <3>6
    <3>9. \A q \in Proc : ~ Alive(q)' => identity'[q] = None
      BY <3>5, <3>6
    <3>10. Kept
      BY <2>6, <3>1 DEF Truncate, Kept, FileStep
    <3> QED
      BY <2>0, <3>2, <3>3, <3>4, <3>6, <3>7, <3>8, <3>9, <3>10
  <2>7. ASSUME NEW p \in Proc, WriteConfig(p)
        PROVE  TypeOK'
    <3>1. at[p] \in FileStep /\ at[p].stage \in Stage \ {"keys"}
      BY <2>7 DEF WriteConfig, Writing, FileOf, Idle, AtStart, Running, FileStep
    <3>2. \A f \in File : files'[f] \in Content(f)
      BY <2>7 DEF WriteConfig, Written, Content, Damaged
    <3>3. Proceed(p, at[p].stage, identity[p])
      BY <2>7 DEF WriteConfig
    <3>4. at[p].stage # "config" => identity[p] # None
      BY <3>1 DEF Stage
    <3>5. Kept
      BY <2>4, <2>7, <3>1, <3>3, <3>4 DEF WriteConfig, Written, Kept
    <3> QED
      BY <2>4, <2>7, <2>0, <3>1, <3>2, <3>3, <3>4, <3>5 DEF WriteConfig
  <2>8. ASSUME NEW p \in Proc, WriteKeys(p)
        PROVE  TypeOK'
    <3>1. at[p] \in FileStep
      BY <2>8 DEF WriteKeys, Writing, Idle, AtStart, Running
    <3>2. \A f \in File : files'[f] \in Content(f)
      BY <2>8 DEF WriteKeys, Written, Content, Damaged
    <3>3. PICK k \in Key : Proceed(p, "keys", k) /\ generated' = generated \cup {k}
      BY <2>8 DEF WriteKeys
    <3>4. k # None /\ "keys" \in Stage
      BY DEF Stage
    <3>5. Kept
      BY <2>4, <2>8, <3>1, <3>3, <3>4 DEF WriteKeys, Written, Kept
    <3> QED
      BY <2>4, <2>8, <2>0, <3>1, <3>2, <3>3, <3>4, <3>5 DEF WriteKeys
  <2>9. ASSUME NEW p \in Proc, Start(p)
        PROVE  TypeOK'
    <3>1. Kept
      BY <2>9 DEF Start, Kept, Running
    <3> QED
      BY <2>9, <2>0, <3>1 DEF Start, Idle, AtStart, Running, FileStep
  <2>10. ASSUME NEW p \in Proc, StartFails(p) \/ Leave(p)
         PROVE  TypeOK'
    <3>1. Kept
      BY <2>3, <2>10 DEF StartFails, Leave, Kept
    <3> QED
      BY <2>3, <2>10, <2>0, <3>1 DEF StartFails, Leave
  <2>11. ASSUME NEW p \in Proc, Crash(p)
         PROVE  TypeOK'
    <3>1. crashes' \in 0..MaxCrashes
      BY <2>11 DEF Crash
    <3>2. Kept
      BY <2>3, <2>11 DEF Crash, Kept
    <3> QED
      BY <2>3, <2>11, <2>0, <3>1, <3>2 DEF Crash
  <2>12. ASSUME NEW p \in Proc, Fails(p)
         PROVE  TypeOK'
    <3>1. /\ UNCHANGED <<files, generated, overlapped, crashes>>
          /\ torn' \subseteq File
      BY <2>12 DEF Fails
    <3>2. CASE Gone(p)
      <4>1. Kept
        BY <2>3, <3>1, <3>2 DEF Kept
      <4> QED
        BY <2>3, <2>0, <3>1, <3>2, <4>1
    <3>3. CASE IgnoresFailure(p) /\ ~ Gone(p)
      <4>1. /\ at' = [at EXCEPT ![p] = AtStart]
            /\ UNCHANGED <<command, identity, late, interface>>
        BY <2>12, <3>3 DEF Fails
      <4>2. /\ at[p].stage = "save" /\ identity[p] # None
            /\ at[p] # Running
        BY <3>3 DEF IgnoresFailure, Running
      <4>3. \A q \in Proc : at'[q] = IF q = p THEN AtStart ELSE at[q]
        BY <4>1
      <4>4. \A q \in Proc : interface' = q <=> at'[q] = Running
        BY <4>1, <4>2, <4>3 DEF AtStart, Running
      <4>5. \A q \in Proc : /\ at'[q] = Idle => identity'[q] = None
                            /\ at'[q].do = "read" => at'[q] = at[q]
        BY <4>1, <4>3 DEF AtStart, Idle
      <4>6. Kept
        BY <3>1, <4>5 DEF Kept
      <4>7. \A q \in Proc : at'[q] \in {AtStart, Running} \/ at'[q].stage = "save"
                             => identity'[q] # None
        BY <4>1, <4>2, <4>3
      <4> QED
        BY <2>0, <3>1, <4>1, <4>4, <4>5, <4>6, <4>7
    <3> QED
      BY <2>12, <3>2, <3>3 DEF Fails
  <2>13. CASE UNCHANGED vars
    BY <2>13 DEF vars
  <2> QED
    BY <2>1, <2>2, <2>5, <2>6, <2>7, <2>8, <2>9, <2>10, <2>11, <2>12, <2>13
       DEF Next, ProcStep
<1> QED
  BY <1>1, <1>2, PTL DEF Spec

-----------------------------------------------------------------------------
(* The identity of a user whose keys are settled. *)

\* What a step does to the other processes: nothing.
LEMMA OthersStay ==
  ASSUME TypeOK, NEW p \in Proc, ProcStep(p)
  PROVE  \A q \in Proc \ {p} :
           at'[q] = at[q] /\ identity'[q] = identity[q] /\ command'[q] = command[q]
BY DEF TypeOK, ProcStep, Begin, Exists, Read, Proceed, Gone, Truncate, WriteConfig,
       WriteKeys, Fails, Start, StartFails, Leave, Crash

\* How a process comes to be bound to write a file.
LEMMA BoundStep ==
  ASSUME TypeOK, NEW p \in Proc, ProcStep(p), NEW f \in File, Bound(p, f)'
  PROVE  \/ Exists(p) /\ f = FileOf(at[p].stage) /\ files[f] = "missing"
         \/ Truncate(p) /\ Bound(p, f)
         \/ f = "config" /\ ~ Truncate(p)
<1> USE DEF TypeOK
<1>1. CASE \E c \in Command : Begin(p, c)
  BY <1>1 DEF Begin, Bound
<1>2. CASE Exists(p)
  BY <1>2 DEF Exists, Bound, FileOf, FileStep, Idle, AtStart, Running, Stage
<1>3. CASE Truncate(p)
  BY <1>3 DEF Truncate, Bound, FileOf, FileStep, Idle, AtStart, Running, Stage
<1>4. CASE Read(p) \/ WriteConfig(p) \/ WriteKeys(p)
  <2>1. \/ at'[p] = Idle
        \/ \E stage \in Stage : at'[p] = After(stage)
    BY <1>4 DEF Read, WriteConfig, WriteKeys, Proceed, Gone, Writing, FileStep, FileOf,
                Idle, AtStart, Running
  <2>2. ~ Truncate(p)
    BY <1>4 DEF Read, WriteConfig, WriteKeys, Writing, Truncate
  <2> QED
    BY <2>1, <2>2 DEF After, Bound, FileOf, Idle, AtStart, Stage, File
<1>5. CASE Fails(p) \/ Start(p) \/ StartFails(p) \/ Leave(p) \/ Crash(p)
  BY <1>5 DEF Fails, Start, StartFails, Leave, Crash, Gone, Bound, Idle, AtStart, Running
<1> QED
  BY <1>1, <1>2, <1>3, <1>4, <1>5 DEF ProcStep

LEMMA SettledStep ==
  ASSUME TypeOK, Settled, [Next]_vars
  PROVE  Settled' /\ files'["keys"] = files["keys"]
<1>1. CASE UNCHANGED vars
  BY <1>1 DEF vars, Settled, Bound
<1>2. ASSUME NEW p \in Proc, ProcStep(p)
      PROVE  Settled' /\ files'["keys"] = files["keys"]
  <2>1. files'["keys"] = files["keys"]
    <3>1. CASE Truncate(p)
      <4>1. FileOf(at[p].stage) # "keys"
        BY <3>1 DEF Truncate, Settled, Bound
      <4> QED
        BY <3>1, <4>1 DEF Truncate
    <3>2. CASE WriteConfig(p)
      BY <3>2 DEF WriteConfig
    <3>3. ~ WriteKeys(p)
      BY DEF WriteKeys, Writing, Settled, Bound
    <3>4. CASE ~ Truncate(p) /\ ~ WriteConfig(p)
      BY <1>2, <3>3, <3>4 DEF ProcStep, Begin, Exists, Read, Fails, Start, StartFails,
                              Leave, Crash
    <3> QED
      BY <3>1, <3>2, <3>4
  <2>2. files["keys"] # "missing" /\ "keys" \in File
    BY HostAssumption DEF Settled, File
  <2>3. ASSUME NEW q \in Proc, Bound(q, "keys")'
        PROVE  FALSE
    <3>1. CASE q = p
      BY <1>2, <2>2, <2>3, <3>1, BoundStep DEF Settled
    <3>2. CASE q # p
      BY <1>2, <2>3, <3>2, OthersStay DEF Settled, Bound
    <3> QED
      BY <3>1, <3>2
  <2> QED
    BY <2>1, <2>3 DEF Settled
<1> QED
  BY <1>1, <1>2 DEF Next

\* Settled keys stay settled and stay the same, for any number of processes,
\* crashes and failing files.
THEOREM IdentityIsKept == Spec => IdentityStays
<1>1. TypeOK /\ [Next]_vars
        => [Settled => Settled' /\ files'["keys"] = files["keys"]]_vars
  BY SettledStep
<1> QED
  BY <1>1, TypeCorrect, PTL DEF Spec, IdentityStays

\* A process that began when the keys of its user were settled has the identity
\* they give.
THEOREM LateIsRight == Spec => []LateHasIdentity
<1>1. Init => LateHasIdentity
  BY DEF Init, LateHasIdentity
<1>2. TypeOK /\ LateHasIdentity /\ [Next]_vars => LateHasIdentity'
  <2> SUFFICES ASSUME TypeOK, LateHasIdentity, [Next]_vars, NEW q \in late'
               PROVE  Settled' /\ identity'[q] \in {None, files'["keys"]}
    BY DEF LateHasIdentity
  <2>1. CASE UNCHANGED vars
    BY <2>1 DEF vars, LateHasIdentity, Settled, Bound
  <2>2. ASSUME NEW p \in Proc, ProcStep(p)
        PROVE  Settled' /\ identity'[q] \in {None, files'["keys"]}
    <3>1. q \in late \/ (q = p /\ Settled /\ \E c \in Command : Begin(p, c))
      BY <2>2 DEF ProcStep, Begin, Exists, Read, Proceed, Gone, Truncate, WriteConfig,
                  WriteKeys, Fails, Start, StartFails, Leave, Crash
    <3>2. Settled
      BY <3>1 DEF LateHasIdentity
    <3>3. Settled' /\ files'["keys"] = files["keys"]
      BY <3>2, SettledStep
    <3>4. identity'[q] \in {None, identity[q], files["keys"]}
      BY <2>2, <3>2 DEF TypeOK, Settled, Bound, Writing, ProcStep, Begin, Exists, Read,
           Proceed, Gone, Truncate, WriteConfig, WriteKeys, Fails, Start, StartFails,
           Leave, Crash
    <3>5. identity[q] \in {None, files["keys"]}
      BY <3>1 DEF LateHasIdentity, TypeOK, Begin
    <3> QED
      BY <3>3, <3>4, <3>5
  <2> QED
    BY <2>1, <2>2 DEF Next
<1> QED
  BY <1>1, <1>2, TypeCorrect, PTL DEF Spec

-----------------------------------------------------------------------------
(* The files.  As long as no two processes came to write a file at the same  *)
(* time, it has one writer at most, that writer found it or made it empty,   *)
(* and a damaged file has a writer still or had one that did not finish.     *)

SoleWriter(f) == \A p, q \in Proc : Writing(p, f) /\ Writing(q, f) => p = q

EmptyInWrite(f) == \A p \in Proc : Writing(p, f) => files[f] = "empty"

DamageHasWriter(f) == files[f] \in Damaged => f \in torn \/ \E p \in Proc : Writing(p, f)

FilesInv == \A f \in File \ overlapped : SoleWriter(f) /\ EmptyInWrite(f) /\ DamageHasWriter(f)

\* What a step does to a file: it truncates it, finishes a write, ends one that
\* was not finished, or leaves the file and its writers alone.
LEMMA FileCases ==
  ASSUME TypeOK, NEW p \in Proc, ProcStep(p), NEW f \in File
  PROVE  \/ Truncate(p) /\ Bound(p, f) /\ Writing(p, f)' /\ files'[f] = "empty"
         \/ /\ Writing(p, f) /\ ~ Writing(p, f)' /\ ~ Truncate(p)
            /\ \E c \in Key \cup {"settings"} : files'[f] \in Written(f, c)
         \/ /\ files' = files /\ ~ Writing(p, f)'
            /\ f \in torn' <=> f \in torn \/ Writing(p, f)
         \/ /\ ~ Writing(p, f) /\ ~ Writing(p, f)'
            /\ files'[f] = files[f]
            /\ f \in torn' <=> f \in torn
<1> USE DEF TypeOK
<1>1. CASE (\E c \in Command : Begin(p, c)) \/ Start(p) \/ StartFails(p) \/ Leave(p)
  BY <1>1 DEF Begin, Start, StartFails, Leave, Gone, Alive, Writing, Idle, AtStart, Running
<1>2. CASE Exists(p)
  BY <1>2 DEF Exists, Writing, FileStep, Idle, AtStart, Running
<1>3. CASE Truncate(p)
  <2>1. at'[p].do = "write" /\ at'[p].stage = at[p].stage
    BY <1>3 DEF Truncate, FileStep, Idle, AtStart, Running
  <2>2. /\ Bound(p, f) <=> FileOf(at[p].stage) = f
        /\ ~ Writing(p, f)
        /\ Writing(p, f)' <=> FileOf(at[p].stage) = f
    BY <1>3, <2>1 DEF Truncate, Bound, Writing
  <2>3. CASE FileOf(at[p].stage) = f
    BY <1>3, <2>2, <2>3 DEF Truncate
  <2>4. CASE FileOf(at[p].stage) # f
    BY <1>3, <2>2, <2>4 DEF Truncate
  <2> QED
    BY <2>3, <2>4
<1>4. ASSUME NEW stage \in Stage, NEW id, Proceed(p, stage, id)
      PROVE  ~ Writing(p, f)'
  BY <1>4 DEF Proceed, Gone, After, Stage, Writing, FileOf, Idle, AtStart
<1>5. CASE Read(p)
  <2>1. at[p].stage \in Stage
    BY <1>5 DEF Read, FileStep, Idle, AtStart, Running
  <2>2. Gone(p) => ~ Writing(p, f)'
    BY DEF Gone, Writing, Idle
  <2> QED
    BY <1>4, <1>5, <2>1, <2>2 DEF Read, Writing
<1>6. CASE WriteConfig(p)
  <2>1. at[p].stage \in Stage
    BY <1>6 DEF WriteConfig, Writing, FileStep, Idle, AtStart, Running
  <2>2. ~ Writing(p, f)'
    BY <1>4, <1>6, <2>1 DEF WriteConfig
  <2>3. ~ Truncate(p)
    BY <1>6 DEF WriteConfig, Writing, Truncate
  <2>4. CASE f = "config"
    <3>1. files'[f] \in Written(f, "settings") /\ Writing(p, f)
      BY <1>6, <2>4 DEF WriteConfig, File
    <3> QED
      BY <2>2, <2>3, <3>1
  <2>5. CASE f # "config"
    BY <1>6, <2>2, <2>5 DEF WriteConfig, Writing
  <2> QED
    BY <2>4, <2>5
<1>7. CASE WriteKeys(p)
  <2>1. ~ Writing(p, f)'
    BY <1>4, <1>7 DEF WriteKeys, Stage
  <2>2. ~ Truncate(p)
    BY <1>7 DEF WriteKeys, Writing, Truncate
  <2>3. CASE f = "keys"
    <3>1. /\ \E k \in Key : files'[f] \in Written(f, k)
          /\ Writing(p, f)
      BY <1>7, <2>3 DEF WriteKeys, File
    <3> QED
      BY <2>1, <2>2, <3>1
  <2>4. CASE f # "keys"
    BY <1>7, <2>1, <2>4 DEF WriteKeys, Writing
  <2> QED
    BY <2>3, <2>4
<1>8. CASE Fails(p) \/ Crash(p)
  BY <1>8 DEF Fails, Crash, Gone, Writing, Idle, AtStart
<1> QED
  BY <1>1, <1>2, <1>3, <1>5, <1>6, <1>7, <1>8 DEF ProcStep

\* A file only ever becomes overlapped when it is truncated.
LEMMA OverlapStep ==
  ASSUME NEW p \in Proc, ProcStep(p)
  PROVE  /\ overlapped \subseteq overlapped'
         /\ \A f \in File \ overlapped' :
              Truncate(p) /\ FileOf(at[p].stage) = f => \A q \in Proc \ {p} : ~ Bound(q, f)
BY DEF ProcStep, Begin, Exists, Read, Truncate, WriteConfig, WriteKeys, Fails, Start,
       StartFails, Leave, Crash

\* A file no two processes came to write at once has one writer at most, which
\* found it empty, and it is damaged only while that one writes or because the
\* last one died or failed before it wrote.
THEOREM FilesInvariant == Spec => []FilesInv
<1>1. Init => FilesInv
  BY HostAssumption DEF Init, FilesInv, SoleWriter, EmptyInWrite, DamageHasWriter,
                        Writing, Damaged, Idle
<1>2. TypeOK /\ FilesInv /\ [Next]_vars => FilesInv'
  <2> SUFFICES ASSUME TypeOK, FilesInv, [Next]_vars, NEW f \in File \ overlapped'
               PROVE  SoleWriter(f)' /\ EmptyInWrite(f)' /\ DamageHasWriter(f)'
    BY DEF FilesInv
  <2>1. CASE UNCHANGED vars
    BY <2>1 DEF vars, FilesInv, SoleWriter, EmptyInWrite, DamageHasWriter, Writing
  <2>2. ASSUME NEW p \in Proc, ProcStep(p)
        PROVE  SoleWriter(f)' /\ EmptyInWrite(f)' /\ DamageHasWriter(f)'
    <3>1. SoleWriter(f) /\ EmptyInWrite(f) /\ DamageHasWriter(f)
      BY <2>2, OverlapStep DEF FilesInv
    <3>2. \A q \in Proc \ {p} : Writing(q, f)' <=> Writing(q, f)
      BY <2>2, OthersStay DEF Writing
    <3>4. CASE Truncate(p) /\ Bound(p, f) /\ Writing(p, f)' /\ files'[f] = "empty"
      <4>1. \A q \in Proc \ {p} : ~ Writing(q, f)
        BY <2>2, <3>4, OverlapStep DEF Bound, Writing
      <4> QED
        BY <3>2, <3>4, <4>1 DEF SoleWriter, EmptyInWrite, DamageHasWriter
    <3>5. CASE /\ Writing(p, f) /\ ~ Writing(p, f)'
               /\ \E c \in Key \cup {"settings"} : files'[f] \in Written(f, c)
      <4>1. files[f] = "empty" /\ \A q \in Proc \ {p} : ~ Writing(q, f)
        BY <3>1, <3>5 DEF SoleWriter, EmptyInWrite
      <4>2. files'[f] \notin Damaged
        BY <3>5, <4>1, HostAssumption DEF Written, Damaged
      <4>3. \A q \in Proc : ~ Writing(q, f)'
        BY <3>2, <3>5, <4>1
      <4> QED
        BY <4>2, <4>3 DEF SoleWriter, EmptyInWrite, DamageHasWriter
    <3>6. CASE /\ files' = files /\ ~ Writing(p, f)'
               /\ f \in torn' <=> f \in torn \/ Writing(p, f)
      BY <3>1, <3>2, <3>6 DEF SoleWriter, EmptyInWrite, DamageHasWriter
    <3>7. CASE /\ ~ Writing(p, f) /\ ~ Writing(p, f)'
               /\ files'[f] = files[f] /\ (f \in torn' <=> f \in torn)
      <4>1. \A q \in Proc : Writing(q, f)' <=> Writing(q, f)
        BY <3>2, <3>7
      <4> QED
        BY <3>1, <3>7, <4>1 DEF SoleWriter, EmptyInWrite, DamageHasWriter
    <3> QED
      BY <2>2, <3>4, <3>5, <3>6, <3>7, FileCases
  <2> QED
    BY <2>1, <2>2 DEF Next
<1> QED
  BY <1>1, <1>2, TypeCorrect, PTL DEF Spec

\* Only a writer that dies or fails before it wrote, or two writers at the same
\* time, damage a file.
THEOREM DamageHasCause == Spec => []DamageIsExplained
<1>1. TypeOK /\ FilesInv => DamageIsExplained
  BY HostAssumption DEF TypeOK, FilesInv, DamageHasWriter, DamageIsExplained
<1> QED
  BY <1>1, TypeCorrect, FilesInvariant, PTL

-----------------------------------------------------------------------------
(* One identity.  As long as no two processes came to write the keys at the  *)
(* same time, nobody is about to truncate keys that exist, and every process *)
(* that has an identity has the stored one.                                  *)

TruncatesKeys(p) == Bound(p, "keys") /\ at[p].do = "truncate"

KeysInv ==
  "keys" \notin overlapped =>
    /\ files["keys"] # "missing" => \A p \in Proc : ~ TruncatesKeys(p)
    /\ \A p \in Proc : identity[p] \in {None, files["keys"]}

\* Where a process takes its identity from.
LEMMA IdentityStep ==
  ASSUME TypeOK, NEW p \in Proc, ProcStep(p)
  PROVE  \/ identity'[p] \in {None, identity[p]}
         \/ identity'[p] = files["keys"] /\ files' = files
         \/ /\ Writing(p, "keys") /\ identity'[p] \in Key
            /\ files'["keys"] \in Written("keys", identity'[p])
<1> USE DEF TypeOK
<1>1. CASE Read(p)
  <2>1. CASE Gone(p)
    BY <2>1 DEF Gone
  <2>2. CASE ~ Gone(p)
    BY <1>1, <2>2 DEF Read, Proceed
  <2> QED
    BY <2>1, <2>2
<1>2. CASE WriteKeys(p)
  <2>1. PICK k \in Key : /\ Proceed(p, "keys", k)
                         /\ \E c \in Written("keys", k) : files' = [files EXCEPT !["keys"] = c]
    BY <1>2 DEF WriteKeys
  <2>2. files'["keys"] \in Written("keys", k) /\ Writing(p, "keys")
    BY <1>2, <2>1 DEF WriteKeys, File
  <2>3. identity'[p] = None \/ identity'[p] = k
    BY <2>1 DEF Proceed, Gone
  <2> QED
    BY <2>2, <2>3
<1>3. CASE WriteConfig(p)
  BY <1>3 DEF WriteConfig, Proceed, Gone
<1>4. CASE ~ Read(p) /\ ~ WriteKeys(p) /\ ~ WriteConfig(p)
  BY <1>4 DEF ProcStep, Begin, Exists, Truncate, Fails, Start, StartFails, Leave, Crash,
              Gone
<1> QED
  BY <1>1, <1>2, <1>3, <1>4 DEF None

\* Unless two processes came to write the keys at once, nobody is about to
\* truncate keys that exist, and who has an identity has the stored one.
THEOREM KeysInvariant == Spec => []KeysInv
<1>1. Init => KeysInv
  BY DEF Init, KeysInv, File
<1>2. TypeOK /\ FilesInv /\ KeysInv /\ [Next]_vars => KeysInv'
  <2> SUFFICES ASSUME TypeOK, FilesInv, KeysInv, [Next]_vars, "keys" \notin overlapped'
               PROVE  /\ files'["keys"] # "missing" => \A q \in Proc : ~ TruncatesKeys(q)'
                      /\ \A q \in Proc : identity'[q] \in {None, files'["keys"]}
    BY DEF KeysInv
  <2>1. CASE UNCHANGED vars
    BY <2>1 DEF vars, KeysInv, TruncatesKeys, Bound
  <2>2. ASSUME NEW p \in Proc, ProcStep(p)
        PROVE  /\ files'["keys"] # "missing" => \A q \in Proc : ~ TruncatesKeys(q)'
               /\ \A q \in Proc : identity'[q] \in {None, files'["keys"]}
    <3>1. /\ files["keys"] # "missing" => \A q \in Proc : ~ TruncatesKeys(q)
          /\ \A q \in Proc : identity[q] \in {None, files["keys"]}
          /\ SoleWriter("keys") /\ EmptyInWrite("keys")
          /\ "keys" \in File
      BY <2>2, OverlapStep DEF KeysInv, FilesInv, File
    <3>2. \A q \in Proc \ {p} : /\ TruncatesKeys(q)' <=> TruncatesKeys(q)
                                /\ Bound(q, "keys")' <=> Bound(q, "keys")
                                /\ identity'[q] = identity[q]
      BY <2>2, OthersStay DEF TruncatesKeys, Bound
    <3>3. \A q \in Proc : identity[q] # None => files["keys"] \in Key
      BY <3>1 DEF TypeOK
    <3>4. CASE Truncate(p) /\ Bound(p, "keys")
      <4>1. TruncatesKeys(p) /\ FileOf(at[p].stage) = "keys"
        BY <3>4 DEF TruncatesKeys, Truncate, Bound
      <4>2. \A q \in Proc : identity[q] = None
        BY <3>1, <3>3, <4>1, HostAssumption
      <4>3. \A q \in Proc \ {p} : ~ TruncatesKeys(q)
        BY <2>2, <3>1, <4>1, <3>4, OverlapStep DEF TruncatesKeys
      <4>4. ~ TruncatesKeys(p)'
        BY <3>4 DEF Truncate, TruncatesKeys, TypeOK, FileStep, Idle, AtStart, Running
      <4>5. identity' = identity
        BY <3>4 DEF Truncate
      <4> QED
        BY <3>2, <4>2, <4>3, <4>4, <4>5
    <3>5. CASE Writing(p, "keys") /\ ~ Truncate(p)
      <4>1. files["keys"] = "empty"
        BY <3>1, <3>5 DEF EmptyInWrite
      <4>2. \A q \in Proc : identity[q] = None
        BY <3>3, <4>1, HostAssumption
      <4>3. \A q \in Proc : ~ TruncatesKeys(q)'
        <5>1. ~ TruncatesKeys(p)'
          BY <2>2, <3>1, <3>5, BoundStep DEF TruncatesKeys, Writing, Exists
        <5> QED
          BY <3>1, <3>2, <4>1, <5>1
      <4>4. identity'[p] \in {None, files'["keys"]}
        BY <2>2, <3>5, <4>1, <4>2, IdentityStep DEF Written
      <4> QED
        BY <3>2, <4>2, <4>3, <4>4
    <3>6. CASE ~ Writing(p, "keys") /\ ~ (Truncate(p) /\ Bound(p, "keys"))
      <4>1. files'["keys"] = files["keys"]
        BY <2>2, <3>1, <3>6, FileCases
      <4>2. files["keys"] # "missing" => ~ TruncatesKeys(p)'
        BY <2>2, <3>1, <3>6, BoundStep DEF TruncatesKeys
      <4>3. identity'[p] \in {None, files["keys"]}
        BY <2>2, <3>1, <3>6, IdentityStep
      <4> QED
        BY <3>1, <3>2, <4>1, <4>2, <4>3
    <3> QED
      BY <3>4, <3>5, <3>6 DEF Writing, Truncate
  <2> QED
    BY <2>1, <2>2 DEF Next
<1> QED
  BY <1>1, <1>2, TypeCorrect, FilesInvariant, PTL DEF Spec

\* Two processes of a user have different identities only if both came to write
\* the keys at the same time.
THEOREM IdentitiesAgree == Spec => []OneIdentity
<1>1. KeysInv => OneIdentity
  BY DEF KeysInv, OneIdentity
<1> QED
  BY <1>1, KeysInvariant, PTL

-----------------------------------------------------------------------------
\* Lost keys have no way back, and nobody gets an identity from them, through
\* any number of commands, windows, crashes and failing files.
THEOREM LostKeysAreGone == Spec => LostKeysStayLost
<1> DEFINE Gives == Lost' /\ \A p \in Proc : identity'[p] \in {None, identity[p]}
<1>1. TypeOK /\ TypeOK' /\ [Next]_vars => [Lost => Gives]_vars
  <2> SUFFICES ASSUME TypeOK, TypeOK', Lost, NEW p \in Proc, ProcStep(p)
               PROVE  Gives
    BY DEF Next
  <2>1. files["keys"] \in Damaged /\ "keys" \in File /\ files["keys"] # "missing"
    BY DEF Lost, File, Damaged
  <2>2. ~ Bound(p, "keys") /\ ~ Writing(p, "keys")
    BY DEF Lost, Bound, Writing
  <2>3. files'["keys"] = files["keys"]
    BY <2>1, <2>2, FileCases
  <2>4. \A q \in Proc : ~ Bound(q, "keys")'
    <3>1. ~ Bound(p, "keys")'
      BY <2>1, <2>2, BoundStep
    <3> QED
      BY <3>1, OthersStay DEF Lost, Bound
  <2>5. \A q \in Proc : identity'[q] \in {None, identity[q]}
    <3>1. identity'[p] \in Key \cup {None}
      BY DEF TypeOK
    <3>2. files["keys"] \notin Key \cup {None}
      BY <2>1, HostAssumption DEF Damaged, None
    <3>3. identity'[p] \in {None, identity[p]}
      BY <2>2, <3>1, <3>2, IdentityStep
    <3> QED
      BY <3>3, OthersStay
  <2> QED
    BY <2>1, <2>3, <2>4, <2>5 DEF Lost
<1> QED
  BY <1>1, TypeCorrect, PTL DEF Spec, LostKeysStayLost

=============================================================================
