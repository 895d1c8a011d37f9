---------------------------- MODULE DesktopProofs ----------------------------
(* The theorems of Desktop: it is a Host, its settings and its windows.      *)
EXTENDS Desktop, HostProofs

-----------------------------------------------------------------------------
LEMMA ProcessSteps ==
  ASSUME NEW p \in Proc, DesktopStep(p)
  PROVE  ProcStep(p) \/ UNCHANGED vars
BY DEF DesktopStep, ProcStep, Runs, Begins, Works, Errs, Starts, Ends, Crashes, Open,
       AskSetup, Cancel, run_setup, toggle_vpn, Close, Command

LEMMA StepOfHost ==
  ASSUME [DesktopNext]_desktopVars
  PROVE  [Next]_vars
BY ProcessSteps DEF DesktopNext, desktopVars, Next

\* Every behaviour of Desktop is one of Host: settings and windows add no step
\* to it, and all that is proved of files, keys and interface holds here.
THEOREM DesktopIsHost == DesktopSpec => Spec
<1>1. DesktopInit => Init
  BY DEF DesktopInit
<1>2. [DesktopNext]_desktopVars => [Next]_vars
  BY StepOfHost
<1> QED
  BY <1>1, <1>2, PTL DEF DesktopSpec, Spec

\* Settled keys stay, whatever their user does with commands and windows.
THEOREM DesktopKeepsIdentity == DesktopSpec => IdentityStays
BY DesktopIsHost, IdentityIsKept, PTL

\* Whatever the user does with commands and windows, the other promises of Host
\* are kept as well: lost keys stay lost, damage has a cause, who came late has
\* the identity the settled keys give, and different identities of the user's
\* processes have a cause.
THEOREM DesktopKeepsPromises ==
  DesktopSpec => /\ LostKeysStayLost
                 /\ [](DamageIsExplained /\ LateHasIdentity /\ OneIdentity)
BY DesktopIsHost, LostKeysAreGone, DamageHasCause, LateIsRight, IdentitiesAgree, PTL

-----------------------------------------------------------------------------
(* Types. *)

LEMMA CommandStep ==
  ASSUME NEW p \in Proc, TypeOK
  PROVE  /\ Works(p) \/ Errs(p) \/ Starts(p) =>
              \A q \in Proc :
                \/ command'[q] = command[q] /\ (Alive(q) => Alive(q)')
                \/ command'[q] = None
         /\ Ends(p) \/ Crashes(p) =>
              /\ at' = [at EXCEPT ![p] = Idle]
              /\ command' = [command EXCEPT ![p] = None]
         /\ \A c : Begins(p, c) =>
              /\ at' = [at EXCEPT ![p] = [stage |-> "config", do |-> "exists"]]
              /\ command' = [command EXCEPT ![p] = c]
<1> USE DEF TypeOK
<1>1. ASSUME Works(p) \/ Errs(p) \/ Starts(p), NEW q \in Proc
      PROVE  \/ command'[q] = command[q] /\ (Alive(q) => Alive(q)')
             \/ command'[q] = None
  <2>1. ASSUME NEW stage \in Stage, NEW id, Proceed(p, stage, id)
        PROVE  \/ command'[q] = command[q] /\ (Alive(q) => Alive(q)')
               \/ command'[q] = None
    BY <2>1 DEF Proceed, Gone, Alive, After, Stage, AtStart, Idle, None
  <2>2. CASE Read(p)
    <3>1. at[p].stage \in Stage
      BY <2>2 DEF Read, FileStep, Idle, AtStart, Running
    <3>2. \/ Gone(p)
          \/ Proceed(p, at[p].stage, IF FileOf(at[p].stage) = "keys"
                                       THEN files[FileOf(at[p].stage)] ELSE identity[p])
      BY <2>2, Zenon DEF Read
    <3>3. CASE Gone(p)
      BY <3>3 DEF Gone, Alive
    <3> QED
      BY <2>1, <3>1, <3>2, <3>3
  <2>3. CASE WriteConfig(p)
    <3>1. at[p].stage \in Stage
      BY <2>3 DEF WriteConfig, Writing, FileStep, Idle, AtStart, Running
    <3> QED
      BY <2>1, <2>3, <3>1 DEF WriteConfig
  <2>4. CASE WriteKeys(p)
    BY <2>1, <2>4 DEF WriteKeys, Stage
  <2>5. CASE Exists(p) \/ Truncate(p)
    <3>1. at[p] \in FileStep
      BY <2>5 DEF Exists, Truncate, Idle, AtStart, Running
    <3>2. at'[p].do # "idle" /\ command' = command /\ \A r \in Proc \ {p} : at'[r] = at[r]
      BY <2>5, <3>1 DEF Exists, Truncate, FileStep
    <3> QED
      BY <3>2 DEF Alive, Idle
  <2>6. CASE Starts(p)
    BY <2>6 DEF Starts, Start, Alive, Idle, Running
  <2>7. CASE Errs(p)
    <3>1. \/ Gone(p)
          \/ command' = command /\ at' = [at EXCEPT ![p] = AtStart]
      BY <2>7 DEF Errs, Fails
    <3> QED
      BY <3>1 DEF Gone, Alive, AtStart, Idle, None
  <2> QED
    BY <1>1, <2>2, <2>3, <2>4, <2>5, <2>6, <2>7 DEF Works
<1>2. Ends(p) \/ Crashes(p) =>
        /\ at' = [at EXCEPT ![p] = Idle]
        /\ command' = [command EXCEPT ![p] = None]
  BY DEF Ends, Crashes, StartFails, Leave, Crash, Gone
<1> QED
  BY <1>1, <1>2 DEF Begins, Begin

\* What the actions make of a window is a window.
LEMMA WindowUpdate ==
  ASSUME NEW w \in Window
  PROVE  /\ [w EXCEPT !.show_setup = TRUE] \in Window
         /\ [w EXCEPT !.show_setup = FALSE] \in Window
         /\ [w EXCEPT !.needs_permissions = FALSE, !.show_setup = FALSE] \in Window
         /\ [w EXCEPT !.state = "Connecting"] \in Window
         /\ w # NoWindow
<1>1. PICK s \in {"Disconnected", "Connecting"}, n \in BOOLEAN, u \in BOOLEAN, c \in BOOLEAN :
        w = [state |-> s, needs_permissions |-> n, show_setup |-> u, capable |-> c]
  BY DEF Window
<1>2. w # NoWindow
  BY <1>1 DEF NoWindow, None
<1>3. ASSUME NEW b \in BOOLEAN
      PROVE  [w EXCEPT !.show_setup = b] \in Window
  BY <1>1 DEF Window
<1>4. [w EXCEPT !.needs_permissions = FALSE, !.show_setup = FALSE] \in Window
  BY <1>1 DEF Window
<1>5. [w EXCEPT !.state = "Connecting"] \in Window
  BY <1>1 DEF Window
<1> QED
  BY <1>2, <1>3, <1>4, <1>5

\* A step on a window changes that window only.
LEMMA WindowStep ==
  ASSUME NEW p \in Proc, DesktopTypeOK,
         AskSetup(p) \/ Cancel(p) \/ run_setup(p) \/ toggle_vpn(p)
  PROVE  /\ window[p] \in Window
         /\ window'[p] \in Window
         /\ window' = [window EXCEPT ![p] = window'[p]]
<1>1. window[p] \in Window /\ window \in [Proc -> Window \cup {NoWindow}]
  BY DEF AskSetup, Cancel, run_setup, toggle_vpn, ButtonEnabled, TakesInput, DesktopTypeOK
<1>2. \E w \in Window : window' = [window EXCEPT ![p] = w]
  <2>1. CASE AskSetup(p)
    <3>1. window' = [window EXCEPT ![p] = [window[p] EXCEPT !.show_setup = TRUE]]
      BY <2>1, Zenon DEF AskSetup
    <3> QED
      BY <1>1, <3>1, WindowUpdate
  <2>2. CASE Cancel(p)
    <3>1. window' = [window EXCEPT ![p] = [window[p] EXCEPT !.show_setup = FALSE]]
      BY <2>2, Zenon DEF Cancel
    <3> QED
      BY <1>1, <3>1, WindowUpdate
  <2>3. CASE run_setup(p)
    <3>1. \/ window' = window
          \/ window' = [window EXCEPT ![p].needs_permissions = FALSE,
                                      ![p].show_setup = FALSE]
      BY <2>3 DEF run_setup
    <3>2. window = [window EXCEPT ![p] = window[p]]
      BY <1>1
    <3>3. [window EXCEPT ![p].needs_permissions = FALSE, ![p].show_setup = FALSE]
            = [window EXCEPT ![p] = [window[p] EXCEPT !.needs_permissions = FALSE,
                                                      !.show_setup = FALSE]]
      BY <1>1
    <3> QED
      BY <1>1, <3>1, <3>2, <3>3, WindowUpdate
  <2>4. CASE toggle_vpn(p)
    <3>1. window' = [window EXCEPT ![p] = [window[p] EXCEPT !.state = "Connecting"]]
      BY <2>4, Zenon DEF toggle_vpn
    <3> QED
      BY <1>1, <3>1, WindowUpdate
  <2> QED
    BY <2>1, <2>2, <2>3, <2>4
<1> QED
  BY <1>1, <1>2

LEMMA AliveStep ==
  ASSUME NEW p \in Proc, TypeOK, DesktopStep(p)
  PROVE  /\ \A q \in Proc \ {p} : at'[q] = at[q] /\ command'[q] = command[q]
         /\ Runs(p) \/ toggle_vpn(p) \/ Starts(p) => Alive(p)'
         /\ ~ (Works(p) \/ Errs(p) \/ Ends(p) \/ Crashes(p)) /\ Alive(p) => Alive(p)'
<1>1. \A q \in Proc \ {p} : at'[q] = at[q] /\ command'[q] = command[q]
  BY ProcessSteps, OthersStay DEF vars
<1> QED
  BY <1>1 DEF DesktopStep, Runs, Begins, Begin, Starts, Start, Open, AskSetup, Cancel, run_setup,
              toggle_vpn, Close, vars, Alive, Idle, Running, TypeOK

\* Types of settings and windows, and that a click is under way only in a window.
THEOREM DesktopTypeCorrect == DesktopSpec => []DesktopTypeOK
<1>1. DesktopInit => DesktopTypeOK
  <2>1. Init => TypeOK
    BY HostAssumption DEF Init, TypeOK, Alive, Content, File, None, Idle, AtStart, Running
  <2> QED
    BY <2>1 DEF DesktopInit, Init, DesktopTypeOK, NoWindow, Window, None
<1>2. DesktopTypeOK /\ TypeOK' /\ [DesktopNext]_desktopVars => DesktopTypeOK'
  <2> SUFFICES ASSUME DesktopTypeOK, TypeOK', [DesktopNext]_desktopVars
               PROVE  DesktopTypeOK'
    OBVIOUS
  <2> USE DEF DesktopTypeOK
  <2>1. CASE UNCHANGED desktopVars
    BY <2>1 DEF desktopVars, vars, settingVars, windowVars, Alive
  <2>2. ASSUME NEW p \in Proc, DesktopStep(p)
        PROVE  DesktopTypeOK'
    <3>1. /\ stored' \subseteq Setting
          /\ mine' \in [Proc -> SUBSET Setting]
          /\ asked' \in [Proc -> SUBSET Setting]
      <4>1. ASSUME NEW c \in Command, Begins(p, c)
            PROVE  Flags(c) \subseteq SUBSET Setting
        BY <4>1 DEF Command, Flags
      <4>2. ASSUME NEW found \in SUBSET Setting, Overrides(p, found)
            PROVE  mine' \in [Proc -> SUBSET Setting]
        BY <4>2 DEF Overrides, Replaced, WindowSettings
      <4>3. ASSUME Works(p) \/ Errs(p)
            PROVE  <3>1!1 /\ <3>1!2 /\ <3>1!3
        <5>1. CASE Forgets(p)
          BY <5>1 DEF Forgets
        <5>2. CASE SettingStep(p) /\ UNCHANGED asked
          BY <5>2, <4>2 DEF SettingStep, Stores
        <5>3. CASE UNCHANGED <<stored, mine, asked>>
          BY <5>3
        <5> QED
          BY <4>3, <5>1, <5>2, <5>3 DEF Works, Errs
      <4>4. CASE Runs(p) \/ toggle_vpn(p)
        BY <4>1, <4>4 DEF Runs, toggle_vpn, Begins, Command
      <4>5. CASE Ends(p) \/ Crashes(p)
        BY <4>5 DEF Ends, Crashes, Forgets
      <4>6. CASE UNCHANGED settingVars
        BY <4>6 DEF settingVars
      <4> QED
        BY <2>2, <4>3, <4>4, <4>5, <4>6
           DEF DesktopStep, Starts, Open, AskSetup, Cancel, run_setup, Close
    <3>2. behind' \subseteq {q \in Proc : Alive(q)'} /\ unsaved' \subseteq {q \in Proc : Alive(q)'}
      <4>1. \A q \in Proc \ {p} : Alive(q)' <=> Alive(q)
        BY <2>2, AliveStep DEF Alive
      <4>2. ASSUME Works(p) \/ Errs(p)
            PROVE  <3>2
        <5>1. CASE Forgets(p)
          BY <4>1, <5>1 DEF Forgets
        <5>2. CASE SettingStep(p) /\ Alive(p)' /\ unsaved' = unsaved
          BY <4>1, <5>2 DEF SettingStep, Stores, HasConfig
        <5>3. CASE Alive(p)' /\ behind' = behind /\ unsaved' = unsaved \cup {p}
          BY <4>1, <5>3
        <5> QED
          BY <4>2, <5>1, <5>2, <5>3 DEF Works, Errs
      <4>3. CASE Ends(p) \/ Crashes(p)
        BY <4>1, <4>3 DEF Ends, Crashes, Forgets
      <4>4. CASE ~ Works(p) /\ ~ Errs(p) /\ ~ Ends(p) /\ ~ Crashes(p)
        <5>1. behind' = behind /\ unsaved' = unsaved
          BY <2>2, <4>4 DEF DesktopStep, Runs, toggle_vpn, Begins, Starts, Open, AskSetup,
                            Cancel, run_setup, Close, settingVars
        <5>2. Alive(p) => Alive(p)'
          BY <2>2, <4>4, AliveStep
        <5> QED
          BY <4>1, <5>1, <5>2
      <4> QED
        BY <4>2, <4>3, <4>4
    <3>3. granted' \in BOOLEAN /\ window' \in [Proc -> Window \cup {NoWindow}]
      <4>1. CASE Runs(p) \/ Works(p) \/ Errs(p) \/ Starts(p) \/ Ends(p)
        BY <4>1 DEF Runs, Works, Errs, Starts, Ends, windowVars
      <4>2. CASE Crashes(p) \/ Close(p)
        BY <4>2 DEF Crashes, Close
      <4>3. CASE Open(p)
        BY <4>3, DesktopAssumption DEF Open, check_capabilities, Window
      <4>4. CASE AskSetup(p) \/ Cancel(p) \/ run_setup(p) \/ toggle_vpn(p)
        <5>1. window' \in [Proc -> Window \cup {NoWindow}]
          BY <4>4, WindowStep
        <5>2. granted' \in BOOLEAN
          BY <4>4 DEF AskSetup, Cancel, run_setup, toggle_vpn, setup_permissions
        <5> QED
          BY <5>1, <5>2
      <4> QED
        BY <2>2, <4>1, <4>2, <4>3, <4>4 DEF DesktopStep
    <3>4. \A q \in Proc : command'[q] = "click" => Alive(q)' /\ window'[q] # NoWindow
      <4>1. CASE Runs(p)
        BY <4>1, CommandStep DEF Runs, windowVars, TypeOK, Alive
      <4>2. CASE Works(p) \/ Errs(p) \/ Starts(p)
        BY <4>2, CommandStep DEF Works, Errs, Starts, windowVars, None
      <4>3. CASE Ends(p) \/ Crashes(p)
        BY <4>3, CommandStep DEF Ends, Crashes, windowVars, TypeOK, None, Alive
      <4>4. CASE Open(p) \/ Close(p)
        <5>1. command[p] # "click" /\ command' = command /\ at' = at
          BY <4>4 DEF Open, Close, TakesInput, vars
        <5> QED
          BY <4>4, <5>1 DEF Open, Close, Alive
      <4>5. CASE AskSetup(p) \/ Cancel(p) \/ run_setup(p)
        <5>1. command' = command /\ at' = at
          BY <4>5 DEF AskSetup, Cancel, run_setup, vars
        <5> QED
          BY <4>5, <5>1, WindowStep, WindowUpdate DEF Alive
      <4>6. CASE toggle_vpn(p)
        <5>1. /\ at'[p] # Idle
              /\ \A q \in Proc \ {p} : at'[q] = at[q] /\ command'[q] = command[q]
          BY <4>6, CommandStep DEF toggle_vpn, TypeOK, Idle, None
        <5>2. window'[p] # NoWindow /\ \A q \in Proc \ {p} : window'[q] = window[q]
          BY <4>6, WindowStep, WindowUpdate
        <5> QED
          BY <5>1, <5>2 DEF Alive
      <4> QED
        BY <2>2, <4>1, <4>2, <4>3, <4>4, <4>5, <4>6 DEF DesktopStep
    <3> QED
      BY <3>1, <3>2, <3>3, <3>4 DEF Alive
  <2> QED
    BY <2>1, <2>2 DEF DesktopNext
<1> QED
  BY <1>1, <1>2, DesktopIsHost, TypeCorrect, PTL DEF DesktopSpec

-----------------------------------------------------------------------------
(* Permissions. *)

PermissionOf(p) ==
  window[p] # NoWindow =>
    /\ window[p].show_setup => window[p].needs_permissions
    /\ window[p].needs_permissions => ~ window[p].capable
    /\ ~ window[p].needs_permissions /\ ~ window[p].capable => granted

\* A window without the permission either says so or asked for it itself, with
\* success.
THEOREM PermissionsExplained == DesktopSpec => []PermissionIsExplained
<1>1. DesktopInit => PermissionIsExplained
  BY DEF DesktopInit, PermissionIsExplained
<1>2. DesktopTypeOK /\ PermissionIsExplained /\ [DesktopNext]_desktopVars => PermissionIsExplained'
  <2> SUFFICES ASSUME DesktopTypeOK, PermissionIsExplained, [DesktopNext]_desktopVars,
                      NEW q \in Proc
               PROVE  PermissionOf(q)'
    BY DEF PermissionIsExplained, PermissionOf
  <2>0. PermissionOf(q)
    BY DEF PermissionIsExplained, PermissionOf
  <2>1. CASE UNCHANGED windowVars
    BY <2>0, <2>1 DEF windowVars, PermissionOf
  <2>2. ASSUME NEW p \in Proc, DesktopStep(p)
        PROVE  PermissionOf(q)'
    <3>1. granted => granted'
      BY <2>2 DEF DesktopStep, Runs, Works, Errs, Starts, Ends, Crashes, Open, AskSetup, Cancel,
                  run_setup, toggle_vpn, Close, setup_permissions, windowVars
    <3>2. CASE window'[q] = window[q]
      BY <2>0, <3>1, <3>2 DEF PermissionOf
    <3>3. CASE window'[q] = NoWindow
      BY <3>3 DEF PermissionOf
    <3>4. CASE p = q /\ Open(p)
      <4>1. window' = [window EXCEPT ![p] =
                         [state |-> "Disconnected", show_setup |-> FALSE,
                          needs_permissions |-> check_capabilities,
                          capable |-> ~ check_capabilities]]
        BY <3>4, Zenon DEF Open
      <4>2. /\ window'[q].show_setup = FALSE
            /\ window'[q].needs_permissions = check_capabilities
            /\ window'[q].capable = ~ check_capabilities
        BY <3>4, <4>1 DEF DesktopTypeOK
      <4> QED
        BY <4>2, Zenon DEF PermissionOf
    <3>5. CASE p = q /\ AskSetup(p)
      BY <2>0, <3>1, <3>5 DEF AskSetup, TakesInput, PermissionOf, DesktopTypeOK, Window
    <3>6. CASE p = q /\ Cancel(p)
      BY <2>0, <3>1, <3>6 DEF Cancel, TakesInput, PermissionOf, DesktopTypeOK, Window
    <3>7. CASE p = q /\ run_setup(p)
      <4>1. PICK ok \in BOOLEAN :
              /\ setup_permissions(ok)
              /\ window' = IF ok THEN [window EXCEPT ![p].needs_permissions = FALSE,
                                                     ![p].show_setup = FALSE]
                           ELSE window
        BY <3>7 DEF run_setup
      <4>2. CASE ok
        BY <3>7, <4>1, <4>2 DEF setup_permissions, run_setup, TakesInput, PermissionOf,
                                DesktopTypeOK, Window
      <4>3. CASE ~ ok
        <5>1. window' = window
          BY <4>1, <4>3
        <5> QED
          BY <3>2, <5>1
      <4> QED
        BY <4>2, <4>3
    <3>8. CASE p = q /\ toggle_vpn(p)
      BY <2>0, <3>1, <3>8 DEF toggle_vpn, ButtonEnabled, TakesInput, PermissionOf,
                              DesktopTypeOK, Window
    <3> QED
      BY <2>2, <3>2, <3>3, <3>4, <3>5, <3>6, <3>7, <3>8
         DEF DesktopStep, Runs, Works, Errs, Starts, Ends, Crashes, Open, AskSetup, Cancel,
             run_setup, toggle_vpn, Close, windowVars, DesktopTypeOK
  <2> QED
    BY <2>1, <2>2 DEF DesktopNext, desktopVars, windowVars
<1> QED
  BY <1>1, <1>2, DesktopTypeCorrect, PTL DEF DesktopSpec

-----------------------------------------------------------------------------
(* Settings. *)

\* What a process that is not behind knows of the stored settings.
KnowsStored(p) ==
  /\ HasConfig(p) /\ at[p].stage = "config" => stored = {}
  /\ HasConfig(p) /\ at[p].stage # "config" =>
       \A s \in Setting \ Replaced(p) : s \in mine[p] <=> s \in stored
  /\ at[p] \in {AtStart, Running} =>
       mine[p] = stored \/ (p \in unsaved /\ command[p] = "click")

SettingsInv ==
  /\ files["config"] = "missing" => stored = {}
  /\ \A p \in Proc : at[p].stage = "save" => at[p].do \in {"truncate", "write"}
  /\ \A p \in Proc \ behind : KnowsStored(p)

\* Where a process is after a step of its own, as far as settings go.
LEMMA ConfigStep ==
  ASSUME TypeOK, NEW p \in Proc, Works(p), Alive(p)',
         at[p].stage = "save" => at[p].do \in {"truncate", "write"}
  PROVE  /\ at[p] \in FileStep
         /\ at'[p].stage = "save" => at'[p].do \in {"truncate", "write"}
         /\ HasConfig(p)' /\ ~ HasConfig(p) =>
              \/ at[p].stage = "config" /\ at[p].do = "read" /\ at'[p].stage = "keys"
              \/ at[p].stage = "config" /\ at'[p].stage = "config"
                   /\ files["config"] = "missing" /\ ~ Writing(p, "config") /\ at[p].do # "read"
         /\ HasConfig(p) /\ ~ Writing(p, "config") =>
              (at'[p].stage = "config" <=> at[p].stage = "config")
         /\ Writing(p, "config") /\ at[p].stage = "config" => at'[p].stage = "keys"
         /\ at'[p] # Running
         /\ at'[p] = AtStart <=> Writing(p, "config") /\ at[p].stage = "save"
<1> USE DEF TypeOK
<1>1. at[p] \in FileStep
  BY DEF Works, Exists, Read, Truncate, WriteConfig, WriteKeys, Writing, Idle, AtStart, Running
<1>2. CASE Exists(p)
  <2>1. /\ at'[p].stage = at[p].stage
        /\ at'[p].do = IF files[FileOf(at[p].stage)] = "missing" THEN "truncate" ELSE "read"
    BY <1>1, <1>2 DEF Exists, FileStep
  <2> QED
    BY <1>1, <1>2, <2>1 DEF Exists, HasConfig, Alive, FileStep, FileOf, Writing, AtStart, Running, Idle
<1>3. CASE Truncate(p)
  <2>1. at'[p].stage = at[p].stage /\ at'[p].do = "write"
    BY <1>1, <1>3 DEF Truncate, FileStep
  <2> QED
    BY <1>1, <1>3, <2>1 DEF Truncate, HasConfig, Alive, FileStep, Writing, AtStart, Running, Idle
<1>4. CASE Read(p) \/ WriteConfig(p) \/ WriteKeys(p)
  <2>1. at'[p] = After(at[p].stage)
    BY <1>1, <1>4 DEF Read, WriteConfig, WriteKeys, Proceed, Gone, Alive, Writing, FileStep,
                      Stage, FileOf
  <2>2. at[p].stage = "save" => Writing(p, "config")
    BY <1>4 DEF Read, WriteConfig, WriteKeys, Writing, FileOf
  <2>3. at[p].stage = "config" => at[p].do = "read" \/ Writing(p, "config")
    BY <1>4 DEF Read, WriteConfig, WriteKeys, Writing, FileOf
  <2>4. CASE at[p].stage = "config"
    BY <1>1, <2>1, <2>3, <2>4 DEF After, HasConfig, Alive, AtStart, Running, Idle, FileStep, Writing
  <2>5. CASE at[p].stage = "keys"
    BY <1>1, <2>1, <2>5 DEF After, HasConfig, Alive, AtStart, Running, Idle, FileStep, Writing, FileOf
  <2>6. CASE at[p].stage = "save"
    BY <1>1, <2>1, <2>2, <2>6 DEF After, HasConfig, Alive, AtStart, Running, Idle, FileStep, None
  <2> QED
    BY <1>1, <2>4, <2>5, <2>6 DEF FileStep, Stage
<1> QED
  BY <1>2, <1>3, <1>4 DEF Works

LEMMA SettingsStep ==
  ASSUME DesktopTypeOK, SettingsInv, NEW p \in Proc, DesktopStep(p)
  PROVE  SettingsInv'
<1> USE DEF DesktopTypeOK
<1>1. ASSUME NEW q \in Proc \ {p}
      PROVE  /\ at'[q] = at[q] /\ mine'[q] = mine[q] /\ command'[q] = command[q]
             /\ q \in unsaved' <=> q \in unsaved
             /\ Replaced(q)' = Replaced(q)
             /\ HasConfig(q)' <=> HasConfig(q)
  <2>1. at'[q] = at[q] /\ command'[q] = command[q]
    BY AliveStep
  <2>2. asked'[q] = asked[q] /\ mine'[q] = mine[q] /\ (q \in unsaved' <=> q \in unsaved)
    BY DEF DesktopStep, Runs, Works, Errs, Starts, Ends, Crashes, Open, AskSetup, Cancel, run_setup,
           toggle_vpn, Close, Begins, Forgets, SettingStep, Overrides, settingVars
  <2> QED
    BY <2>1, <2>2 DEF HasConfig, Alive, Replaced, WindowSettings
<1>2. files'["config"] = "missing" => files["config"] = "missing"
  <2>1. \A f \in File : files'[f] = "missing" => files[f] = "missing"
    BY ProcessSteps, FileCases, HostAssumption DEF vars, Written
  <2> QED
    BY <2>1 DEF File
<1>3. ASSUME NEW q \in Proc \ {p}, q \notin behind'
      PROVE  KnowsStored(q)'
  <2>1. at[q] \in {AtStart, Running} => HasConfig(q)
    BY DEF HasConfig, Alive, AtStart, Running, Idle, None
  <2>2. CASE ~ HasConfig(q)
    BY <1>1, <2>1, <2>2 DEF KnowsStored
  <2>3. CASE HasConfig(q)
    <3>1. stored' = stored /\ q \notin behind
      BY <1>3, <2>3 DEF DesktopStep, Runs, Works, Errs, Starts, Ends, Crashes, Open, AskSetup, Cancel,
             run_setup, toggle_vpn, Close, Begins, Forgets, SettingStep, Stores, settingVars
    <3> QED
      BY <1>1, <3>1 DEF KnowsStored, SettingsInv
  <2> QED
    BY <2>2, <2>3
<1>5. ASSUME NEW q \in Proc \ {p}
      PROVE  at'[q].stage = "save" => at'[q].do \in {"truncate", "write"}
  BY <1>1, <1>5 DEF SettingsInv
<1>4. CASE ~ Alive(p)'
  <2>1. ~ HasConfig(p)' /\ at'[p] \notin {AtStart, Running}
    BY <1>4 DEF HasConfig, Alive, AtStart, Running, Idle
  <2>2. KnowsStored(p)'
    BY <2>1 DEF KnowsStored
  <2>3. files'["config"] = "missing" => stored' = {}
    BY <1>2, <1>4 DEF SettingsInv, DesktopStep, Runs, Works, Errs, Starts, Ends, Crashes, Open, AskSetup,
           Cancel, run_setup, toggle_vpn, Close, Begins, Forgets, settingVars
  <2> QED
    BY <1>3, <1>4, <1>5, <2>2, <2>3 DEF SettingsInv, Alive, Idle, None
<1>6. CASE Alive(p)' /\ Works(p)
  <2>1. SettingStep(p) /\ asked' = asked /\ unsaved' = unsaved
    BY <1>6 DEF Works
  <2>0. command'[p] = command[p] /\ Replaced(p)' = Replaced(p)
    <3>1. command'[p] = command[p] \/ Gone(p)
      BY <1>6 DEF Works, Exists, Read, Truncate, WriteConfig, WriteKeys, Proceed
    <3>2. ~ Gone(p)
      BY <1>6 DEF Gone, Alive, TypeOK
    <3> QED
      BY <2>1, <3>1, <3>2 DEF Replaced, WindowSettings
  <2>2. at[p].stage = "save" => at[p].do \in {"truncate", "write"}
    BY DEF SettingsInv
  <2>3. files'["config"] = "missing" => stored' = {}
    <3>1. Writing(p, "config") => files'["config"] # "missing"
      <4>1. ASSUME Writing(p, "config")
            PROVE  \E c \in Written("config", "settings") : files'["config"] = c
        <5>1. WriteConfig(p)
          BY <1>6, <4>1 DEF Works, Exists, Read, Truncate, WriteKeys, Writing
        <5> QED
          BY <5>1 DEF WriteConfig, TypeOK, File
      <4> QED
        BY <4>1 DEF Written
    <3> QED
      BY <1>2, <2>1, <3>1 DEF SettingsInv, SettingStep
  <2>4. ASSUME p \notin behind'
        PROVE  KnowsStored(p)'
    <3>1. CASE Writing(p, "config") /\ at[p].stage = "config"
      <4>1. Stores(p, {}) /\ Overrides(p, {})
        BY <2>1, <3>1 DEF SettingStep, Writing
      <4>2. at'[p].stage = "keys"
        BY <1>6, <2>2, <3>1, ConfigStep
      <4>3. stored' = {} /\ mine'[p] \subseteq Replaced(p)'
        <5>1. PICK new \in SUBSET Replaced(p) :
                mine' = [mine EXCEPT ![p] = ({} \ Replaced(p)) \cup new]
          BY <4>1 DEF Overrides
        <5> QED
          BY <2>0, <2>1, <4>1, <5>1 DEF Stores
      <4> QED
        BY <4>2, <4>3 DEF KnowsStored, AtStart, Running, None
    <3>2. CASE Writing(p, "config") /\ at[p].stage = "save"
      <4>1. stored' = mine[p] /\ mine' = mine
        BY <2>1, <3>2 DEF SettingStep, Stores
      <4>2. at'[p].stage # "config"
        BY <1>6, <2>2, <3>2, ConfigStep DEF AtStart, None
      <4> QED
        BY <4>1, <4>2 DEF KnowsStored
    <3>3. CASE at[p].stage = "config" /\ at[p].do = "read"
      <4>1. Overrides(p, stored) /\ stored' = stored /\ ~ HasConfig(p)
        BY <2>1, <3>3 DEF SettingStep, HasConfig, Writing
      <4>2. at'[p] \notin {AtStart, Running}
        BY <1>6, <2>2, <3>3, ConfigStep DEF Writing
      <4>3. \A s \in Setting \ Replaced(p)' : s \in mine'[p] <=> s \in stored'
        BY <2>0, <4>1 DEF Overrides
      <4>4. HasConfig(p)' => at'[p].stage # "config"
        BY <1>6, <2>2, <3>3, <4>1, ConfigStep
      <4> QED
        BY <4>2, <4>3, <4>4 DEF KnowsStored
    <3>4. CASE ~ Writing(p, "config") /\ ~ (at[p].stage = "config" /\ at[p].do = "read")
      <4>1. stored' = stored /\ mine' = mine /\ behind' = behind
        BY <2>1, <3>4 DEF SettingStep
      <4>2. at'[p] \notin {AtStart, Running}
        BY <1>6, <2>2, <3>4, ConfigStep
      <4>3. KnowsStored(p)
        BY <2>4, <4>1 DEF SettingsInv
      <4>4. CASE HasConfig(p)
        BY <1>6, <2>0, <2>2, <3>4, <4>1, <4>2, <4>3, <4>4, ConfigStep DEF KnowsStored
      <4>5. CASE ~ HasConfig(p) /\ HasConfig(p)'
        <5>1. at'[p].stage = "config" /\ files["config"] = "missing"
          BY <1>6, <2>2, <3>4, <4>5, ConfigStep
        <5> QED
          BY <4>1, <4>2, <5>1 DEF KnowsStored, SettingsInv
      <4>6. CASE ~ HasConfig(p)'
        BY <4>2, <4>6 DEF KnowsStored
      <4> QED
        BY <4>4, <4>5, <4>6
    <3> QED
      BY <2>1, <3>1, <3>2, <3>3, <3>4 DEF SettingStep
  <2> QED
    BY <1>3, <1>5, <1>6, <2>2, <2>3, <2>4, ConfigStep DEF SettingsInv
<1>7. CASE Runs(p) \/ toggle_vpn(p)
  <2>1. /\ stored' = stored /\ files' = files
        /\ at'[p] = [stage |-> "config", do |-> "exists"]
    BY <1>7 DEF Runs, toggle_vpn, Begins, Begin, TypeOK
  <2>2. KnowsStored(p)'
    BY <2>1 DEF KnowsStored, HasConfig, AtStart, Running
  <2> QED
    BY <1>3, <1>5, <2>1, <2>2 DEF SettingsInv
<1>8. CASE Starts(p)
  <2>1. /\ stored' = stored /\ mine' = mine /\ behind' = behind /\ files' = files
        /\ at[p] = AtStart /\ at'[p] = Running
        /\ unsaved' = unsaved /\ command' = command /\ asked' = asked
    BY <1>8 DEF Starts, Start, settingVars, TypeOK
  <2>2. p \notin behind => KnowsStored(p)'
    <3>1. p \notin behind => KnowsStored(p)
      BY DEF SettingsInv
    <3> QED
      BY <2>1, <3>1 DEF KnowsStored, HasConfig, Alive, Replaced, WindowSettings, AtStart, Running,
                        Idle, None
  <2> QED
    BY <1>3, <1>5, <2>1, <2>2 DEF SettingsInv, Running, None
<1>9. CASE UNCHANGED <<vars, settingVars>>
  BY <1>9 DEF vars, settingVars, SettingsInv, KnowsStored, HasConfig, Alive, Replaced,
              WindowSettings
<1>10. CASE Alive(p)' /\ Errs(p)
  <2>1. /\ stored' = stored /\ mine' = mine /\ behind' = behind /\ files' = files
        /\ p \in unsaved' /\ asked' = asked
    BY <1>10 DEF Errs, Fails
  <2>2. /\ IgnoresFailure(p) /\ command' = command /\ at'[p] = AtStart
    <3>1. ~ Gone(p)
      BY <1>10 DEF Gone, Alive, TypeOK
    <3> QED
      BY <1>10, <3>1 DEF Errs, Fails, TypeOK
  <2>3. p \notin behind => KnowsStored(p)'
    <3>1. HasConfig(p) /\ at[p].stage = "save" /\ command[p] = "click"
      BY <2>2 DEF IgnoresFailure, HasConfig, Alive, Idle, None
    <3>2. p \notin behind => KnowsStored(p)
      BY DEF SettingsInv
    <3> QED
      BY <2>1, <2>2, <3>1, <3>2 DEF KnowsStored, Replaced, WindowSettings, AtStart, None
  <2> QED
    BY <1>3, <1>5, <2>1, <2>2, <2>3 DEF SettingsInv, AtStart, None
<1> QED
  BY <1>4, <1>6, <1>7, <1>8, <1>9, <1>10 DEF DesktopStep, Ends, StartFails, Leave, Crashes, Crash, Gone,
     Works, Alive, Open, AskSetup, Cancel, run_setup, Close, TypeOK, settingVars

\* A process that has its configuration and has not missed a save knows what is
\* stored, up to what it replaces.
THEOREM SettingsInvariant == DesktopSpec => []SettingsInv
<1>1. DesktopInit => SettingsInv
  BY DEF DesktopInit, Init, SettingsInv, KnowsStored, HasConfig, Alive, Idle, AtStart, Running, None
<1>2. DesktopTypeOK /\ SettingsInv /\ [DesktopNext]_desktopVars => SettingsInv'
  <2>1. UNCHANGED desktopVars /\ SettingsInv => SettingsInv'
    BY DEF desktopVars, vars, settingVars, SettingsInv, KnowsStored, HasConfig, Alive, Replaced,
           WindowSettings
  <2> QED
    BY <2>1, SettingsStep DEF DesktopNext
<1> QED
  BY <1>1, <1>2, DesktopTypeCorrect, PTL DEF DesktopSpec

\* A process runs with the settings in the file, with settings another one has
\* replaced since, or, if it is a click, with settings it failed to save.
THEOREM RunningKnowsStored == DesktopSpec => []RunsWithStored
<1>1. SettingsInv => RunsWithStored
  BY DEF SettingsInv, KnowsStored, RunsWithStored
<1> QED
  BY <1>1, SettingsInvariant, PTL

\* No process but one that read the file before another one saved changes a
\* setting it was not told to set, save for the room and the nickname, which
\* the button always replaces.
THEOREM OnlyStaleUndo == DesktopSpec => OnlyStaleSavesUndo
<1> DEFINE HasCause ==
      \A s \in Setting :
        (s \in stored) # (s \in stored') =>
          \E p \in Proc :
            /\ Writing(p, "config")
            /\ \/ s \in asked[p]
               \/ p \in behind
               \/ command[p] = "click" /\ s \in {"room", "nickname"}
<1>1. DesktopTypeOK /\ SettingsInv /\ [DesktopNext]_desktopVars => [HasCause]_desktopVars
  <2> SUFFICES ASSUME DesktopTypeOK, SettingsInv, NEW p \in Proc, DesktopStep(p),
                      NEW s \in Setting, (s \in stored) # (s \in stored')
               PROVE  Writing(p, "config") /\ (s \in Replaced(p) \/ p \in behind)
    BY DEF DesktopNext, Replaced, WindowSettings
  <2>1. SettingStep(p) /\ stored' # stored
    BY DEF DesktopStep, Runs, Works, Errs, Starts, Ends, Crashes, Open, AskSetup, Cancel, run_setup,
           toggle_vpn, Close, Begins, Forgets, settingVars
  <2>2. Alive(p)
    BY <2>1 DEF SettingStep, Writing, Alive, Idle
  <2>3. CASE Writing(p, "config") /\ at[p].stage = "config" /\ stored' = {}
    <3>1. p \notin behind => stored = {}
      BY <2>2, <2>3 DEF SettingsInv, KnowsStored, HasConfig, Writing
    <3> QED
      BY <2>1, <2>3, <3>1
  <2>4. CASE Writing(p, "config") /\ at[p].stage = "save" /\ stored' = mine[p]
    <3>1. p \notin behind => \A t \in Setting \ Replaced(p) : t \in mine[p] <=> t \in stored
      BY <2>2, <2>4 DEF SettingsInv, KnowsStored, HasConfig
    <3> QED
      BY <2>4, <3>1
  <2> QED
    BY <2>1, <2>3, <2>4 DEF SettingStep, Stores
<1> QED
  BY <1>1, DesktopTypeCorrect, SettingsInvariant, PTL DEF DesktopSpec, OnlyStaleSavesUndo

=============================================================================
