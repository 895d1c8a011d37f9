------------------------------ MODULE Desktop ------------------------------
(***************************************************************************)
(* Host with what its processes carry: the settings they load and save,    *)
(* and the windows of the GUI around their one button.  Every step of a    *)
(* process is a step of Host; Desktop adds what the step does to settings  *)
(* and windows, and the steps by which a user works with a window.         *)
(*                                                                         *)
(* A window is the process that opened it.  While its click is under way,  *)
(* from Daemon::new to the drop of the runtime, it takes no input.         *)
(***************************************************************************)
EXTENDS Host

CONSTANTS
  Setting,       \* settings, each with two values of interest: its default and another
  AsRoot         \* whether the user is root

ASSUME DesktopAssumption == AsRoot \in BOOLEAN

VARIABLES
  stored,        \* settings that differed from the default when config.toml was last saved
  mine,          \* the same of each process: Daemon.config
  asked,         \* the settings each process was told to set
  behind,        \* processes with a config older than the last one saved
  unsaved,       \* processes that could not save theirs and went on
  granted,       \* whether the executable of the GUI has CAP_NET_ADMIN
  window         \* the window of each process, or NoWindow

settingVars == <<stored, mine, asked, behind, unsaved>>
windowVars == <<granted, window>>
desktopVars == <<vars, settingVars, windowVars>>

-----------------------------------------------------------------------------
\* VlkxnApp, and whether its process may create the interface, which is
\* settled when it is executed.  No code leads to Connected or Error.
Window == [state : {"Disconnected", "Connecting"},
           needs_permissions : BOOLEAN,
           show_setup : BOOLEAN,
           capable : BOOLEAN]

NoWindow == [state |-> None]

TakesInput(p) == window[p] # NoWindow /\ ~ Alive(p)

DesktopTypeOK ==
  /\ TypeOK
  /\ stored \subseteq Setting
  /\ mine \in [Proc -> SUBSET Setting]
  /\ asked \in [Proc -> SUBSET Setting]
  /\ behind \subseteq {p \in Proc : Alive(p)}
  /\ unsaved \subseteq {p \in Proc : Alive(p)}
  /\ granted \in BOOLEAN
  /\ window \in [Proc -> Window \cup {NoWindow}]
  /\ \A p \in Proc : command[p] = "click" => Alive(p) /\ window[p] # NoWindow

DesktopInit ==
  /\ Init
  /\ stored = {}
  /\ mine = [p \in Proc |-> {}]
  /\ asked = [p \in Proc |-> {}]
  /\ behind = {}
  /\ unsaved = {}
  /\ granted = FALSE
  /\ window = [p \in Proc |-> NoWindow]

-----------------------------------------------------------------------------
(* Settings. *)

\* What a command is told to set: `up` has a flag for each setting.
Flags(c) == IF c = "up" THEN SUBSET Setting ELSE {{}}

\* The fields of a window.  They never show the configuration: room and nickname
\* are "public" and a random name until somebody types.
WindowSettings == Setting \cap {"room", "nickname"}

\* What a process sets, whatever it finds: what its flags say, or all its window
\* shows.
Replaced(p) == asked[p] \cup (IF command[p] = "click" THEN WindowSettings ELSE {})

\* p has its configuration.
HasConfig(p) ==
  /\ Alive(p)
  /\ at[p].stage = "config" => at[p].do \in {"truncate", "write"}

\* Mutant: what a process does not replace it sets to the default.
OverridesAll(p, found) ==
  mine' \in {[mine EXCEPT ![p] = new] : new \in SUBSET Replaced(p)}

\* p found a configuration and replaces some of it.
Overrides(p, found) ==
  mine' \in {[mine EXCEPT ![p] = (found \ Replaced(p)) \cup new] : new \in SUBSET Replaced(p)}

Stores(p, s) ==
  /\ stored' = s
  /\ behind' = (behind \cup {q \in Proc : HasConfig(q)}) \ {p}

\* Mutant: the configuration is saved as it was found and overridden afterwards.
SettingStepSavesFirst(p) ==
  \/ /\ Writing(p, "config") /\ at[p].stage = "config"
     /\ Stores(p, {}) /\ mine' = [mine EXCEPT ![p] = {}]
  \/ /\ Writing(p, "config") /\ at[p].stage = "save"
     /\ Stores(p, mine[p]) /\ Overrides(p, mine[p])
  \/ /\ at[p].stage = "config" /\ at[p].do = "read"
     /\ mine' = [mine EXCEPT ![p] = stored]
     /\ UNCHANGED <<stored, behind>>
  \/ /\ ~ Writing(p, "config")
     /\ ~ (at[p].stage = "config" /\ at[p].do = "read")
     /\ UNCHANGED <<stored, mine, behind>>

\* The part of a step of Host that concerns settings.  A configuration that
\* was not found is created as the default.
SettingStep(p) ==
  \/ /\ Writing(p, "config") /\ at[p].stage = "config"
     /\ Stores(p, {}) /\ Overrides(p, {})
  \/ /\ Writing(p, "config") /\ at[p].stage = "save"
     /\ Stores(p, mine[p]) /\ UNCHANGED mine
  \/ /\ at[p].stage = "config" /\ at[p].do = "read"
     /\ Overrides(p, stored)
     /\ UNCHANGED <<stored, behind>>
  \/ /\ ~ Writing(p, "config")
     /\ ~ (at[p].stage = "config" /\ at[p].do = "read")
     /\ UNCHANGED <<stored, mine, behind>>

Forgets(p) ==
  /\ mine' = [mine EXCEPT ![p] = {}]
  /\ asked' = [asked EXCEPT ![p] = {}]
  /\ behind' = behind \ {p}
  /\ unsaved' = unsaved \ {p}
  /\ UNCHANGED stored

\* A process begins with a command.
Begins(p, c) ==
  /\ Begin(p, c)
  /\ \E told \in Flags(c) : asked' = [asked EXCEPT ![p] = told]
  /\ UNCHANGED <<stored, mine, behind, unsaved>>

\* A process goes on; one that ends forgets what it knew.
Works(p) ==
  /\ Exists(p) \/ Read(p) \/ Truncate(p) \/ WriteConfig(p) \/ WriteKeys(p)
  /\ \/ Alive(p)' /\ SettingStep(p) /\ UNCHANGED <<asked, unsaved>>
     \/ ~ Alive(p)' /\ Forgets(p)
  /\ UNCHANGED windowVars

\* An operation on a file fails, and with it the process, unless that is a
\* click: it goes on with settings that are not stored.
Errs(p) ==
  /\ Fails(p)
  /\ \/ /\ Alive(p)'
        /\ unsaved' = unsaved \cup {p}
        /\ UNCHANGED <<stored, mine, asked, behind>>
     \/ ~ Alive(p)' /\ Forgets(p)
  /\ UNCHANGED windowVars

Ends(p) ==
  /\ StartFails(p) \/ Leave(p)
  /\ Forgets(p)
  /\ UNCHANGED windowVars

Runs(p) ==
  /\ window[p] = NoWindow
  /\ \E c \in {"up", "inspect"} : Begins(p, c)
  /\ UNCHANGED windowVars

-----------------------------------------------------------------------------
(* Windows. *)

\* Whether the permission is missing in a process that is executed now.
check_capabilities == ~ (AsRoot \/ granted)

\* The GUI is opened; Default.
Open(p) ==
  /\ ~ Alive(p) /\ window[p] = NoWindow
  /\ window' = [window EXCEPT ![p] =
                  [state |-> "Disconnected", show_setup |-> FALSE,
                   needs_permissions |-> check_capabilities,
                   capable |-> ~ check_capabilities]]
  /\ UNCHANGED <<vars, settingVars, granted>>

\* The button without the permission, or the link below it.
AskSetup(p) ==
  /\ TakesInput(p)
  /\ window[p].needs_permissions
  /\ window' = [window EXCEPT ![p].show_setup = TRUE]
  /\ UNCHANGED <<vars, settingVars, granted>>

Cancel(p) ==
  /\ TakesInput(p)
  /\ window' = [window EXCEPT ![p].show_setup = FALSE]
  /\ UNCHANGED <<vars, settingVars, granted>>

\* setcap through pkexec, else through sudo.
setup_permissions(ok) == granted' = (granted \/ ok)

\* Mutant: the outcome of setcap is ignored.
run_setup_unchecked(p) ==
  /\ TakesInput(p) /\ window[p].show_setup
  /\ \E ok \in BOOLEAN : setup_permissions(ok)
  /\ window' = [window EXCEPT ![p].needs_permissions = FALSE, ![p].show_setup = FALSE]
  /\ UNCHANGED <<vars, settingVars>>

\* A failure only shows.
run_setup(p) ==
  /\ TakesInput(p) /\ window[p].show_setup
  /\ \E ok \in BOOLEAN :
       /\ setup_permissions(ok)
       /\ window' = IF ok THEN [window EXCEPT ![p].needs_permissions = FALSE,
                                              ![p].show_setup = FALSE]
                    ELSE window
  /\ UNCHANGED <<vars, settingVars>>

\* The button can be clicked once: nothing leads out of Connecting.
ButtonEnabled(p) == TakesInput(p) /\ window[p].state = "Disconnected"

\* With the dialog open the button connects even without the permission.
toggle_vpn(p) ==
  /\ ButtonEnabled(p)
  /\ window[p].needs_permissions => window[p].show_setup
  /\ Begins(p, "click")
  /\ window' = [window EXCEPT ![p].state = "Connecting"]
  /\ UNCHANGED granted

\* The click that may create the interface, or `up`, does.
Starts(p) ==
  /\ Start(p)
  /\ command[p] = "click" => window[p].capable
  /\ UNCHANGED <<settingVars, windowVars>>

Close(p) ==
  /\ TakesInput(p)
  /\ window' = [window EXCEPT ![p] = NoWindow]
  /\ UNCHANGED <<vars, settingVars, granted>>

\* A window whose process dies is gone.
Crashes(p) ==
  /\ Crash(p)
  /\ Forgets(p)
  /\ window' = [window EXCEPT ![p] = NoWindow]
  /\ UNCHANGED granted

-----------------------------------------------------------------------------
DesktopStep(p) ==
  \/ Runs(p) \/ Works(p) \/ Errs(p) \/ Starts(p) \/ Ends(p) \/ Crashes(p)
  \/ Open(p) \/ AskSetup(p) \/ Cancel(p) \/ run_setup(p) \/ toggle_vpn(p) \/ Close(p)

DesktopNext == \E p \in Proc : DesktopStep(p)

DesktopSpec == DesktopInit /\ [][DesktopNext]_desktopVars

-----------------------------------------------------------------------------
\* A setting changes only when a process saves that was told to set it, that
\* read the file before the last save of another process, or that is a click:
\* the button replaces room and nickname by what its window shows, whatever is
\* stored, and no other setting.
OnlyStaleSavesUndo ==
  [][\A s \in Setting :
       (s \in stored) # (s \in stored') =>
         \E p \in Proc :
           /\ Writing(p, "config")
           /\ \/ s \in asked[p]
              \/ p \in behind
              \/ command[p] = "click" /\ s \in {"room", "nickname"}]_desktopVars

\* A process runs with the settings last saved, unless another one has saved
\* since it read them, or it is a click that could not save: that one starts all
\* the same, while `up` ends.
RunsWithStored ==
  \A p \in Proc :
    at[p] \in {AtStart, Running} /\ mine[p] # stored =>
      p \in behind \/ (p \in unsaved /\ command[p] = "click")

\* The dialog is for windows that need a permission.  One that needs none and
\* still cannot create the interface asked for the permission itself, and
\* setcap gave it to the executable: the next window has it.
PermissionIsExplained ==
  \A p \in Proc : window[p] # NoWindow =>
    /\ window[p].show_setup => window[p].needs_permissions
    /\ window[p].needs_permissions => ~ window[p].capable
    /\ ~ window[p].needs_permissions /\ ~ window[p].capable => granted

=============================================================================
