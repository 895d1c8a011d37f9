-------------------------------- MODULE Host --------------------------------
(***************************************************************************)
(* The processes one user runs on a host: `vlkxn up`, the commands that    *)
(* only build a Daemon (down, status, list) and the connect button of the  *)
(* GUI.  They share the configuration and the identity keys, which are     *)
(* files in the user's own directory, and nothing else but the interface   *)
(* vlkxn0: no command reaches another process.  Other users, root among    *)
(* them, have directories of their own; of their processes only the        *)
(* interface shows here, as a start that fails.                            *)
(*                                                                         *)
(* A step is one operation on a file or on the interface.  A file is       *)
(* written by truncating it and then writing it from its start, both       *)
(* without a lock, and any of it may fail.  The inside of a running daemon *)
(* is in Daemon.                                                           *)
(***************************************************************************)
EXTENDS Naturals

CONSTANTS
  Proc,          \* processes that may be alive at once
  Key,           \* key pairs that may be generated
  MaxCrashes     \* bound of the model on the crashes

ASSUME HostAssumption ==
  /\ MaxCrashes \in Nat
  /\ Key \cap {"missing", "empty", "mixed", "none"} = {}
  /\ "none" \notin Proc

VARIABLES
  files,         \* content of config.toml and keys.json
  interface,     \* the process of the user that has vlkxn0, or None
  command,       \* what each process was started for
  at,            \* the operation each process does next
  identity,      \* Daemon.key_manager of each process
  generated,     \* keys generated so far
  late,          \* processes that began when the keys were settled
  overlapped,    \* files two processes were bound to write at the same time
  torn,          \* files whose last writer truncated them and did not write them
  crashes        \* crashes so far

vars == <<files, interface, command, at, identity, generated, late, overlapped, torn, crashes>>

-----------------------------------------------------------------------------
None == "none"

File == {"config", "keys"}

\* A file that is truncated or cut short and one in which two writes are mixed;
\* neither can be parsed.
Damaged == {"empty", "mixed"}

\* Of the configuration only that it is there matters.
Content(f) == {"missing"} \cup Damaged \cup (IF f = "keys" THEN Key ELSE {"settings"})

Command == {"up", "click", "inspect"}

\* The stages of Daemon::new, and the save of the command that starts a daemon.
Stage == {"config", "keys", "save"}

FileOf(stage) == IF stage = "keys" THEN "keys" ELSE "config"

FileStep == [stage : Stage, do : {"exists", "read", "truncate", "write"}]

Idle == [stage |-> None, do |-> "idle"]
AtStart == [stage |-> None, do |-> "start"]
Running == [stage |-> None, do |-> "running"]

Alive(p) == at[p] # Idle

\* p has truncated f and not written it yet.
Writing(p, f) == at[p].do = "write" /\ FileOf(at[p].stage) = f

\* p has decided to write f, and nothing holds it back any more.
Bound(p, f) == at[p].do \in {"truncate", "write"} /\ FileOf(at[p].stage) = f

TypeOK ==
  /\ DOMAIN files = File
  /\ \A f \in File : files[f] \in Content(f)
  /\ interface \in Proc \cup {None}
  /\ \A p \in Proc : interface = p <=> at[p] = Running
  /\ command \in [Proc -> Command \cup {None}]
  /\ at \in [Proc -> FileStep \cup {Idle, AtStart, Running}]
  /\ identity \in [Proc -> Key \cup {None}]
  /\ \A p \in Proc : at[p] \in {AtStart, Running} \/ at[p].stage = "save" => identity[p] # None
  /\ \A p \in Proc : ~ Alive(p) => identity[p] = None
  /\ \A p \in Proc : at[p].do = "read" => files[FileOf(at[p].stage)] # "missing"
  /\ generated \subseteq Key
  /\ late \subseteq Proc
  /\ overlapped \subseteq File
  /\ torn \subseteq File
  /\ crashes \in 0..MaxCrashes

\* A user who has never run vlkxn.
Init ==
  /\ files = [f \in File |-> "missing"]
  /\ interface = None
  /\ command = [p \in Proc |-> None]
  /\ at = [p \in Proc |-> Idle]
  /\ identity = [p \in Proc |-> None]
  /\ generated = {}
  /\ late = {}
  /\ overlapped = {}
  /\ torn = {}
  /\ crashes = 0

-----------------------------------------------------------------------------
\* The keys are whole and nobody is about to write others.
Settled ==
  /\ files["keys"] \in Key
  /\ \A p \in Proc : ~ Bound(p, "keys")

\* The end of a process, whatever the reason.
Gone(p) ==
  /\ at' = [at EXCEPT ![p] = Idle]
  /\ command' = [command EXCEPT ![p] = None]
  /\ identity' = [identity EXCEPT ![p] = None]
  /\ late' = late \ {p}
  /\ interface' = IF interface = p THEN None ELSE interface

\* What a process does after a stage: the keys follow the configuration, and
\* a command that connects saves the configuration before it starts.
After(stage) ==
  CASE stage = "config" -> [stage |-> "keys", do |-> "exists"]
    [] stage = "keys"   -> [stage |-> "save", do |-> "truncate"]
    [] stage = "save"   -> AtStart

\* A process that has its identity and only inspects prints what it knows of
\* itself and ends: is_running is about its own Daemon, and stop finds nothing
\* to stop.
EndsAfter(p, stage) == stage = "keys" /\ command[p] = "inspect"

Proceed(p, stage, id) ==
  \/ /\ EndsAfter(p, stage)
     /\ Gone(p)
  \/ /\ ~ EndsAfter(p, stage)
     /\ at' = [at EXCEPT ![p] = After(stage)]
     /\ identity' = [identity EXCEPT ![p] = id]
     /\ UNCHANGED <<command, late, interface>>

-----------------------------------------------------------------------------
\* A process begins, with Daemon::new.
Begin(p, c) ==
  /\ ~ Alive(p)
  /\ command' = [command EXCEPT ![p] = c]
  /\ at' = [at EXCEPT ![p] = [stage |-> "config", do |-> "exists"]]
  /\ late' = IF Settled THEN late \cup {p} ELSE late
  /\ UNCHANGED <<files, interface, identity, generated, overlapped, torn, crashes>>

\* Mutant: the files are created without a look at the stored ones.
AlwaysCreates(p) ==
  /\ at[p].do = "exists"
  /\ at' = [at EXCEPT ![p].do = "truncate"]
  /\ UNCHANGED <<files, interface, command, identity, generated, late, overlapped, torn, crashes>>

\* path.exists(): the answer may be old by the time it is used.
Exists(p) ==
  /\ at[p].do = "exists"
  /\ at' = [at EXCEPT ![p].do =
              IF files[FileOf(at[p].stage)] = "missing" THEN "truncate" ELSE "read"]
  /\ UNCHANGED <<files, interface, command, identity, generated, late, overlapped, torn, crashes>>

\* Mutant: a file that cannot be parsed is taken for an absent one.
ReadOrCreate(p) ==
  /\ at[p].do = "read"
  /\ \/ /\ files[FileOf(at[p].stage)] \notin Damaged
        /\ at' = [at EXCEPT ![p] = After(at[p].stage)]
        /\ identity' = [identity EXCEPT ![p] =
                          IF at[p].stage = "keys" THEN files["keys"] ELSE @]
     \/ /\ files[FileOf(at[p].stage)] \in Damaged
        /\ at' = [at EXCEPT ![p].do = "truncate"]
        /\ UNCHANGED identity
  /\ UNCHANGED <<files, interface, command, generated, late, overlapped, torn, crashes>>

\* read_to_string and the parser, whose error ends the process.
Read(p) ==
  /\ at[p].do = "read"
  /\ LET f == FileOf(at[p].stage)
     IN  \/ /\ files[f] \in Damaged
            /\ Gone(p)
         \/ /\ files[f] \notin Damaged
            /\ Proceed(p, at[p].stage, IF f = "keys" THEN files[f] ELSE identity[p])
  /\ UNCHANGED <<files, generated, overlapped, torn, crashes>>

\* std::fs::write, first half: the file is created or truncated.
Truncate(p) ==
  /\ at[p].do = "truncate"
  /\ LET f == FileOf(at[p].stage)
     IN  /\ files' = [files EXCEPT ![f] = "empty"]
         /\ overlapped' = IF \E q \in Proc \ {p} : Bound(q, f)
                            THEN overlapped \cup {f} ELSE overlapped
         /\ torn' = torn \ {f}
  /\ at' = [at EXCEPT ![p].do = "write"]
  /\ UNCHANGED <<interface, command, identity, generated, late, crashes>>

\* What a write of content c leaves: over the write of another process, c with
\* perhaps a rest of the other content behind it.
Written(f, c) == IF files[f] = "empty" THEN {c} ELSE {c, "mixed"}

\* Mutant: the settings stay in a buffer that nobody flushes.
WriteConfigUnflushed(p) ==
  /\ Writing(p, "config")
  /\ at' = [at EXCEPT ![p] = After(at[p].stage)]
  /\ UNCHANGED <<files, interface, command, identity, generated, late, overlapped, torn, crashes>>

\* std::fs::write, second half.
WriteConfig(p) ==
  /\ Writing(p, "config")
  /\ \E c \in Written("config", "settings") : files' = [files EXCEPT !["config"] = c]
  /\ Proceed(p, at[p].stage, identity[p])
  /\ UNCHANGED <<generated, overlapped, torn, crashes>>

WriteKeys(p) ==
  /\ Writing(p, "keys")
  /\ \E k \in Key \ generated :
       /\ generated' = generated \cup {k}
       /\ \E c \in Written("keys", k) : files' = [files EXCEPT !["keys"] = c]
       /\ Proceed(p, "keys", k)
  /\ UNCHANGED <<overlapped, torn, crashes>>

\* The button starts the daemon whether or not it could save.
IgnoresFailure(p) == command[p] = "click" /\ at[p].stage = "save"

\* A file cannot be read, created or written; no room for the content leaves it
\* truncated.  The error ends every other process.
Fails(p) ==
  /\ at[p].do \in {"read", "truncate", "write"}
  /\ torn' = torn \cup {f \in File : Writing(p, f)}
  /\ \/ /\ IgnoresFailure(p)
        /\ at' = [at EXCEPT ![p] = AtStart]
        /\ UNCHANGED <<command, identity, late, interface>>
     \/ /\ ~ IgnoresFailure(p)
        /\ Gone(p)
  /\ UNCHANGED <<files, generated, overlapped, crashes>>

-----------------------------------------------------------------------------
\* Mutant: an interface that exists is taken over.
StartTakesOver(p) ==
  /\ at[p] = AtStart
  /\ at' = [at EXCEPT ![p] = Running]
  /\ interface' = p
  /\ UNCHANGED <<files, command, identity, generated, late, overlapped, torn, crashes>>

\* Daemon::start has the interface.
Start(p) ==
  /\ at[p] = AtStart
  /\ interface = None
  /\ at' = [at EXCEPT ![p] = Running]
  /\ interface' = p
  /\ UNCHANGED <<files, command, identity, generated, late, overlapped, torn, crashes>>

\* Another process has it, of this user or another one, or the permission or
\* the P2P node is missing.
StartFails(p) ==
  /\ at[p] = AtStart
  /\ Gone(p)
  /\ UNCHANGED <<files, generated, overlapped, torn, crashes>>

\* `up` on Ctrl+C; the button at once, when its runtime is dropped.
Leave(p) ==
  /\ at[p] = Running
  /\ Gone(p)
  /\ UNCHANGED <<files, generated, overlapped, torn, crashes>>

\* A process is killed.  What it wrote is in the file: the host goes on.
Crash(p) ==
  /\ Alive(p)
  /\ crashes < MaxCrashes
  /\ crashes' = crashes + 1
  /\ torn' = torn \cup {f \in File : Writing(p, f)}
  /\ Gone(p)
  /\ UNCHANGED <<files, generated, overlapped>>

-----------------------------------------------------------------------------
ProcStep(p) ==
  \/ \E c \in Command : Begin(p, c)
  \/ Exists(p) \/ Read(p) \/ Truncate(p)
  \/ WriteConfig(p) \/ WriteKeys(p) \/ Fails(p)
  \/ Start(p) \/ StartFails(p) \/ Leave(p)
  \/ Crash(p)

Next == \E p \in Proc : ProcStep(p)

Spec == Init /\ [][Next]_vars

-----------------------------------------------------------------------------
\* Once the first run is over a user's identity, and with it the virtual IP,
\* stays for good: through any number of runs, of any commands at the same time,
\* and through crashes and failing files.
IdentityStays == [][Settled => Settled' /\ files'["keys"] = files["keys"]]_vars

\* The keys cannot be parsed and nobody is about to write them.
Lost ==
  /\ files["keys"] \in Damaged
  /\ \A p \in Proc : ~ Bound(p, "keys")

\* Keys that are lost stay lost, and no process of the user comes to an
\* identity any more: nothing in the code repairs or replaces them, however
\* often a command or the service starts again.
LostKeysStayLost ==
  [][Lost => /\ Lost'
             /\ \A p \in Proc : identity'[p] \in {None, identity[p]}]_vars

\* A process that began when the keys of its user were settled has the identity
\* they give, or none yet, whatever other processes and crashes came since.
LateHasIdentity ==
  \A p \in late :
    /\ Settled
    /\ identity[p] \in {None, files["keys"]}

\* A file that cannot be parsed, and that nobody is writing, was left by a
\* process that died or failed between truncating it and writing it, or by two
\* processes that came to write it at the same time.  A crash or an error at any
\* other point, and any number of processes that do not meet on the file, leave
\* it whole.
DamageIsExplained ==
  \A f \in File :
    (files[f] \in Damaged /\ \A p \in Proc : ~ Writing(p, f))
      => f \in torn \/ f \in overlapped

\* No two processes of a user have different identities, unless both of them
\* found no keys and came to write their own at the same time.
OneIdentity ==
  \A p, q \in Proc :
    identity[p] # None /\ identity[q] # None /\ identity[p] # identity[q]
      => "keys" \in overlapped

=============================================================================
