-------------------------------- MODULE Host --------------------------------
(***************************************************************************)
(* One machine: the files of an installation, the program's own tools      *)
(* that make and unmake it (--setup, --erase, --erase-hard, --start,       *)
(* --stop, --restart, --import-stix, --install-selfsigned-keys), the       *)
(* service manager that keeps the daemon up, and the daemon's life from    *)
(* opening the database to the forced save on the way out.                 *)
(*                                                                         *)
(* A tool is a sequence of steps with the daemon running between any two.  *)
(* A step that fails ends --setup where it stands, while --erase notes it  *)
(* and goes on.  The configuration is what setup.rs writes and config.rs   *)
(* reads back, section by section.  The snapshot is the set of sightings   *)
(* in dbdir; Store models its shards, Settings the files the management    *)
(* interface edits.  One person works the tools: no tool starts while      *)
(* another is under way.                                                   *)
(***************************************************************************)
EXTENDS Naturals, Sequences, FiniteSets

CONSTANTS Copy,        \* processes of the daemon that may run at once
          Write,       \* sightings clients may record
          Answers,     \* what the wizard may be told
          KeepAlive,   \* launchd (TRUE) or systemd's Restart=on-failure
          Failing,     \* the steps of the tools that may fail
          Edited,      \* the files somebody edits in the interface
          MaxTools,    \* runs of --setup and --erase
          MaxKills,    \* times the daemon is killed
          Absent

ASSUME HostAssumption ==
    /\ KeepAlive \in BOOLEAN
    /\ MaxTools \in Nat /\ MaxKills \in Nat
    /\ \A a \in Answers : a.mode \in {"standalone", "node", "router", "both"}

VARIABLES disk,      \* file |-> its contents
          manager,   \* the service: registered, and whether a launch is due
          proc,      \* copy |-> where it is in its life
          tool,      \* the tool under way
          runs,      \* tools begun, and the source of fresh admin keys
          kills,
          shown,     \* admin keys the wizard has told someone
          planned,   \* the answers the configuration on disk was written from
          broken,    \* a setup ended half way, and none has rewritten it whole
          erased,    \* an erase has finished and nothing has been started since
          acked,     \* sightings accepted and not lost in a kill
          saved      \* sightings that have been in a snapshot

vars == <<disk, manager, proc, tool, runs, kills, shown, planned, broken,
          erased, acked, saved>>
toolGhosts == <<shown, planned, broken, erased>>

File == {"config", "logging", "acl", "tiers", "tags", "peers", "cert", "key",
         "data", "unit"}
Exists(f) == disk[f] # Absent

(***************************************************************************)
(* What the wizard writes.                                                 *)
(***************************************************************************)

Forwards(mode) == mode \in {"router", "both"}

\* Absent is everything: left out of the file, or an answer of "/".
Namespaces(a) ==
    CASE a.mode = "standalone" -> Absent
      [] a.mode = "router" -> {}
      [] OTHER -> IF a.prefixes = {} THEN Absent ELSE a.prefixes

DaemonSection(a) ==
    [ssl |-> a.tls,
     ssl_cert |-> IF a.tls THEN "cert" ELSE Absent,
     ssl_key |-> IF a.tls THEN "key" ELSE Absent,
     dbdir |-> "data"]
AccountSection(a) ==
    [node_id |-> IF a.mode = "standalone" THEN "local" ELSE a.name,
     acl_file |-> "acl", tags_file |-> "tags"]
StorageSection(a) ==
    [namespaces |-> Namespaces(a), tiers_file |-> "tiers"]
GalaxySection(a) ==
    IF Forwards(a.mode) THEN [peers_file |-> "peers"] ELSE Absent

ConfigToml(a) == [daemon |-> DaemonSection(a), accounts |-> AccountSection(a),
                  storage |-> StorageSection(a), galaxy |-> GalaxySection(a)]

(***************************************************************************)
(* What the program reads back.                                            *)
(***************************************************************************)

TlsFiles(raw) == IF raw.daemon.ssl
                 THEN {raw.daemon.ssl_cert, raw.daemon.ssl_key} ELSE {}
EditedFiles(raw) == {raw.storage.tiers_file, raw.accounts.tags_file}
                        \cup (IF raw.galaxy = Absent THEN {}
                              ELSE {raw.galaxy.peers_file})
Stores(raw) == raw.storage.namespaces

\* Settings::load: the one error a file of the wizard's can meet is TLS
\* switched on with a path left out.
Loads == /\ Exists("config")
         /\ Absent \notin TlsFiles(disk["config"])

\* tls::acceptor
TlsReady(raw) == \A f \in TlsFiles(raw) : Exists(f)

OnDisk == IF Exists("data") THEN disk["data"] ELSE {}

\* create_dir_all of dbdir
WithDir == [disk EXCEPT !["data"] = OnDisk]

(***************************************************************************)
(* The daemon.                                                             *)
(***************************************************************************)

Off == [phase |-> "off", mem |-> {}, snap |-> Absent, dirty |-> FALSE,
        managed |-> FALSE, conf |-> Absent]
Alive == {p \in Copy : proc[p].phase # "off"}
Serving == {p \in Copy : proc[p].phase = "serving"}
Managed == {p \in Alive : proc[p].managed}

\* The service manager sees a process of its own end.
RestartsAfter(ps, failed) ==
    [manager EXCEPT !.due =
        @ \/ /\ manager.state = "started"
             /\ \E p \in ps : proc[p].managed
             /\ KeepAlive \/ failed]

\* run, up to open_database: the shards are read whole.
OpenDatabase == OnDisk

Open(p, managed) ==
    /\ proc[p] = Off /\ Loads
    /\ proc' = [proc EXCEPT ![p] = [Off EXCEPT !.phase = "opening",
                                               !.mem = OpenDatabase,
                                               !.managed = managed,
                                               !.conf = disk["config"]]]
    /\ disk' = WithDir                         \* usable_dbdir
    /\ UNCHANGED <<tool, runs, kills, shown, planned, broken, acked, saved>>

LaunchByHand(p) ==
    /\ tool.doing = "idle"
    /\ Open(p, FALSE)
    /\ erased' = FALSE
    /\ UNCHANGED manager

ManagerLaunch(p) ==
    /\ manager.state = "started" /\ manager.due /\ Managed = {}
    /\ Open(p, TRUE)
    /\ manager' = [manager EXCEPT !.due = FALSE]
    /\ UNCHANGED erased

\* --import-stix: load, record, save, exit; no listener and no worker.
ImportOnce(p, w) ==
    /\ tool.doing = "idle"
    /\ proc[p] = Off /\ Loads
    /\ proc' = [proc EXCEPT ![p] = [Off EXCEPT !.phase = "saving",
                                               !.mem = OpenDatabase \cup {w}]]
    /\ disk' = WithDir
    /\ erased' = FALSE
    /\ UNCHANGED <<manager, tool, runs, kills, shown, planned, broken, acked, saved>>

\* serve: the certificate, then the port.  Either failing ends the daemon by
\* the ordinary way out.
Serve(p) ==
    /\ proc[p].phase = "opening"
    /\ proc' = [proc EXCEPT ![p].phase =
                  IF TlsReady(proc[p].conf) /\ Serving = {}
                  THEN "serving" ELSE "failing"]
    /\ UNCHANGED <<disk, manager, tool, runs, kills, toolGhosts, acked, saved>>

Record(p, w) ==
    /\ p \in Serving /\ w \notin proc[p].mem
    /\ proc' = [proc EXCEPT ![p].mem = @ \cup {w}, ![p].dirty = TRUE]
    /\ acked' = acked \cup {w}
    /\ UNCHANGED <<disk, manager, tool, runs, kills, toolGhosts, saved>>

\* The management interface writes a file of its own for the first time.
EditFile(p, f) ==
    /\ p \in Serving /\ f \in EditedFiles(proc[p].conf) /\ ~Exists(f)
    /\ disk' = [disk EXCEPT ![f] = "edited"]
    /\ UNCHANGED <<manager, proc, tool, runs, kills, toolGhosts, acked, saved>>

\* The snapshot worker, from taking the dirty flag to renaming the file.
SnapshotTake(p) ==
    /\ proc[p].phase \in {"opening", "serving"}
    /\ proc[p].dirty /\ proc[p].snap = Absent
    /\ proc' = [proc EXCEPT ![p].snap = proc[p].mem, ![p].dirty = FALSE]
    /\ UNCHANGED <<disk, manager, tool, runs, kills, toolGhosts, acked, saved>>

SnapshotWrite(p) ==
    /\ p \in Alive /\ proc[p].snap # Absent
    /\ disk' = [disk EXCEPT !["data"] = proc[p].snap]
    /\ proc' = [proc EXCEPT ![p].snap = Absent]
    /\ saved' = saved \cup proc[p].snap
    /\ UNCHANGED <<manager, tool, runs, kills, toolGhosts, acked>>

\* shutdown.stop and joining the workers.
JoinUnfinished(p) == proc[p].phase \in {"leaving", "failing"}

Join(p) == /\ proc[p].phase \in {"leaving", "failing"}
           /\ proc[p].snap = Absent

StopWorkers(p) ==
    /\ Join(p)
    /\ proc' = [proc EXCEPT ![p].phase = IF @ = "failing" THEN "savingFailed"
                                                          ELSE "saving"]
    /\ UNCHANGED <<disk, manager, tool, runs, kills, toolGhosts, acked, saved>>

\* Everything on the way out, whatever serve returned.
FinalSave(p) ==
    /\ proc[p].phase \in {"saving", "savingFailed"}
    /\ disk' = [disk EXCEPT !["data"] = proc[p].mem]
    /\ proc' = [proc EXCEPT ![p].phase = IF @ = "saving" THEN "exiting"
                                                         ELSE "exitingFailed"]
    /\ saved' = saved \cup proc[p].mem
    /\ acked' = acked \cup proc[p].mem
    /\ UNCHANGED <<manager, tool, runs, kills, toolGhosts>>

Exit(p) ==
    /\ proc[p].phase \in {"exiting", "exitingFailed"}
    /\ proc' = [proc EXCEPT ![p] = Off]
    /\ manager' = RestartsAfter({p}, proc[p].phase = "exitingFailed")
    /\ UNCHANGED <<disk, tool, runs, kills, toolGhosts, acked, saved>>

\* TERM: actix drains and returns; before the server listens nothing catches
\* it and the process simply ends.
Termed(ps) ==
    [p \in Copy |->
        IF p \notin ps THEN proc[p]
        ELSE CASE proc[p].phase = "serving" -> [proc[p] EXCEPT !.phase = "leaving"]
               [] proc[p].phase = "opening" -> Off
               [] OTHER -> proc[p]]

Killed(ps) == [p \in Copy |-> IF p \in ps THEN Off ELSE proc[p]]

Interrupt(p) ==
    /\ p \in Serving /\ ~proc[p].managed
    /\ proc' = Termed({p})
    /\ UNCHANGED <<disk, manager, tool, runs, kills, toolGhosts, acked, saved>>

Kill(p) ==
    /\ p \in Alive /\ kills < MaxKills
    /\ kills' = kills + 1
    /\ proc' = Killed({p})
    /\ acked' = acked \cap OnDisk
    /\ manager' = RestartsAfter({p}, TRUE)
    /\ UNCHANGED <<disk, tool, runs, toolGhosts, saved>>

(***************************************************************************)
(* --start, --stop and --restart, through the service manager.             *)
(***************************************************************************)

ServiceControl(action) ==
    /\ tool.doing = "idle" /\ Loads /\ Exists("unit")
    /\ erased' = FALSE
    /\ CASE action = "start" ->
              /\ manager.state # "started"
              /\ manager' = [state |-> "started", due |-> TRUE]
              /\ UNCHANGED proc
         [] action = "stop" ->
              /\ manager' = [state |-> "stopped", due |-> FALSE]
              /\ proc' = Termed(Managed)
         [] OTHER ->
              \* launchctl: kickstart, or unload, and only then load
              /\ \/ manager' = [state |-> "started", due |-> TRUE]
                 \/ /\ KeepAlive /\ "kickstart" \in Failing
                    /\ manager' = [state |-> "stopped", due |-> FALSE]
              /\ proc' = Termed(Managed)
    /\ UNCHANGED <<disk, tool, runs, kills, shown, planned, broken, acked, saved>>

(***************************************************************************)
(* --setup.                                                                *)
(***************************************************************************)

Idle == [doing |-> "idle", todo |-> <<>>, plan |-> Absent, wrote |-> FALSE,
         fresh |-> FALSE, pids |-> {}]
Key == runs          \* random_key: one no other run has made
Doing(what) == /\ tool.doing = what /\ tool.todo # <<>>
Step == Head(tool.todo)
OnToNext == tool' = [tool EXCEPT !.todo = Tail(@)]

ApplySteps(a) ==
    <<"dirs", "config", "logging", "acl">>
        \o (IF a.tls THEN <<"key", "cert">> ELSE <<>>)
        \o <<"modes">>
        \o (IF a.service THEN <<"binary", "unit">> ELSE <<>>)
        \o (IF a.service /\ a.start THEN <<"start">> ELSE <<>>)

BeginSetup(a) ==
    /\ tool.doing = "idle" /\ runs < MaxTools
    /\ ~Exists("unit")                        \* refuse_if_a_service_exists
    /\ runs' = runs + 1
    /\ tool' = [Idle EXCEPT !.doing = "setup", !.plan = a, !.todo = ApplySteps(a)]
    /\ erased' = FALSE
    /\ UNCHANGED <<disk, manager, proc, kills, shown, planned, broken, acked, saved>>

\* write_unless_kept
ApplyFile ==
    /\ Doing("setup") /\ Step \in {"config", "logging", "unit"}
    /\ \/ /\ disk' = [disk EXCEPT ![Step] =
                        IF Step = "config" THEN ConfigToml(tool.plan) ELSE "written"]
          /\ planned' = IF Step = "config" THEN tool.plan ELSE planned
          /\ tool' = [tool EXCEPT !.todo = Tail(@), !.fresh = @ \/ Step = "config"]
       \/ Exists(Step) /\ OnToNext /\ UNCHANGED <<disk, planned>>
    /\ UNCHANGED <<manager, proc, runs, kills, shown, broken, erased, acked, saved>>

ApplyAcl ==
    /\ Doing("setup") /\ Step = "acl"
    /\ tool' = [tool EXCEPT !.todo = Tail(@), !.wrote = ~Exists("acl")]
    /\ disk' = IF Exists("acl") THEN disk ELSE [disk EXCEPT !["acl"] = {Key}]
    /\ UNCHANGED <<manager, proc, runs, kills, toolGhosts, acked, saved>>

\* An existing certificate or key is kept; otherwise install_self_signed
\* writes the key and then the certificate.
KeepsPair == Exists("cert") \/ Exists("key")

ApplyTls ==
    /\ Doing("setup") /\ Step \in {"key", "cert"}
    /\ IF Step = "key" /\ KeepsPair
       THEN /\ tool' = [tool EXCEPT !.todo = Tail(Tail(@))]
            /\ UNCHANGED disk
       ELSE /\ OnToNext
            /\ disk' = [disk EXCEPT ![Step] = Key]
    /\ UNCHANGED <<manager, proc, runs, kills, toolGhosts, acked, saved>>

\* The user, the directories, their modes and owner, and the binary.
ApplyPlace ==
    /\ Doing("setup") /\ Step \in {"dirs", "modes", "binary"}
    /\ OnToNext
    /\ disk' = IF Step = "dirs" THEN WithDir ELSE disk
    /\ UNCHANGED <<manager, proc, runs, kills, toolGhosts, acked, saved>>

ApplyStart ==
    /\ Doing("setup") /\ Step = "start"
    /\ OnToNext
    /\ manager' = [state |-> "started", due |-> TRUE]
    /\ UNCHANGED <<disk, proc, runs, kills, toolGhosts, acked, saved>>

\* The error is printed and the run is over: nothing is undone or reported.
ApplyFails ==
    /\ Doing("setup") /\ Step \in Failing
    /\ tool' = Idle
    /\ broken' = TRUE
    /\ UNCHANGED <<disk, manager, proc, runs, kills, shown, planned, erased,
                   acked, saved>>

ReportAlways ==
    /\ tool.doing = "setup" /\ tool.todo = <<>>
    /\ tool' = Idle
    /\ shown' = shown \cup {Key}
    /\ broken' = (broken /\ ~tool.fresh)
    /\ UNCHANGED <<disk, manager, proc, runs, kills, planned, erased, acked, saved>>

Report ==
    /\ tool.doing = "setup" /\ tool.todo = <<>>
    /\ tool' = Idle
    /\ shown' = IF tool.wrote THEN shown \cup {Key} ELSE shown
    /\ broken' = (broken /\ ~tool.fresh)
    /\ UNCHANGED <<disk, manager, proc, runs, kills, planned, erased, acked, saved>>

\* --install-selfsigned-keys
InstallKeys ==
    /\ tool.doing = "idle" /\ Loads
    /\ TlsFiles(disk["config"]) # {} /\ ~KeepsPair
    /\ disk' = [disk EXCEPT !["cert"] = Key, !["key"] = Key]
    /\ UNCHANGED <<manager, proc, tool, runs, kills, toolGhosts, acked, saved>>

(***************************************************************************)
(* --erase and --erase-hard.                                               *)
(***************************************************************************)

InventoryCertOnly(raw) ==
    <<"config", "logging", raw.accounts.acl_file, raw.storage.tiers_file>>
        \o (IF raw.daemon.ssl THEN <<raw.daemon.ssl_cert>> ELSE <<>>)

\* inventory, in its order: what the configuration names and owns.
InventoryConfig(raw) ==
    <<"config", "logging", raw.accounts.acl_file, raw.storage.tiers_file>>
        \o (IF raw.daemon.ssl THEN <<raw.daemon.ssl_cert, raw.daemon.ssl_key>>
                              ELSE <<>>)

InventoryRest(raw) == <<raw.daemon.dbdir, "unit">>

Doomed(hard) ==
    LET raw == disk["config"]
    IN SelectSeq((IF hard THEN InventoryConfig(raw) ELSE <<>>) \o InventoryRest(raw),
                 Exists)

StopSteps == (IF Exists("unit") THEN <<"stop">> ELSE <<>>) \o <<"term", "wait">>

EraseStopsLast(hard) == Doomed(hard) \o StopSteps

EraseSteps(hard) == StopSteps \o Doomed(hard)

BeginErase(hard) ==
    /\ tool.doing = "idle" /\ runs < MaxTools /\ Loads
    /\ runs' = runs + 1
    /\ tool' = [Idle EXCEPT !.doing = "erase", !.todo = EraseSteps(hard)]
    /\ UNCHANGED <<disk, manager, proc, kills, toolGhosts, acked, saved>>

EraseStop ==
    /\ Doing("erase") /\ Step = "stop"
    /\ OnToNext
    /\ \/ /\ manager' = [state |-> "none", due |-> FALSE]
          /\ proc' = Termed(Managed)
       \/ "stop" \in Failing /\ UNCHANGED <<manager, proc>>
    /\ UNCHANGED <<disk, runs, kills, toolGhosts, acked, saved>>

\* stop_processes: TERM, two seconds, and KILL to whichever is still there.
EraseTerm ==
    /\ Doing("erase") /\ Step = "term"
    /\ tool' = [tool EXCEPT !.todo = Tail(@), !.pids = Alive]
    /\ proc' = Termed(Alive)
    /\ manager' = RestartsAfter({p \in Alive : proc[p].phase = "opening"}, TRUE)
    /\ UNCHANGED <<disk, runs, kills, toolGhosts, acked, saved>>

EraseKill ==
    /\ Doing("erase") /\ Step = "wait"
    /\ OnToNext
    /\ proc' = Killed(tool.pids)
    /\ manager' = RestartsAfter(tool.pids \cap Alive, TRUE)
    /\ acked' = IF tool.pids \cap Alive = {} THEN acked ELSE acked \cap OnDisk
    /\ UNCHANGED <<disk, runs, kills, toolGhosts, saved>>

\* remove: an error is noted and the next entry tried.
EraseRemove ==
    /\ Doing("erase") /\ Step \in File
    /\ OnToNext
    /\ \/ /\ disk' = [disk EXCEPT ![Step] = Absent]
          /\ shown' = IF Step = "acl" THEN {} ELSE shown
          /\ planned' = IF Step = "config" THEN Absent ELSE planned
          /\ acked' = IF Step = "data" THEN {} ELSE acked
          /\ saved' = IF Step = "data" THEN {} ELSE saved
       \/ "remove" \in Failing /\ UNCHANGED <<disk, shown, planned, acked, saved>>
    /\ UNCHANGED <<manager, proc, runs, kills, broken, erased>>

EraseDone ==
    /\ tool.doing = "erase" /\ tool.todo = <<>>
    /\ tool' = Idle
    /\ erased' = TRUE
    /\ UNCHANGED <<disk, manager, proc, runs, kills, shown, planned, broken,
                   acked, saved>>

(***************************************************************************)
(* The specification.                                                      *)
(***************************************************************************)

Init ==
    /\ disk = [f \in File |-> Absent]
    /\ manager = [state |-> "none", due |-> FALSE]
    /\ proc = [p \in Copy |-> Off]
    /\ tool = Idle
    /\ runs = 0 /\ kills = 0
    /\ shown = {} /\ planned = Absent /\ broken = FALSE /\ erased = FALSE
    /\ acked = {} /\ saved = {}

Tools ==
    \/ \E a \in Answers : BeginSetup(a)
    \/ ApplyFile \/ ApplyAcl \/ ApplyTls \/ ApplyPlace \/ ApplyStart
    \/ ApplyFails \/ Report \/ InstallKeys
    \/ \E hard \in BOOLEAN : BeginErase(hard)
    \/ EraseStop \/ EraseTerm \/ EraseKill \/ EraseRemove \/ EraseDone
    \/ \E action \in {"start", "stop", "restart"} : ServiceControl(action)

Daemon(p) ==
    \/ LaunchByHand(p) \/ ManagerLaunch(p) \/ Serve(p)
    \/ \E w \in Write : ImportOnce(p, w) \/ Record(p, w)
    \/ \E f \in Edited : EditFile(p, f)
    \/ SnapshotTake(p) \/ SnapshotWrite(p)
    \/ StopWorkers(p) \/ FinalSave(p) \/ Exit(p)
    \/ Interrupt(p) \/ Kill(p)

Next == Tools \/ \E p \in Copy : Daemon(p)

Spec == Init /\ [][Next]_vars

(***************************************************************************)
(* Properties.                                                             *)
(***************************************************************************)

\* The key the wizard tells someone is in the key file, however often the
\* wizard is run and whatever it finds (setup.rs, Applied::wrote_admin_key:
\* "reporting the freshly generated one would hand out a key that does not
\* work"); and unless a run broke off, a key file never holds only
\* keys nobody was told.
ShownKeysWork ==
    tool.doing = "idle" /\ Exists("acl") =>
        /\ shown \subseteq disk["acl"]
        /\ ~broken => shown # {}

\* Unless a setup broke off and none has written the configuration afresh
\* since, the configuration on disk is one a daemon can serve from: its
\* certificate and key are both there and belong together, and what it stores
\* and whether it keeps peers is what the mode it was written for means (a
\* router nothing, a standalone server all).
InstalledStarts ==
    tool.doing = "idle" /\ ~broken /\ Exists("config") =>
        LET raw == disk["config"]
        IN /\ TlsReady(raw)
           /\ \A f, g \in TlsFiles(raw) : disk[f] = disk[g]
           /\ (TlsFiles(raw) # {}) = planned.tls
           /\ (Stores(raw) = {}) = (planned.mode = "router")
           /\ planned.mode = "standalone" => Stores(raw) = Absent
           /\ ("peers" \in EditedFiles(raw)) = (planned.mode \in {"router", "both"})

\* What an erase removed stays removed until somebody starts or installs the
\* program again: no daemon is left to write a last snapshot over the
\* removed one, and no service manager to start another.
ErasedStaysErased ==
    erased => Alive = {} /\ manager.state = "none" /\ ~Exists("data")

\* A snapshot is never replaced by one with less in it, and once no daemon
\* runs the snapshot holds every sighting that was accepted and that no kill
\* took: the forced save comes after the last request and after the last
\* worker (main.rs: "so nothing is writing a snapshot underneath us").
SnapshotsKept ==
    /\ saved \subseteq OnDisk
    /\ Alive = {} => acked \subseteq OnDisk

\* setup.rs of --erase-hard: "with it, those as well, leaving nothing behind".
LeavesNothing ==
    (erased /\ ~Exists("config")) => \A f \in File : ~Exists(f)
=============================================================================
