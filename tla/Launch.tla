------------------------------- MODULE Launch -------------------------------
(* The node process from its command line to its exit (node/src/cli.ts): the     *)
(* flags, the configuration and the identity it keeps on disk, the start of the  *)
(* node and of its web page, and the shutdown that a signal or a remote reboot   *)
(* asks for.  Launches come one after the other under a supervisor, or two at    *)
(* once when somebody double-clicks; a process may be killed between any two     *)
(* steps, and a file is created before it is written.                            *)
(*                                                                               *)
(* Abstraction: a flag's value is "x" (a good one), "bad", "" or "true"; a key   *)
(* pair and a password are numbers, drawn fresh; what a flag opens in the page   *)
(* is left to the model of the local API.                                        *)
EXTENDS Naturals, Sequences, FiniteSets

CONSTANTS
  Procs,        \* process slots
  Argvs,        \* the command lines used: sequences of [dash |-> BOOLEAN, text |-> STRING]
  Overlaps,     \* may two processes run at once: the answers looked at
  MaxLaunches, MaxKills, MaxFailures   \* bounds

VARIABLES
  proc,         \* per slot, the process: [at, argv, password, key, up, web, tiles, open, timers, shutting]
  config,       \* config.json: [st, password], st in "absent", "empty", "gap", "ok"
  priv, pub,    \* private.key and public.key: the pair written there, 0 when absent
  fresh,        \* keys and passwords drawn so far
  overlapping,  \* two processes may run at once
  launches, kills, failures

vars == <<proc, config, priv, pub, fresh, overlapping, launches, kills, failures>>
disk == <<config, priv, pub>>
bounds == <<overlapping, launches, kills, failures>>

Dead == [at |-> "dead", argv |-> <<>>, password |-> 0, key |-> 0, up |-> FALSE, web |-> FALSE,
         tiles |-> FALSE, open |-> FALSE, timers |-> FALSE, shutting |-> FALSE]

\* A flag takes the token after it unless that is a flag too; the last one counts.
Uses(argv, flag) == {i \in DOMAIN argv : argv[i].dash /\ argv[i].text = flag}
Last(S) == CHOOSE i \in S : \A j \in S : j <= i
parseArgs(argv, flag) ==
  IF Uses(argv, flag) = {} THEN "absent"
  ELSE LET i == Last(Uses(argv, flag)) IN
       IF i < Len(argv) /\ ~argv[i + 1].dash THEN argv[i + 1].text ELSE "true"

arg(p, flag) == parseArgs(proc[p].argv, flag)
portable(p) == arg(p, "portable") = "true"

Init ==
  /\ proc = [p \in Procs |-> Dead]
  /\ config \in {[st |-> "absent", password |-> 0], [st |-> "gap", password |-> 0]}
  /\ priv = 0 /\ pub = 0
  /\ overlapping \in Overlaps
  /\ fresh = 0 /\ launches = 0 /\ kills = 0 /\ failures = 0

At(p, phase) == proc[p].at = phase
Goes(p, new) == proc' = [proc EXCEPT ![p] = new]
To(p, phase) == Goes(p, [proc[p] EXCEPT !.at = phase])
Exits(p) == Goes(p, Dead)

\* A phase that only reads flags: it goes on, or the process leaves with an error.
Phase(p, phase, ok, next) ==
  /\ At(p, phase)
  /\ IF ok THEN To(p, next) ELSE Exits(p)
  /\ UNCHANGED <<disk, fresh, bounds>>

-----------------------------------------------------------------------------
(* Before the node exists. *)

Launch(p, argv) ==
  /\ At(p, "dead") /\ launches < MaxLaunches
  /\ overlapping \/ \A q \in Procs : At(q, "dead")
  /\ launches' = launches + 1
  /\ Goes(p, [Dead EXCEPT !.at = "password", !.argv = argv])
  /\ UNCHANGED <<disk, fresh, overlapping, kills, failures>>

\* A password given by flag, file or environment; an empty one, or none after the flag,
\* is refused.
resolveNetworkPassword(p) ==
  Phase(p, "password", arg(p, "network-password") \notin {"true", "", "bad"},
        IF portable(p) THEN "config" ELSE "flags")

Draw(p, phase, field) ==
  /\ Goes(p, [proc[p] EXCEPT !.at = phase, ![field] = fresh + 1])
  /\ fresh' = fresh + 1

LoadedWith(p, password) == Goes(p, [proc[p] EXCEPT !.at = "flags", !.password = password])

\* tryLoadExistingConfig(): a sound file is used, one with a gap is mended and written
\* back; validatePortableConfig() draws what is missing.
ConfigLoads(p) ==
  /\ At(p, "config") /\ config.st = "ok"
  /\ LoadedWith(p, config.password)
  /\ UNCHANGED <<disk, fresh, bounds>>

\* As if a mended configuration were only used.
ConfigMendedForgotten(p) ==
  /\ At(p, "config") /\ config.st = "gap"
  /\ Draw(p, "flags", "password")
  /\ UNCHANGED <<disk, bounds>>

ConfigMended(p) ==
  /\ At(p, "config") /\ config.st = "gap"
  /\ Draw(p, "rewrite", "password")
  /\ config' = [st |-> "empty", password |-> 0]
  /\ UNCHANGED <<priv, pub, bounds>>

\* A file that cannot be read as JSON is written over.
ConfigMalformed(p) ==
  /\ At(p, "config") /\ config.st = "empty"
  /\ Draw(p, "rewrite", "password")
  /\ UNCHANGED <<disk, bounds>>

\* No file: a configuration is drawn, then created with "wx" ...
ConfigAbsent(p) ==
  /\ At(p, "config") /\ config.st = "absent"
  /\ Draw(p, "create", "password")
  /\ UNCHANGED <<disk, bounds>>

ConfigCreated(p) ==
  /\ At(p, "create") /\ config.st = "absent"
  /\ config' = [st |-> "empty", password |-> 0]
  /\ To(p, "rewrite")
  /\ UNCHANGED <<priv, pub, fresh, bounds>>

\* ... which fails when another process was faster: its file is read back, or, when it
\* is not there whole, the start is given up.
ConfigRaceLost(p) ==
  /\ At(p, "create") /\ config.st # "absent"
  /\ IF config.st = "ok" THEN LoadedWith(p, config.password) ELSE Exits(p)
  /\ UNCHANGED <<disk, fresh, bounds>>

persistConfigSecurely(p) ==
  /\ At(p, "rewrite")
  /\ config' = [st |-> "ok", password |-> proc[p].password]
  /\ To(p, "flags")
  /\ UNCHANGED <<priv, pub, fresh, bounds>>

\* Numbers in their range, names not empty.
CheckFlags(p) ==
  Phase(p, "flags", arg(p, "battery-percent") \notin {"bad", "", "true"},
        IF portable(p) \/ arg(p, "identity-dir") # "absent" THEN "keys" ELSE "ephemeral")

Ephemeral(p) ==
  /\ At(p, "ephemeral") /\ Draw(p, "lora", "key")
  /\ UNCHANGED <<disk, bounds>>

\* Identity.loadOrCreate(): both files, or none of them.
KeysLoad(p) ==
  /\ At(p, "keys") /\ priv # 0 /\ pub # 0
  /\ Goes(p, [proc[p] EXCEPT !.at = "lora", !.key = pub])
  /\ UNCHANGED <<disk, fresh, bounds>>

KeysRefused(p) ==
  /\ At(p, "keys") /\ (priv = 0) # (pub = 0)
  /\ Exits(p)
  /\ UNCHANGED <<disk, fresh, bounds>>

\* As if one file alone were as good as none.
KeysDrawnIfNotBoth(p) ==
  /\ At(p, "keys") /\ (priv = 0 \/ pub = 0)
  /\ Draw(p, "private", "key")
  /\ UNCHANGED <<disk, bounds>>

KeysDrawn(p) ==
  /\ At(p, "keys") /\ priv = 0 /\ pub = 0
  /\ Draw(p, "private", "key")
  /\ UNCHANGED <<disk, bounds>>

PrivateWritten(p) ==
  /\ At(p, "private") /\ priv' = proc[p].key /\ To(p, "public")
  /\ UNCHANGED <<config, pub, fresh, bounds>>

PublicWritten(p) ==
  /\ At(p, "public") /\ pub' = proc[p].key /\ To(p, "lora")
  /\ UNCHANGED <<config, priv, fresh, bounds>>

-----------------------------------------------------------------------------
(* The node comes up. *)

\* The LoRa flags are checked; the driver is added, not yet started.
BuildLora(p) == Phase(p, "lora", arg(p, "lora-serial-port") \notin {"", "bad"}, "start")

StartNode(p) ==
  /\ At(p, "start")
  /\ Goes(p, [proc[p] EXCEPT !.at = "connect", !.up = TRUE])
  /\ UNCHANGED <<disk, fresh, bounds>>

\* A transport does not start: main() rejects.
StartFails(p) ==
  /\ At(p, "start") /\ failures < MaxFailures /\ failures' = failures + 1
  /\ Exits(p)
  /\ UNCHANGED <<disk, fresh, overlapping, launches, kills>>

\* --connect and --discover-peer: a peer that cannot be reached is only reported.
ConnectPeers(p) == Phase(p, "connect", TRUE, "register")
Register(p) == Phase(p, "register", TRUE, "trust")
TrustAdmin(p) == Phase(p, "trust", arg(p, "trust-admin") # "", "timers")

StartTimers(p) ==
  /\ At(p, "timers")
  /\ IF arg(p, "telemetry") \in {"bad", "", "true"} THEN Exits(p)
     ELSE Goes(p, [proc[p] EXCEPT !.timers = arg(p, "telemetry") = "x",
                   !.at = IF portable(p) \/ arg(p, "web-port") # "absent" THEN "map" ELSE "ready"])
  /\ UNCHANGED <<disk, fresh, bounds>>

\* A map that cannot be opened is left out.
OpenMap(p) ==
  /\ At(p, "map")
  /\ Goes(p, [proc[p] EXCEPT !.at = "web", !.tiles = arg(p, "map-file") = "x",
              !.open = arg(p, "map-file") = "x"])
  /\ UNCHANGED <<disk, fresh, bounds>>

PasswordShown(p) == IF proc[p].password = 0 THEN fresh + 1 ELSE proc[p].password

StartWeb(p) ==
  /\ At(p, "web")
  /\ IF \E q \in Procs : proc[q].web THEN Exits(p)
     ELSE Goes(p, [proc[p] EXCEPT !.at = "ready", !.web = TRUE, !.password = PasswordShown(p)])
  /\ fresh' = IF proc[p].password = 0 THEN fresh + 1 ELSE fresh
  /\ UNCHANGED <<disk, bounds>>

\* The handlers of signals and of the reboot command are installed last.
Ready(p) == At(p, "ready") /\ To(p, "runs") /\ UNCHANGED <<disk, fresh, bounds>>

-----------------------------------------------------------------------------
(* The end. *)

\* SIGINT or SIGTERM: before the handlers are there it ends the process.
Signal(p) ==
  /\ ~At(p, "dead") /\ ~proc[p].shutting
  /\ IF At(p, "runs") THEN Goes(p, [proc[p] EXCEPT !.shutting = TRUE, !.timers = FALSE, !.at = "stop web"])
     ELSE Exits(p)
  /\ UNCHANGED <<disk, fresh, bounds>>

\* A reboot command accepted from the mesh; without a handler it is only an event.
RebootCommand(p) ==
  /\ At(p, "runs") /\ arg(p, "allow-remote-reboot") = "true"
  /\ Goes(p, [proc[p] EXCEPT !.shutting = TRUE, !.timers = FALSE, !.at = "stop web"])
  /\ UNCHANGED <<disk, fresh, bounds>>

StopWeb(p) ==
  /\ At(p, "stop web")
  /\ Goes(p, [proc[p] EXCEPT !.web = FALSE, !.at = "close map"])
  /\ UNCHANGED <<disk, fresh, bounds>>

\* As if the closed map were not forgotten.
ClosedMapKept(p) == [proc[p] EXCEPT !.at = "stop node", !.open = FALSE]

ClosedMap(p) == [proc[p] EXCEPT !.at = "stop node", !.open = FALSE, !.tiles = FALSE]

Throws(p) == Goes(p, [proc[p] EXCEPT !.shutting = FALSE, !.at = "runs"])

\* Closing a closed file throws.
CloseMap(p) ==
  /\ At(p, "close map")
  /\ IF ~proc[p].tiles THEN To(p, "stop node")
     ELSE IF proc[p].open THEN Goes(p, ClosedMap(p)) ELSE Throws(p)
  /\ UNCHANGED <<disk, fresh, bounds>>

StopNode(p) ==
  /\ At(p, "stop node") /\ Exits(p)
  /\ UNCHANGED <<disk, fresh, bounds>>

\* A step of shutdown() throws: the guard is lifted for the next signal.
ShutdownFails(p) ==
  /\ proc[p].at \in {"stop web", "stop node"} /\ failures < MaxFailures
  /\ failures' = failures + 1
  /\ Throws(p)
  /\ UNCHANGED <<disk, fresh, overlapping, launches, kills>>

\* SIGKILL, a power cut.
Kill(p) ==
  /\ ~At(p, "dead") /\ kills < MaxKills /\ kills' = kills + 1
  /\ Exits(p)
  /\ UNCHANGED <<disk, fresh, overlapping, launches, failures>>

Next == \E p \in Procs :
  \/ \E argv \in Argvs : Launch(p, argv)
  \/ resolveNetworkPassword(p) \/ ConfigLoads(p) \/ ConfigMended(p) \/ ConfigMalformed(p)
  \/ ConfigAbsent(p) \/ ConfigCreated(p) \/ ConfigRaceLost(p) \/ persistConfigSecurely(p)
  \/ CheckFlags(p) \/ Ephemeral(p) \/ KeysLoad(p) \/ KeysRefused(p) \/ KeysDrawn(p)
  \/ PrivateWritten(p) \/ PublicWritten(p)
  \/ BuildLora(p) \/ StartNode(p) \/ StartFails(p) \/ ConnectPeers(p) \/ Register(p)
  \/ TrustAdmin(p) \/ StartTimers(p) \/ OpenMap(p) \/ StartWeb(p) \/ Ready(p)
  \/ Signal(p) \/ RebootCommand(p) \/ StopWeb(p) \/ CloseMap(p) \/ StopNode(p)
  \/ ShutdownFails(p) \/ Kill(p)

\* The operator who asks for an end asks again, and each step of the shutdown ends.
Fairness ==
  \A p \in Procs : /\ WF_vars(Signal(p)) /\ WF_vars(StopWeb(p))
                   /\ WF_vars(CloseMap(p)) /\ WF_vars(StopNode(p))

Spec == Init /\ [][Next]_vars /\ Fairness

-----------------------------------------------------------------------------
Kept(p) == portable(p) \/ arg(p, "identity-dir") # "absent"

\* One launch after the other, killed anywhere: a process that has joined the mesh has
\* on disk the identity it joined with, whole, and, when its configuration is kept, the
\* password its page shows.  The next start is the same node to its peers and its phones.
InstallSurvives ==
  ~overlapping => \A p \in Procs : proc[p].up /\ Kept(p) =>
      /\ priv = proc[p].key /\ pub = proc[p].key
      /\ portable(p) /\ arg(p, "network-password") = "absent"
            => config = [st |-> "ok", password |-> proc[p].password]

\* A private key on disk is never written over, not even when the public one is missing.
KeyNeverReplaced == [][~overlapping /\ priv # 0 => priv' = priv]_vars

\* A process that is asked to end, as often as it takes, ends: a failed step of the
\* shutdown does not make the next try fail at what the first had done.
ShutdownCompletes == \A p \in Procs : proc[p].shutting ~> proc[p].at = "dead"

\* "instead of two processes disagreeing about the network password/identity in use":
\* two launches of the same install that both come up are the same node.
LaunchesAgree ==
  \A p, q \in Procs : (proc[p].up /\ proc[q].up /\ portable(p) /\ portable(q)) =>
      proc[p].key = proc[q].key /\ proc[p].password = proc[q].password
=============================================================================
