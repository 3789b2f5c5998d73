------------------------------- MODULE Persona -------------------------------
(* The machine a profile claims to be: how a capture becomes a persona,     *)
(* what the operator's pins make of it, the configuration derived for the   *)
(* core and what refuses it (shared-rs/src/persona.rs, capture.rs,          *)
(* catalogue.rs, overrides.rs, fingerprint.rs; agent/src/personas.rs,       *)
(* capture.rs, ipc.rs profiles.upsert, profile.preview and launch;          *)
(* desktop/src-tauri/src/commands.rs keep_persona_here).                    *)
(*                                                                          *)
(* Names, versions and driver strings are left out: a string is what the    *)
(* rules tell apart in it (the driver stack of a renderer, the system of a  *)
(* user agent and its "Mobile").                                            *)
EXTENDS Naturals, FiniteSets

CONSTANTS MaxEdits   \* bound: writes of the row, the folder and the form

ASSUME PersonaAssumption == MaxEdits \in Nat

None == "none"
Systems == {"mac", "win", "android"}
Stack(os) == CASE os = "mac" -> "metal" [] os = "win" -> "d3d" [] OTHER -> "handset"
Ships == {"mac", "win", "phone"}       \* ids of the built-in catalogue
KeptHere == {"mac-2", "tablet"}            \* ids a machine kept here gets

(* struct PersonaScreen: logical pixels in hundreds, the ratio in quarters. *)
Panel(w, h, reserved, ratio) == [width |-> w, height |-> h, avail |-> h - reserved, ratio |-> ratio]

(* A machine as its own browser reports it to the probe. "limits": a probe  *)
(* that recorded the adapter's limits; "form": a handset's, from the agent. *)
Dumps ==
  [os : {"mac"}, form : {None}, memory : {8, 16}, cores : {8}, limits : BOOLEAN,
   fonts : {{}, {"mac"}}, touch : {0}]
    \cup [os : {"android"}, form : {"tablet"}, memory : {4}, cores : {7, 8}, limits : {TRUE},
          fonts : {{"common"}}, touch : {5}]

-----------------------------------------------------------------------------
(* From a machine to a persona. *)

Handset(form, voices) == [form |-> form, voices |-> voices]

(* struct Persona. *)
Persona(os, form, memory, cores, limits, fonts, touch, voices) ==
  [os |-> os, platform |-> os, stack |-> Stack(os),
   adapter |-> IF limits THEN "full" ELSE "bare",
   mobile |-> form = "phone", touch |-> touch, bar |-> IF os = "win" THEN 15 ELSE 0,
   screen |-> CASE os = "mac" -> Panel(14, 9, 1, 8) [] os = "win" -> Panel(19, 10, 1, 4)
                [] OTHER -> Panel(4, 8, 0, 11),
   memory |-> memory, cores |-> cores, fonts |-> fonts, voices |-> voices,
   devices |-> os # "win",
   handset |-> Handset(form, form # None /\ voices)]

(* from_capture: what a capture must hold to become one. *)
Convertible(d) == d.fonts # {}
FromCapture(d) ==
  Persona(d.os, d.form, d.memory, d.cores, d.limits, d.fonts, d.touch, TRUE)

(* expand: a built-in machine is a measured one with a model substituted.   *)
Expanded(id) ==
  IF id = "phone" THEN Persona("android", "phone", 8, 8, TRUE, {"common"}, 5, TRUE)
  ELSE Persona(id, None, 8, 12, TRUE, {id, "common"}, 0, id = "mac")

(* suggest_id, and the suffix against what ships. *)
IdFor(d) == IF d.os = "android" THEN "tablet" ELSE "mac-2"

-----------------------------------------------------------------------------
(* Persona::validate. *)

PowersOfTwo == {1, 2, 4, 8, 16, 32, 64, 128}
RatiosOf(os) == CASE os = "mac" -> {4, 8} [] os = "win" -> {4, 5, 6, 7, 8, 9, 10, 12}
                  [] OTHER -> 4 .. 18

(* validate_mobile: what a handset must say, and a desktop must not. *)
HandsetFits(p) ==
  IF p.os # "android" THEN p.handset.form = None
  ELSE /\ p.handset.form \in {"phone", "tablet"} /\ p.mobile = (p.handset.form = "phone")
       /\ p.bar = 0 /\ p.touch \in 1 .. 10 /\ p.memory <= 8
       /\ p.stack = "handset" /\ p.fonts \cap {"mac", "win"} = {}
WholePixels(s) == (s.width * s.ratio) % 4 = 0 /\ (s.height * s.ratio) % 4 = 0
ScreenFits(p) == /\ p.screen.avail <= p.screen.height
                 /\ p.os = "mac" => p.screen.avail # p.screen.height
                 /\ p.screen.ratio \in RatiosOf(p.os) /\ WholePixels(p.screen)

Validates(p) ==
  /\ p.os \in Systems /\ p.platform = p.os /\ HandsetFits(p)
  /\ p.os = "mac" => p.bar = 0 /\ p.touch = 0 /\ p.stack # "d3d" /\ "win" \notin p.fonts
  /\ p.os = "win" => p.bar # 0 /\ p.stack # "metal" /\ "mac" \notin p.fonts
  /\ ScreenFits(p) /\ p.memory \in PowersOfTwo
  /\ p.cores > 0 /\ p.cores % 2 = 0 /\ p.cores <= 128 /\ ~ (p.memory < 4 /\ p.cores > 8)
  /\ p.fonts # {}

-----------------------------------------------------------------------------
(* MachineOverrides: what the operator pins by hand.                        *)

NoPins == [gpu |-> None, screen |-> None, cores |-> 0, memory |-> 0, canvas |-> "noise"]
(* Each field pinned alone, and pairs that only fail or only pass together. *)
Pins == {NoPins}
  \cup {[NoPins EXCEPT !.gpu = g] : g \in {"win", "phone", "mac-2"}}
  \cup {[NoPins EXCEPT !.screen = s] : s \in {"odd", "fine", "handheld"}}
  \cup {[NoPins EXCEPT !.cores = n] : n \in {7, 16}}
  \cup {[NoPins EXCEPT !.memory = 2], [NoPins EXCEPT !.canvas = "real"],
        [NoPins EXCEPT !.memory = 2, !.cores = 16], [NoPins EXCEPT !.gpu = "mac-2", !.memory = 2],
        [NoPins EXCEPT !.canvas = "real", !.screen = "fine"]}
Offered(s) == CASE s = "odd" -> [width |-> 13, height |-> 7, ratio |-> 5]
                [] s = "fine" -> [width |-> 12, height |-> 8, ratio |-> 5]
                [] OTHER -> [width |-> 4, height |-> 8, ratio |-> 11]

(* apply: a donor of the same system; a monitor, or a handset's own screen. *)
AnyDonor(base, pins, machines) == pins.gpu = None \/ pins.gpu \in DOMAIN machines  \* mutant
DonorFits(base, pins, machines) ==
  pins.gpu = None \/ (pins.gpu \in DOMAIN machines /\ machines[pins.gpu].os = base.os)
MonitorFits(base, pins) ==
  pins.screen # None =>
    LET s == Offered(pins.screen)
    IN IF base.os = "android"
       THEN s = [width |-> base.screen.width, height |-> base.screen.height, ratio |-> base.screen.ratio]
       ELSE s.width \in 7 .. 76 /\ s.height \in 5 .. 43

(* The persona's own menu bar or taskbar goes with the pinned size; a       *)
(* handset's screen is its own already.                                     *)
Pinned(base, pins, machines) ==
  LET s == Offered(pins.screen)
      gpu == IF pins.gpu = None THEN base ELSE machines[pins.gpu]
      kept == base.screen.height - base.screen.avail
  IN [base EXCEPT !.stack = gpu.stack, !.adapter = gpu.adapter,
                  !.screen = IF pins.screen = None \/ base.os = "android" THEN @
                             ELSE Panel(s.width, s.height, kept, s.ratio),
                  !.cores = IF pins.cores = 0 THEN @ ELSE pins.cores,
                  !.memory = IF pins.memory = 0 THEN @ ELSE pins.memory]
Applies(base, pins, machines) ==
  /\ DonorFits(base, pins, machines) /\ MonitorFits(base, pins)
  /\ Validates(Pinned(base, pins, machines))

-----------------------------------------------------------------------------
(* derive_core_config and apply_config: what the core is handed. Its keys   *)
(* go by branch.                                                            *)

(* V8's ceilings, in GiB: an Android one is round, a desktop's only at the  *)
(* lowest.                                                                  *)
Tier(memory) == IF memory <= 2 THEN 1 ELSE IF memory <= 4 THEN 2 ELSE 4
JsHeapLimit(memory) == [gib |-> Tier(memory), round |-> memory <= 2]
JsHeapLimitAndroid(memory) == [gib |-> Tier(memory), round |-> TRUE]

IsPhone(p) == p.os = "android" /\ p.handset.form = "phone"

AlwaysThere == {"navigator", "clientHints", "screen.os", "gpu", "audio", "fonts", "locale",
                "noise.audio", "permissions", "engine", "automation", "webrtc", "battery"}
MonitorKeys == {"screen.size"}
(* Branches the persona may have nothing for. *)
WhenMeasured(p) ==
  (IF p.voices THEN {"speech.voices"} ELSE {})
    \cup (IF p.devices THEN {"mediaDevices"} ELSE {})
    \cup (IF p.adapter = "none" THEN {} ELSE {"gpu.webgpu"})
    \cup (IF p.adapter = "full" THEN {"gpu.webgpu.limits"} ELSE {})
HandsetKeys(p) ==
  IF p.handset.form = None THEN {}
  ELSE {"mobile"} \cup (IF p.handset.voices THEN {"speech.android"} ELSE {})

LeavesTheMonitor(p, pins) == pins.screen = None                          \* mutant
ReportsTheMonitor(p, pins) == pins.screen = None /\ p.handset.form = None
RealMarkers(p, pins) ==
  {"rects=real"} \cup (IF pins.canvas = "real" THEN {"canvas=real"} ELSE {})
    \cup (IF ReportsTheMonitor(p, pins) THEN {"screen=real"} ELSE {})

CoreConfig(p, pins) ==
  [keys |-> AlwaysThere \cup WhenMeasured(p) \cup HandsetKeys(p) \cup RealMarkers(p, pins)
              \cup (IF pins.canvas = "real" THEN {} ELSE {"noise.canvas"})
              \cup (IF ReportsTheMonitor(p, pins) THEN {} ELSE MonitorKeys),
   os |-> p.os, platform |-> p.platform, mobile |-> p.mobile,
   hints |-> [mobile |-> IsPhone(p), form |-> IF IsPhone(p) THEN "Mobile" ELSE "Desktop"],
   stack |-> p.stack, touch |-> p.touch, bar |-> p.bar, screen |-> p.screen,
   memory |-> p.memory, cores |-> p.cores, fonts |-> p.fonts,
   heap |-> IF p.os = "android" THEN JsHeapLimitAndroid(p.memory) ELSE JsHeapLimit(p.memory)]

(* CORE_CONFIG_KEYS; OPTIONAL_BRANCHES skips a branch that is not there at  *)
(* all; a marker stands for what was left out on purpose.                   *)
CoreReads == AlwaysThere \cup MonitorKeys
  \cup {"noise.canvas", "noise.rects", "speech.voices", "speech.android", "mediaDevices",
        "gpu.webgpu", "gpu.webgpu.limits", "mobile"}
Skipped(keys) ==
  (IF {"speech.voices", "speech.android"} \cap keys = {} THEN {"speech.voices"} ELSE {})
    \cup ({"speech.android", "mediaDevices", "mobile"} \ keys)
    \cup (IF "gpu.webgpu" \in keys THEN {} ELSE {"gpu.webgpu", "gpu.webgpu.limits"})
Meant(keys) ==
  (IF "rects=real" \in keys THEN {"noise.rects"} ELSE {})
    \cup (IF "canvas=real" \in keys THEN {"noise.canvas"} ELSE {})
    \cup (IF "screen=real" \in keys THEN MonitorKeys ELSE {})
CheckCoreConfig(c) == CoreReads \ (Skipped(c.keys) \cup Meant(c.keys)) \subseteq c.keys

-----------------------------------------------------------------------------
VARIABLES
  personasDir,    \* paths::personas_dir: id -> the persona of its file, {} without one
  profile,   \* the profile's row: persona_id and overrides
  preview,     \* what the dialog was shown for a row since any file was written
  claiming,   \* the row a launch has read
  core,      \* the running core: its row and the configuration it was handed
  edits      \* history: writes so far

personaVars == <<personasDir, profile, preview, claiming, core, edits>>

Row(on, pins) == [on |-> on, pins |-> pins]
Choices == {Row(id, pins) : id \in Ships \cup KeptHere, pins \in Pins}

(* profiles.createMany and profiles.clone write a template as it stands.    *)
PersonaInit ==
  /\ personasDir = [k \in KeptHere |-> {}] /\ profile \in Choices
  /\ preview = {} /\ claiming = {} /\ core = {} /\ edits = 0

(* personas::all: what ships comes first, and a file of its id is ignored. *)
Machines ==
  [id \in Ships \cup {k \in KeptHere : personasDir[k] # {}} |->
     IF id \in Ships THEN Expanded(id) ELSE CHOOSE p \in personasDir[id] : TRUE]
Loaded(id) == Machines[id]

Writes == edits < MaxEdits /\ edits' = edits + 1
(* Bound: rows are written and previewed while no launch has one in hand,   *)
(* which would change nothing it uses.                                      *)
Edits == Writes /\ claiming = {} /\ core = {}

(* persona.capture, kept: what validate objects to is shown, not refused.     *)
(* The team's machines come the same way, over a file of the same id.       *)
KeepsPersona(d) ==
  /\ Writes /\ Convertible(d)
  /\ personasDir' = [personasDir EXCEPT ![IdFor(d)] = {FromCapture(d)}]
  /\ preview' = {} /\ UNCHANGED <<profile, claiming, core>>

(* profile.preview: pins that make no machine are listed as problems, and   *)
(* the persona is shown without them.                                       *)
Shown(choice) ==
  LET base == Loaded(choice.on)
      fits == Applies(base, choice.pins, Machines)
      p == IF fits THEN Pinned(base, choice.pins, Machines) ELSE base
  IN [choice |-> choice, problems |-> ~ fits, config |-> CoreConfig(p, choice.pins)]
Previews(choice) ==
  /\ Edits /\ choice.on \in DOMAIN Machines /\ preview' = {Shown(choice)}
  /\ UNCHANGED <<personasDir, profile, claiming, core>>

(* profiles.upsert refuses what a launch would, but for the core's check.   *)
Upserts(choice) ==
  /\ Edits /\ choice.on \in DOMAIN Machines
  /\ Validates(Loaded(choice.on)) /\ Applies(Loaded(choice.on), choice.pins, Machines)
  /\ profile' = choice /\ UNCHANGED <<personasDir, preview, claiming, core>>
(* launch: the row is read, and the folder after it.                         *)
ReadsRow == /\ claiming = {} /\ core = {} /\ claiming' = {profile}
            /\ UNCHANGED <<personasDir, profile, preview, core, edits>>
Claimed(choice) == CoreConfig(Pinned(Loaded(choice.on), choice.pins, Machines), choice.pins)
Accepted(choice) == /\ choice.on \in DOMAIN Machines
                 /\ Applies(Loaded(choice.on), choice.pins, Machines) /\ CheckCoreConfig(Claimed(choice))
IsRefused == /\ \E choice \in claiming : ~ Accepted(choice)
             /\ claiming' = {} /\ UNCHANGED <<personasDir, profile, preview, core, edits>>
Opens == /\ \E choice \in claiming : Accepted(choice) /\ core' = {[choice |-> choice, config |-> Claimed(choice)]}
         /\ claiming' = {} /\ UNCHANGED <<personasDir, profile, preview, edits>>
CoreEnds == /\ core # {} /\ core' = {}
          /\ UNCHANGED <<personasDir, profile, preview, claiming, edits>>

PersonaNext ==
  \/ \E d \in Dumps : KeepsPersona(d)
  \/ \E choice \in Choices : Previews(choice) \/ Upserts(choice)
  \/ ReadsRow \/ IsRefused \/ Opens \/ CoreEnds

PersonaSpec == PersonaInit /\ [][PersonaNext]_personaVars

-----------------------------------------------------------------------------
PersonaTypeOK ==
  /\ \A k \in KeptHere : personasDir[k] \subseteq {FromCapture(d) : d \in Dumps} /\ Cardinality(personasDir[k]) <= 1
  /\ profile \in Choices /\ claiming \subseteq Choices
  /\ \A c \in core : c.choice \in Choices /\ c.config.os \in Systems
  /\ \A v \in preview : v.choice \in Choices /\ v.problems \in BOOLEAN
  /\ edits \in 0 .. MaxEdits

(* FingerprintConfig::validate: the rules a page's collector checks, on     *)
(* what the core was handed rather than on the persona it came from.        *)
Consistent(c) ==
  /\ c.platform = c.os /\ c.stack = Stack(c.os)
  /\ c.os = "mac" => c.bar = 0 /\ c.touch = 0
  /\ c.os = "win" => c.bar # 0
  /\ ~ (c.memory < 4 /\ c.cores > 8) /\ c.memory \in PowersOfTwo
  /\ "screen.size" \in c.keys =>
       c.screen.avail <= c.screen.height /\ (c.os = "mac" => c.screen.avail # c.screen.height)
  /\ c.fonts # {} /\ (c.os = "mac" => "win" \notin c.fonts) /\ (c.os = "win" => "mac" \notin c.fonts)
  /\ c.hints.mobile = c.mobile /\ (c.os # "android" => ~ c.hints.mobile)

(* A running core was given everything it reads, and what it was given is   *)
(* one machine: a handset's own screen, a heap its memory allows, the       *)
(* pinned values of its row; and it is the machine the dialog showed for    *)
(* that row, unless a persona's file was written since.                     *)
OneMachine ==
  \A b \in core :
    LET c == b.config  pins == b.choice.pins
    IN /\ Consistent(c) /\ CheckCoreConfig(c)
       /\ c.os = "android" => {"mobile", "screen.size"} \subseteq c.keys /\ c.touch > 0
       /\ c.os # "android" => {"mobile", "speech.android"} \cap c.keys = {}
       /\ c.heap.round = (c.os = "android" \/ c.memory <= 2) /\ c.heap.gib <= c.memory
       /\ pins.cores # 0 => c.cores = pins.cores
       /\ pins.memory # 0 => c.memory = pins.memory
       /\ pins.screen # None => c.screen.width = Offered(pins.screen).width
       /\ (pins.canvas = "real") = ("noise.canvas" \notin c.keys)
       /\ \A v \in preview : v.choice = b.choice => ~ v.problems /\ v.config = c
=============================================================================
