# Verification of Fury

Fury is a browser for teams: a patched Chromium, an agent on each machine that
launches it, a desktop shell, and an optional team server through which several
people share profiles. A profile is an account's whole browser directory. What
must not go wrong is that two browsers write one profile, that a finished session
is lost, that somebody reads what nobody gave them, or that a browser tells a site
something of the machine it really runs on. This directory holds TLA+ models of
the code that is there to prevent it, what TLC checks of them, and proofs.

Paths below are relative to the repository root; `ipc.rs`, `sync.rs`,
`unsynced.rs`, `bundle.rs`, `relay.rs`, `store.rs`, `farm.rs`, `mirror.rs` are in
`agent/src/`, `api.rs` in `server/src/`, `commands.rs` in `desktop/src-tauri/src/`,
`persona.rs` in `shared-rs/src/`.

## 1. Inventory

The repository's own code is about 48 000 lines of Rust, 19 000 of TypeScript
and 8 500 of Chromium patches; `agent/vendor/` (a vendored TCP stack) is not
considered.

| Component | State | Operations | Module |
|---|---|---|---|
| Profile locks (`api.rs` 4130-4253, 5094-5160; `sync.rs` 185-287) | one row per profile: token hash, holder, machine, `expires_at` | acquire (upsert with a WHERE), force, heartbeat, release; archiving a profile, removing a member and unsharing delete rows too | `ProfileSync` |
| Bundles on the server (`api.rs` 4720-5092) | `current_version`, bundle rows, files under the bundle directory, staging files | upload (lock check, stream, transaction, prune), download with ETag, trash, purge, sweep | `ProfileSync`, `BundleStore` |
| Unsent sessions (`unsynced.rs`) | marker file, version file, moved-aside directories | mark, clear, decide, set_aside, held, record_held | `ProfileSync` |
| Launch and stop (`ipc.rs` 2735-3490) | map of running browsers; per launch a relay, a heartbeat, a child process | launch, stop | `ProfileSync`, `AgentSupervisor`, `CookieJar`, `ExitFacts`, `Persona` |
| Supervisor (`ipc.rs` 320-706) | `running`, `exit_when_idle` | dispatch, reaper, idle, shutdown | `AgentSupervisor` |
| Relay (`relay.rs`, `domains.rs`) | a listening task per launch, three lists | serve, forward, resolve, dial | `AgentSupervisor` (its life), `Relay` (its paths) |
| WireGuard stack (`wg_stack.rs`, `wg_tunnel.rs`) | one shared tunnel a configuration | take, dial, drop | `Tunnel` |
| Farm and warm-ups (`farm.rs`, `warm.rs`) | plans, tracks, jobs | the loop's pass, claim, start, report | `Farm` |
| Mirrored input (`mirror.rs`) | group, connections, queues | join, report, fan out, perform | `Mirror` |
| Errands: cookie exchange and other launches the agent makes itself (`ipc.rs` 2310-2382) | none | launch, drive, close | `AgentSupervisor` |
| Local store (`store.rs`, `vault.rs`, `transfer.rs`) | SQLite: folders, profiles, proxies, trash; the vault's key | CRUD, trash, clone, reseed, export, import | `LocalStore` |
| Extensions (`ext.rs`, `webstore.rs`) | packages and their storage, per profile | install, copy, remove | `Extensions` |
| Profile directory (`bundle.rs`, `usage.rs`, `cookies.rs`, `import_browser.rs`) | files, the jar, the fingerprint of its key | pack, unpack, trim, import, upload to the team | `CookieJar`, `ProfileFiles` |
| Personas and overrides (`persona.rs`, `capture.rs`, `catalogue.rs`, `overrides.rs`, `fingerprint.rs`) | files of kept machines, a row's pins | capture, keep, preview, save, launch | `Persona` |
| Exit, clock, languages (`ipc.rs` start, `locale.rs`) | what a proxy's row records of its exit | check, resolve, derive | `ExitFacts` |
| Core download and install (`core_download.rs`, `install_core.rs`) | progress, directories, the release record | start, fetch, unpack, two renames | `CoreFiles` |
| Shell, agent lifetimes, application update (`agent.rs`, `update.rs`, `main.rs` of the desktop) | the socket's owner, flags of the window | spawn, retire, update, quit | `Shell` |
| Organisation key (`api.rs` 3430-3620, 3860-4110; `commands.rs`) | generation, wrapped copies per member, proxy, login and bundle | enrol, seal, hand over, rotate, open | `OrgKey` |
| Invitations, e-mail check, sign-up (`enroll.rs`) | enrolment rows, letters, digits | invite, send, verify, complete, sign up | `Enrolment` |
| Sessions and second factor (`auth.rs`, `security.rs`, `totp.rs`) | sessions, challenges, journal, policy | login, code, step-up, revoke | `SignIn` |
| Permissions and shares (`rbac_guard.rs`, `rbac.rs`, `shares.rs`) | roles, grants, own roles, shares | grant, revoke, remove, share | `Access` |
| A team's projects and profiles (`api.rs`) | rows, trash, ceilings | create, clone, move, delete, restore, purge | `ProjectProfiles` |
| An organisation's machines and proxies (`api.rs`) | captured machines, sealed proxies | add, remove; open a form, save it | `OrgMachines`, `OrgProxies` |
| Importers, pasted proxy lists, locale tables | none | conversions | not modelled |
| Chromium patches, site, deployment, tools | none of the program's | | not modelled |

`PROJECT.json` lists every component with its status, and every hazard with the
line where it bites.

### How they interact

    shell --lock--> server          agent --heartbeat, pull, push, unlock--> server
      |  launch/stop/shutdown         |
      +------- socket --------------> agent --spawn, ask to close--> browser
                                        |- running map (mutex released between steps)
                                        |- reaper task, every 2 s
                                        +- per launch: relay task, heartbeat task

The shell takes the lock, then asks the agent to launch. From then on the agent
renews the lock every 30 s (the lease is 90 s), decides what to do with the
server's bundle, opens the browser, and on close packs the directory, pushes it
with the lock token and the version it grew from, records the outcome in two
small files, and releases the lock. A browser closed from its own window is
found by the reaper and goes through the same `stop`.

The window's other calls (store, extensions, farm, mirror, core) run in the agent
beside launches, look at the running map once and then work without it. On the
server every request is a task, most run outside a transaction, and each checks in
one statement what it changes in another.

### What is hard

* The lock is a lease checked at a moment: at acquisition, at a beat, before an
  upload's body. Pulls, packs and uploads may outlast it, and the heartbeat ends
  before the pack begins.
* The answer of any request may be lost after the server has acted.
* The marker, the version file and the directory are written one after another;
  a machine may lose power between any two, and failing writes of the small
  files are only logged.
* In the agent, a launch looks at the map at its beginning and writes it at its
  end, a stop does the opposite, and the reaper works from a list it made
  earlier. The mutex protects the map, not the launch.
* Dropping a task's handle detaches the task.
* On the server a version is a row and a file, written and removed apart, and a
  handler may be dropped at any await.
* A rotation of the organisation key is prepared by a client from lists it read
  in several requests, while members join, write and upload.
* Rights, room and rows are checked in a statement before the one that writes.
* Forms show what was true when they were opened: a masked host, a password the
  keychain did not give, a trash screen, the preview of a machine.
* A plan's sessions are started by two programs, the agent and the shell.

### What makes each part correct

* Locks: two machines never run one profile's browser (`OneBrowser`); an
  abandoned lock comes free (`LockComesFree`).
* Versions: one append-only line, each version containing the sessions of the
  one before (`HistoryInv`, `ImplementsBundleHistory`).
* Sessions: none disappears (`NoSessionLost`).
* Storage: a version with a row has its file (`NamedIsThere`), no file is left that
  nobody will remove (`NoLitter`), a download finds what its row named
  (`DownloadFinds`), the ceiling holds up to what was received at once (`QuotaBound`).
* Supervisor: a launch has one owner (`OneOwner`); nothing is renewed for a launch
  nobody has in hand (`BeatsInHand`); what is open or unsent is in hand
  (`Managed`) and is settled in the end (`SessionsSettle`); relays go with their
  browsers (`RelaysGo`).
* The organisation's key: nobody has it whom nobody let in (`AdmittedOnly`), and a
  rotation leaves no bundle behind (`BundlesCarried`).
* Accounts: an address is proven by the last letter (`AddressProven`); nobody who has
  had a factor since their sign-in began passes without a code but on the policy's
  own grounds, nor by guessing (`CodeAsked`); no request makes another owner or an
  admin the owner did not want, and a manager made a member gives nothing on but a
  profile they were handed to give on (`RightsHold`).
* A team's things: ceilings hold up to what was under way (`RoomKept`); a listed
  profile has its machine (`MachinesStand`); a form saves neither a mask nor half a
  login (`ProxiesIntact`).
* A machine's store: one seed, one profile (`SeedsApart`); sealed passwords outlive
  a keychain that does not answer (`SecretsKept`).
* Connections: nothing leaves from this machine but what a list allows
  (`NothingHere`); one tunnel a configuration, and dials only through a stack that
  is up (`OneTunnel`).
* Directories: an extension's storage is one side's or the other's, and no browser
  starts on what a pull left half unpacked (`NeverTheMix`);
  a jar is opened with its own key (`JarKept`); a bundle's jar is whole and its key
  sealed (`CopiesSound`).
* Claims: what the core is told is one machine that exists and one place, the
  exit's (`ClaimsAgree`).
* Agent's helpers: a plan stays in its bounds and counts only days it read on
  (`FarmBounded`); where a launch looks there is never part of a core
  (`CoreChecked`); mirrored windows do what is given out once in one order, and each
  hand keeps the operator's but for reports under way together (`SameOrder`); a
  window has an agent (`WindowServed`).

## 2. Modules

| Modules | Content | Proofs | For TLC |
|---|---|---|---|
| `BundleHistory`, `ProfileSync` | a profile's versions, and one team profile on several machines | `ProfileSyncProofs` | `MCProfileSync` |
| `BundleStore` | the server's rows and files | `BundleStoreProofs` | `MCBundleStore` |
| `AgentSupervisor` | one agent's running map and tasks | `AgentSupervisorProofs` | `MCAgentSupervisor` |
| `OrgKey`, `Enrolment`, `SignIn`, `Access`, `ProjectProfiles`, `OrgMachines`, `OrgProxies` | what the server keeps in its database | `TeamProofs`, `AccountProofs`, `ServerProofs` | `MCServer` |
| `LocalStore`, `Relay`, `Tunnel`, `Extensions`, `CookieJar`, `ProfileFiles`, `Persona`, `ExitFacts` | what a machine keeps and what its browsers do and say | `MachineProofs` | `MCMachine` |
| `Farm`, `CoreFiles`, `Mirror`, `Shell` | the agent's helpers and the shell | `AgentProofs` | `MCAgent` |

`MCServer`, `MCMachine` and `MCAgent` put components side by side that share no
variable: a behaviour is one component's, chosen at the start (`part`), and the
others stand still. The state space is the sum of the components' and not the
product, which interleaving them would make it; nothing is lost, because no
property relates two of them.

Modules whose components do share something repeat it, each at its own grain: a
launch is several actions of `ProfileSync`, others of `AgentSupervisor`, and one or
two of `Extensions`, `CookieJar` and `Persona`. That the grains agree is not proved.

A definition whose comment begins with "Mutant:" or "mutant" is not part of the
model: it is a plausible wrong version of the definition after it, kept to show
that the property named in `PROJECT.json` tells the two apart. A variable commented
"history" is read by properties only.

### ProfileSync

A browser's run is one *session*, numbered. The content of a directory or of a
bundle is the set of sessions whose work it contains: everything the properties
ask is which sessions are where. The variables are the lock row (`lockTok`,
`lockLeft`), the versions (`version`, `bundle`), the upload handlers between the
lock check and the transaction (`uploads`), and per machine the place in the code
(`phase`), its token and heartbeat task (`tok`, `beat`, `missed`), the version it
pulled or pushed (`base`), the directory (`local`), the version file (`held`),
the marker (`marker`) and the directories moved aside (`aside`).

| Actions | Code |
|---|---|
| `Acquire`, `AcquireUnanswered`, `MayTake`, `GrantRow` | `acquire_lock`, `take_and_launch` |
| `Beat` (`Renew`, `BeatLost`, `BeatMissed`) | `heartbeat`, `keep_alive`, `Server::beat` |
| `LaunchStarts` ... `OpenBrowser`, `LaunchFails`, `UnlockAfterFailure` | `Agent::launch`, `fetch_bundle`, `decide`, `set_aside`, `take_and_launch` |
| `AskToClose`, `CloseBrowser`, `StartUpload`, `RefuseUpload`, `PushFails`, `ClearMarker`, `RecordPush`, `Mark`, `Release` | `Agent::stop`, `push_bundle`, `unsynced`, `release_lock` |
| `CloseAgain` | the shell's `stop` when the agent answers `stopped: false` (`commands.rs` 1825-1842) |
| `CommitUpload`, `StaleUpload`, `DropUpload` | `upload_bundle` after the lock check: the transaction, its 409, everything else that ends it |
| `Tick` | 30 s of the lease |
| `Crash` | power lost: process state gone, disk and server untouched |

Choices worth knowing:

* The lock check before the body and the transaction after it are two actions;
  the machine's wait for the answer is a third state. So an upload may be recorded
  after its sender gave up, after the lock changed hands, or never.
* `set_aside` is its three file operations, and a crash may fall between them.
* Unpacking writes over the directory file by file: from its first file to its
  last, `local` is empty, because nothing in it can be counted on.
* A heartbeat that has come due is sent or missed before the next tick, and the
  local hand-over from shell to agent takes no tick. Everything else may take any
  number of ticks. A renewal takes effect when it is sent. One that hangs (its
  timeout is 300 s) is as many missed beats as the periods it hangs for.
* Anybody in `Forcers` may force. The three other places that delete a lock row
  act on the holder like a force, and are not separate actions.
* The refusal of an upload for its size, quota, digest or key generation is one
  case of `DropUpload`, possible when `Lossy`.
* A server too old to answer 304 is recognised by its version
  (`ipc.rs` 3158) and ends like a 304.

### BundleHistory

`Publish` numbers a version one more than the last, keeps all earlier ones as
they were, and keeps the last one's sessions in the new one. `ProfileSync`
implements it with the identity mapping on `version` and `bundle`.

`BundleStore` implements it once for every profile, with what each version was
published with as the bundle: the abstract history stays when a version's row and
file are pruned.

### BundleStore

`ProfileSync` takes a commit as one step of one profile. Here it is taken apart: a
version is a row of the database (`rows`), a file of the same name (`file`) and
`current_version` (`current`). `rowLock` is who has the profile's row FOR UPDATE. A
handler goes through `stage`: receiving into its staging file (`incoming`), locked,
moved (its file has the version's name and `bundle_guard` stands), then pruning after
a commit, rolling after a refusal, or torn.

| Actions | Code |
|---|---|
| `Begin`, `Stops` | the checks, `org_used`, the stream, and every way out before the version check has passed |
| `TakesRow`, `Moves`, `MoveFails` | FOR UPDATE with the base check; the rename |
| `Fails`, `RollsBack` | the generation check refuses or the client goes: the guard drops, then the transaction |
| `Commits`, `Prunes`, `Answers` | the transaction; `remove_file` of the stale versions, one by one; the answer |
| `Aborts`, `CommitsUnheard`, `DropsLate` | the transaction ends without its handler knowing: PostgreSQL aborted it, or COMMIT took effect and the answer never came; the guard drops afterwards |
| `ReadsRow`, `ReadsFile` | `download_bundle` |
| `DeletesProfile`, `RestoresProfile`, `ListsTrash`, `PurgesBytes`, `PurgesRow` | the trash |
| `Restarts` | the server killed and started, with `sweep_abandoned_uploads` |

Choices worth knowing:

* The profile lock and the permissions are not here: a lease can lapse under an upload
  that passed its check, so any upload for a profile outside the trash may begin,
  from any version there has been.
* Bundles are of one size, and `Ceiling` counts them. The check while streaming then
  is `used < Ceiling`, at the end of the body.
* A removal may fail, which the code logs (`Unlink`, `Unstage`); `mishap` remembers
  that, or a kill, happened, and `NoLitter` then promises nothing.
* `purged` and `torn` remember the two ways in which a row can lose its file: a purge
  under a stale trash screen, and a guard dropped after its transaction ended
  (`torn`: with the lock gone, the name may by then be the next upload's). The
  properties except exactly those names, and no others; `v_purge` shows the first.
  They are history only: no guard reads them.
* A purge is asked for on a trash screen (`listed`), since that is where the shell
  offers it. `remove_dir_all` removes all or is not modelled: one that stops half way
  leaves a profile in the trash with some of its files.
* A download answered 304 reads the row and no file.
* `number` names the staging file, for which the code takes a fresh UUID.

### AgentSupervisor

Launches are numbered. `running[p]` is the launch whose entry the map holds;
`browser`, `relay`, `beat` and `settled` say what has become of each launch's
process, tasks and session. Each caller (a connection, an HTTP request, the farm)
and the reaper is a task with a place (`pc`), the launch it is making (`mine`) and
the launch it took out of the map (`taken`). An action is what a task does
between two awaits.

| Actions | Code |
|---|---|
| `BeginClosed`, `BeginUnreaped` | the head of `Agent::launch`: heartbeat guard, map check, tidying up |
| `FailEarly`, `ServeRelay`, `FailLate`, `SpawnBrowser`, `FailSpawned`, `Insert` | the rest of it, in order, with its early returns |
| `ErrandEnds`, `ErrandFails` | `profile.cookies.export/import` and `farm_local` around a launch |
| `CallStop`, `StopsNothing`, `TakesEntry`, `ClosesBrowser`, `Settles` | `Agent::stop` |
| `BrowserExits` | the person closes the window, or the browser crashes (outside the code) |
| `ReaperLooks`, `ReaperStops`, `ReaperEnds` | `start_reaper` |
| `ShellQuits`, `Shutdown`, `CancelExit`, `ExitNow` | `agent.shutdown` with and without `when_idle`, the store in `dispatch`, the delayed exit |

`Settles` is the whole of pack, push, marker and unlock, which `ProfileSync` takes
apart. A `try_wait` that fails (an error of the operating system on a child the
process owns) and a core download in `idle` are left out.

### The server's parts (`MCServer`)

A request that checks in one statement and writes in another is two actions, with
what it read parked in between (`rot`, `hand`, `asking`, `parked`, `jobs`,
`awaits`, `sent`); a handler that runs in a transaction holding its row is one.

| Module | What its actions are | What is left out |
|---|---|---|
| `OrgKey` | enrolment, sign-in with its key, sealing for a newcomer (`SealsFor`), the hand-over in two steps (`ReadsGeneration`, `HandsOver`), a rotation (`AsksMaterial`, `ReadsRest`, `Checks`, `Commits`, with `Refused` and `RollsBack`), and the writers it races: `SavesProxy`, `SavesLogin`, `Uploads`, `Launches` | one proxy and one login stand for all, their payloads for what seals them; shares are carried along by the same code |
| `Enrolment` | `Invites`, `SendsLetter`, `Verifies`, `Completes`, the clocks, and open sign-up in two steps | addresses, mail |
| `SignIn` | a sign-in, a step for each statement of `login`: the user's row with its secret (`LogsIn`), the policy (`IsAdmitted`), the password and whether the factor is on (`GoodPassword`), the machine looked up in the journal (`WeighsMachine`), then a challenge (`OpensChallenge`) or a session (`IssuesBare`), then the line in the journal; codes the same way (`PresentsCode`, `RightCode`/`WrongCode`, `IssuesProved`, `JournalsProved`); factor read and written apart, policies, step-up window, revocations | the arithmetic of a code |
| `Access` | role changes, removals, grants, own roles, shares: each asked (`Asks...`) and written; a share is remembered with its giver's role when checked and with whether "manage" had been handed to the giver with the profile (`lent`) | nine of the permissions are one; one project, one profile |
| `ProjectProfiles` | `AsksCreate`, `AsksClone`, `Inserts` once a copy, moves, trash, restore, purge | rows are counted, not told apart |
| `OrgMachines` | a captured machine and the profiles on it | what the machine is (`Persona`) |
| `OrgProxies` | `OpensForm`, `SavesForm`, `EditsProxy`, and a row deleted or re-owned between them | tags, notes, checks |

A key is named by the generation the server gave it. The server never sees keys:
it stores wrapped copies, and what a copy contains is known only to the model.

### A machine's parts (`MCMachine`)

| Module | What its actions are | What is left out |
|---|---|---|
| `LocalStore` | folders, profiles, proxies and their trash; `ClonesRow`, `AsksReseed`/`Reseeds` (the map is looked at first), `ShowsProxy`/`SavesProxy` with the vault answering or not, `Exports`/`Imports` | names, notes; the fields of a persona |
| `Relay` | a connection from `HandlesClient` through the lists, `ResolvesHere`, `DialsHere`, the upstream's greeting and login, to `Closes`; what a name resolves to is chosen anew at each look | bytes; a host is the entries of the lists that name it |
| `Tunnel` | `TakesHold` (the Arc), `BeginsStack` and `StartEnds` (the OnceCell), `Dials`, `PeerAnswers`, `Leaves`, `Dropped`, `TaskEnds` | packets |
| `Extensions` | installs from a file, from the store in a batch that holds the map (`BatchBegins`, `InstallsNext`), copies of storage and their failing half way, launches and stops around them; a pull unpacks file by file (`UnpackBegins`, `UnpackEnds`) and records the version after the last, so one that fails or is killed leaves storage that is "torn" | the archive; a torn directory is one state, whichever files were written |
| `CookieJar` | the marker compared before the pull (`ComparesMarker`), the pull, browsing (`Browses`), the marker written, the stop; a local profile sent to the team in between | locks and lost answers: one machine at a time has the profile |
| `ProfileFiles` | pack, uploadTo, unpack, trim and import, each looking at the map once (`Begins`), then reading, sealing, writing; a browser running before it is in the map and after it has left it; the keychain asked again | the archive walk |
| `Persona` | `KeepsPersona` (a capture, in the agent or by the shell), `Previews`, `Upserts`, `ReadsRow`, `Opens`/`IsRefused` | driver strings, names, versions; a launch's two readings of the folder are one |
| `ExitFacts` | `EditsAddress`, `AsksCheck`/`CheckLands`, `ExitMoves`, `ReadsProfile`, `ResolvesExit`, `Starts` | what a place is: a country, a clock and a position are the place they belong to |

`Persona` holds pure functions: `FromCapture`, `Expanded`, `Pinned`, `CoreConfig`
and the two checks `Validates` and `CheckCoreConfig`, translated from
`capture.rs`, `catalogue.rs`, `overrides.rs`, `persona.rs` and `fingerprint.rs`.
Their reference is `Consistent`: what a page that looks for contradictions checks.

### The agent's helpers (`MCAgent`)

| Module | What its actions are | What is left out |
|---|---|---|
| `Farm` | a pass of the loop over every plan (`Passes`: one mutex), local sessions it starts itself (`Launches`, `Warms`), the window's claims (`Claims`, `WindowStarts`), a run's end, its report and its closing up apart, restarts that read the saved plans | clocks: what they say of a session is chosen anew in every pass; two ended runs of one profile that agree in everything are one |
| `CoreFiles` | a press, its task, fetch, clear, unpack, the two renames, the record; browsers opening and closing, and the agent dying between any two | sizes, hashes |
| `Mirror` | a report, the task that fans it out (`FansOut`) in whichever order tasks come, each connection's hand, which takes from its queue (`Takes`), sends, and sees it performed or gives it up (`Performs`, `GivesUp`); mutes that end at any time, before the echo too (`Unmutes`); joining, arming, leaving, stopping | page coordinates, address bar |
| `Shell` | each call that looks for an agent (`Polls`, `Asks`, `Dismisses`, `Watches`, `Spawns`), a process from start to socket to exit, the update, a window quitting and starting | the installer |

## 3. Runs

Ten runs must pass, two must find the property violated. Every property is about
some hazard of `PROJECT.json`, and has a mutant of the model that TLC finds out.

| Run | Instance | Question |
|---|---|---|
| `sync_excl` | 3 machines, any may lose power, small files may fail to be written, requests lost, 1 missed beat in a row, nobody forces | `OneBrowser`; `HistoryInv`, which is inductive |
| `sync_keep` | 2 machines that force, close twice and lose requests; no power loss, no failing disk | `NoSessionLost`, refinement of `BundleHistory` |
| `sync_live` | 2 machines that force, crash, close twice, lose requests; with fairness | `TypeOK`, `LockComesFree`, `StopEnds` |
| `sup_many` | 2 profiles (one a team's), 2 callers, the reaper, a database that may refuse, 3 launches | `OneOwner`, `BeatsInHand` |
| `sup_live` | the same with 1 caller and a working database; with fairness | `Managed`, `SessionsSettle`, `RelaysGo` |
| `store_keep` | 1 profile, 2 handlers, a reader, `Keep = 2`, purges, torn transactions, restarts | `NamedIsThere`, `NoLitter`, `DownloadFinds` |
| `store_quota` | 2 profiles of one organisation, 2 handlers, everything kept, a ceiling of one bundle | `QuotaBound`, refinement of `BundleHistory` for each profile |
| `server` | the seven parts of `MCServer` | types and `AdmittedOnly`, `BundlesCarried`, `AddressProven`, `CodeAsked`, `RightsHold`, `RoomKept`, `MachinesStand`, `ProxiesIntact` |
| `machine` | the eight parts of `MCMachine` | types and `SeedsApart`, `SecretsKept`, `NothingHere`, `OneTunnel`, `NeverTheMix`, `JarKept`, `CopiesSound`, `ClaimsAgree` |
| `agent` | the four parts of `MCAgent`, with fairness for the shell | types and `FarmBounded`, `CoreChecked`, `SameOrder`, `WindowServed` |
| `v_jar` | 2 machines | the launch compares the key beside the jar before the pull, and a bundle may bring a jar and a marker of another key; `ipc.rs` 3307-3312 says this is what catches it |
| `v_overlap` | 2 local profiles, 2 callers | two launches of one profile both open a browser; `ipc.rs` 208 says what that does |

`PROJECT.json` "findings" quotes the lines and says what the two counterexamples
show. Nine further configurations are kept beside the runs, each with a
counterexample of its own; section 6 says what they show.

Every run switches deadlock checking off: a system whose users do nothing more
has stopped rightfully, and the bounded counters end every behaviour. That
nothing which must go on stops is the business of the liveness properties.

### Bounds

`MaxGrants`, `MaxSessions` and `MaxLaunches` cap the counters that would grow for
ever; `MaxMissed` caps the beats in a row that fail. With two machines, three
grants and three sessions there is room for the longest stories known: a session
that is not sent, a colleague who saves over it, and the first machine opening
again; or a force during an upload, followed by both uploads. `sync_excl` has a
third machine instead. Three launches let
one profile be opened, closed and reopened while another is being stopped.
`TTL = 3` is the code's 90 s in beats of 30 s. In `sync_excl`, `MaxMissed = 1` is
the largest value for which `OneBrowser` holds with that TTL: with two beats in a
row missed, the lease has ended by the time of the third attempt, and the grant of
another machine may precede it. The theorem says the same for every TTL
(`MaxMissed + 2 <= TTL`).

In `BundleStore`, `MaxUploads = 3` lets two uploads meet on one version and a third
come after either, which with `Keep = 2` is also the first that prunes. In
`store_keep` both handlers, a download and the trash work on one profile, because no
two profiles share a row, a file or a lock; what they share is the quota, so
`store_quota` has two, and a ceiling that the second upload meets. There nothing is
torn or purged, which would only lower the count.

`server`: an admin, a founder and a newcomer with three generations, two requests
on their way and one bundle, so that a rotation may be overtaken by a second one, a
hand-over and an upload (`MaxGen`, `MaxFlight`, `MaxBundles`); one invitation with
two letters and two attempts, two strangers signing up for the last place; two
sign-ins and two code requests of one user (a code request per sign-in is what
`WrongMax + 1` needs), and the policies a team may write (`Drafts`); three persons,
of whom one is the receiver of all grants (`Receiver`) and another of all shares
(`Borrower`), each with one request parked in all, so that what crosses it is a
step of the others without one; a share by somebody who was handed the profile needs
two borrowers, and is in `v_share` and in the theorem;
two handlers, a clone of two and a ceiling of three, so the second handler counts
before the first has written; two hands on one machine and two seats; two on one
proxy, with two addresses and the mask.

`machine`: two profiles, one folder, one proxy and two seeds (with `MaxSeeds`, the
third profile's seed is the import's); one connection at a time, for connections
share nothing but the lists; three users of one tunnel, of which the third
comes as the last of the others leaves; one local and one team extension profile, two
versions; two machines on one jar and two bundles; one file call at a time
(`FilesTypeOK`: two write over one another, which no property allows or forbids); two
edits around a preview and a launch; two addresses, two lands and two turns, enough
for a check of one address to land under the other.

`agent`: one plan over a local and a team profile with one of
everything counted, so every bound is met by the second (the parts of `FarmBounded`
on two plans and on two sessions of one are then the theorem's); two presses, one
crash; two windows in the group and one that joins and closes, the operator at work
in one of them (`Worked`), two acts and two of them given out (`MaxGiven`), so that
the echo of the first, when its mute has ended, may be given out in the place of the
second; two calls
and two processes, one death and one failed update.

Symmetry is used over machines, callers and handlers in runs that check no liveness.

### Fairness

`ProfileSync!Fairness`: time passes (`Tick`); a due beat is sent or fails; a machine
that has begun a launch or a stop gets on with it; an upload handler ends. These
are a clock, a tokio task with a timeout on every request (`Server::client`), and
straight-line code. No person's step is fair: nothing opens a browser, closes one
or forces a lock. A stop is fair only once the browser has been asked to close,
since `stop` waits ten seconds at most.

`AgentSupervisor!Fairness`: each task gets on with a launch or a stop it began, and
the reaper's loop goes round. Nobody has to call anything, no browser has to exit,
and the agent need not.

`MCAgent!Fairness` is `Shell`'s: the window polls (a timer in the interface), each
call and each process takes its next step, and an update goes on. Nobody has to open a
profile, quit or start an update.

## 4. Proofs

All proofs are checked by TLAPS (SMT, Zenon, and LS4 for the temporal steps). They
rest on each module's named ASSUME and on nothing else: it gives the constants their
types (`SyncAssumption`, `StoreAssumption`, `KeyAssumption`, ...), says which sets are
disjoint where the code's identifiers are, and which bounds are not zero. The bounds
that make TLC's instance finite are arbitrary numbers in the theorems.

Every safety property that a run checks is a theorem of its specification.

| Theorem | States | Needs |
|---|---|---|
| `ProfileSyncProofs!TypeCorrect`, `OneLine`, `Refinement` | `TypeOK`, `HistoryInv`, `ImplementsBundleHistory` | |
| `Exclusion` | `OneBrowser` | nobody forces or closes twice; `MaxMissed + 2 <= TTL` |
| `NothingLost` | `NoSessionLost` | no power loss, small writes succeed |
| `BundleStoreProofs!TypeCorrect`, `StoreCorrect` | `TypeOK`, the inductive `StoreInv` | |
| `NamedCorrect`, `NoLitterCorrect`, `DownloadCorrect`, `QuotaCorrect`, `StoreImplementsHistory` | `NamedIsThere`, `NoLitter`, `DownloadFinds`, `QuotaBound`, `ImplementsBundleHistory` | |
| `AgentSupervisorProofs!TypeCorrect`, `OwnersApart`, `NoStrayBeat` | `TypeOK`, `OneOwner`, `BeatsInHand` | |
| `AllManaged` | `Managed` | one caller, a database that takes its writes |
| `TeamProofs!KeySafe`, `KeyCarries` | `AdmittedOnly`, the action property `BundlesCarried` | |
| `ProfilesSafe`, `MachinesSafe`, `ProxiesSafe` | `RoomKept`, `MachinesStand`, `ProxiesIntact` | |
| `AccountProofs!EnrolSafe`, `SignInSafe`, `AccessSafe` | `AddressProven`, `CodeAsked`, `RightsHold` | |
| `ServerProofs!ServerPartsFollow`, `ServerTypes`, `ServerSafe` | `MCServer` implies each part's specification; `ServerTypeOK`; the parts' properties | |
| `MachineProofs!LocalSafe`, `LocalKeeps` | `SeedsApart`, the action property `SecretsKept` | |
| `RelaySafe`, `TunnelSafe`, `ExtensionsSafe`, `CookieJarSafe`, `FilesSafe`, `PersonaSafe`, `ExitSafe` | `NothingHere`, `OneTunnel`, `NeverTheMix`, `JarKept`, `CopiesSound`, the two halves of `ClaimsAgree` | |
| `PartsFollow`, `MachineTypes`, `MachineSafe` | `MCMachine` implies each part's specification; `MachineTypeOK`; the parts' properties | |
| `AgentProofs!CoreSafe`, `FarmSafe`, `MirrorSafe` | `CoreChecked`, `FarmBounded`, `SameOrder` | |
| `AgentPartsFollow`, `AgentTypes`, `AgentSafe` | the same for `MCAgent` | |

**One line.** That versions contain each other is not inductive: a new version is
what a machine sends, so whatever a machine takes for the current version must
contain it. `HistoryInv` says so for each place such a belief can live: the version
file, the marker, the version a launch pulled (`CurrentIsWhole`), an upload under
way (`UploadInv`), and the steps of a pull, during which no belief in the new
version may exist yet (`PullInv`: `held` and `marker` are older than `base`).
`CurInv` ties an upload's answer to the machine that sent it. The only step that
touches the line is `CommitUpload`; there the base check gives `u.base = version`
and `UploadInv` gives the rest. The refinement follows from the same step.

**Exclusion.** `LeaseInv` is the strengthening: from grant to close, the row carries
the machine's own token, its heartbeat is on, and
`lockLeft + missed + (a beat is due) >= TTL`. Every tick takes one from the first and
adds one to the last; a missed beat moves that one to the middle; a renewal starts
afresh. So while at most TTL - 2 beats in a row fail the row is live whenever
somebody else asks. Two machines with a browser open would both own the row's token,
and `TokenInv` makes them one.

**Nothing lost.** `Unmarked` is the strengthening: a directory without a marker that
is neither in use nor on its way to the server has nothing the server lacks. It is
what makes `Unpack`, the one step that destroys content, harmless; and it is false
as soon as power can fail, which is what `v_crash` shows. `HistoryInv` is used for
the steps that publish: what was in the current version stays in it.

**Rows and files.** `NamedIsThere` is not inductive: whether a removal hits a named
file depends on who may be removing. `StoreInv` says, for each stage of a handler, what
it knows of its profile (`Knows`): in a transaction its version is the one after
`current`, and after the rename its file is under that name; while pruning, its
stale versions have no rows and are older. `LockInv` makes two handlers in
transactions be on two profiles, so nobody else's rename or guard can reach the name.
So every removal is of a name above `current` (`Fails`), without a row (`Prunes`), in
`torn` (`DropsLate`) or under `purged`, and a commit finds its file there. The
refinement is the same commit: `version = current + 1`, and the base check makes the
new bundle contain the last.

**Quota.** `QuotaInv` counts rows and the uploads let in that may yet record one: an
upload is let in while the rows are below the ceiling, so letting it in cannot pass
the bound, and recording moves it from one count to the other.

**Downloads.** Between a download's two reads, the version it named stays in the
rows, or at least `Keep` newer ones were recorded, or the profile was purged
(`NameInv`). With `FileInv` that decides what the second read finds.

**Owners.** `OwnerInv` adds to `OneOwner` and `BeatsInHand` that unborn launches have
no parts, that the map holds an entry under its own profile, and that a task works on
launches of its own profile. The step that needs it is `Insert`, which may drop an
entry another launch had put there: the Drop of `Running` aborts its tasks.

**Managed.** With one caller, what a launch saw in the map is still true when it
inserts (`ClearInv`); with two it is not, which is `v_overlap`.

**No litter.** Given `TypeOK` and `StoreInv`, `NoLitter` is inductive by itself:
each way out of an upload takes its staging file and its renamed file with it or
leaves the renamed one to its row, and no handler's step touches what another has in
hand (`InOtherHands`, `LeavesNone`).

**The key.** `AdmittedOnly` is kept because whoever seals a key seals it for a
member's public key that an admitted admin looked up, which `KeyInv` carries as
types over generations. `BundlesCarried` needs `RotationInv`: once a rotation's
checks hold the organisation's row, the bundles its client was given are all there
are, and each of those under the old key is among those it re-wrapped. The mutant
that trusts the list of before the lock breaks exactly this.

**Accounts.** `LetterInv` counts wrong digits letter by letter: all of every letter
but the last, and the attempts of the last; so the bound is letters times attempts,
though a new letter sets the attempts back. `SignInInv` relates the journal to the
sessions (`KnownInv`: a line that says "ok" comes after the session it speaks of), a
sign-in to what it has read (`BareInv`: one on its way to a session without a code,
whose user has had a factor from its first statement on, has grounds for it already:
the policy it read, or a line it found), and
a challenge's wrong answers to the requests past its check (`TriesInv`): each such
request may still answer once, which is why the bound is `WrongMax` and one less
than the requests. What keeps the secret, the factor and the policy of one sign-in
consistent, though they are read apart, is that `kept` speaks of the whole time
between: a factor that was on throughout was on when each was read.
`ParkedInv` says what a parked request's check still guarantees
when it writes, and is as weak as that: it says nothing of the role the target had;
of a share it says that a member's was checked against what was handed to them.

**A team's things.** `RoomInv` counts rows and what handlers past their check are
still to insert; `Total` is the sum of a function over handlers, by the lemmas
`TotalIs`, `TotalChanges`, `TotalOfOthers`. `LooseInv` says of each profile on a
machine that is gone, live, in the trash or on its way in, that it is in `loose`.
`ShownInv` says what an open form shows while its row's host is unmoved, so that
undoing the mask finds the host, and `PairInv` that an edit writes no half.

**A machine's store.** Seeds are drawn in order, so a seed is new when it is larger
than every one in a row or in a file (`DrawnInv`). `SecretsKept` is an action
property and needs no invariant but the types.

**Connections.** `ResolvingInv`: what is being resolved here was let through by the
lists, and what resolved may be dialled. `TunnelInv`: the Arc is one, the OnceCell
has one starter, and a connection past it is on a stack that is up.

**Directories.** `MarkedInv`: storage this machine changed is marked as unsent, so a
pull unpacks over nothing of this machine's (`PulledInv`). `TornInv`: what is
being unpacked, or was torn, is of a version newer than the one held and the one
marked (both the server's, by `NotedInv`), so the next launch pulls it again and no
browser starts before. `MarkerInv`: a marker of
today's key stands beside a jar this machine can read, unless the directory was
unpacked into since (`fresh`); that exception is `v_jar`. `CallInv`: a call nothing
crossed has the directory to itself.

**Claims.** Every persona a machine can have is `Real`: shipped ones expanded,
captured ones, and whatever the operator pins (`ExpandedReal`, `CapturedReal`,
`PinnedReal`); and of a real one `CoreConfig` is one machine (`ConfigSound`), by
cases on the systems. `ExitFactsInv` says where the facts of a start come from: the
exit of the address it dials, or this machine when it dials none.

**Helpers.** `CoreInv`: one task is past its start, busy is set while it is, and what
it moves in was run. `FarmInv` adds to the bounds that what is in flight is among a
plan's targets, and that a track's days and the reports to come never exceed the runs
that read something (`Earned`); `TurnDecides` and `PassDecides` say what a pass
of the loop, a recursive function over a plan's targets, may decide. `MirrorInv`
follows each connection's line, what it has done, has sent and has to do, which
keeps the order things were given out in (`LinesInv`); what a window has to echo is
of a muted window, or in `late` (`HandInv`, `EchoInv`); a report under way has been
given to nobody, and was under way when anything later was done (`FreshInv`,
`BesideInv`). So `given` has an act that is given out once only once, and leaves the
operator's order only as `SameOrder` allows (`GivenInv`).

**Compositions.** `ServerPartsFollow`, `PartsFollow` and `AgentPartsFollow` prove
that each component's specification follows from the composed one, whose steps are
that component's steps or leave its variables alone; the parts' theorems then hold
of the composition, and the types by the part that moves.

### Only model-checked

The five liveness properties (`LockComesFree`, `StopEnds`, `SessionsSettle`,
`RelaysGo`, `WindowServed`): liveness under fairness is beyond the prover. That each
counterexample configuration has one is TLC's word too.

## 5. Not modelled, and why

* Encryption, the archive's layout, proxies' wire formats, packets: data and I/O. A
  bundle's nonces and its format version are checked by its own tests.
* Driver strings, the locale table, pasted proxy lists, importers' conversions:
  tables and text, whose rules are one line a case.
* The read-only calls of agent and server, the `mcp` bridge, the detect suite.
* Two deadlock hazards, which need locks across components: `ext.install` holds the
  running map's mutex over downloads (`ipc.rs` 1140; `Extensions` has the batch that
  holds it, and no other user of the mutex), and an upload locks profile then
  organisation, a rotation the other way round
  (`api.rs` 4941). PostgreSQL ends the ring by aborting one of the two, and that is
  modelled: `BundleStore!Aborts` and `RollsBack`, `OrgKey!RollsBack`.
* That a crash-free `ProfileSync!CommitUpload` is `BundleStore`'s transaction.
* A second process that shares the core's staging directory: `install-core` run from
  the command line while the agent downloads.
* Chromium patches, interface, site, release tools.

## 6. Where the code and its words part

Met while modelling. The first two are runs; the nine named configurations beside
them have counterexamples of their own (`v_mirror` one for each of its two
properties).

| Configuration | What happens | Said otherwise |
|---|---|---|
| `v_jar` | the key is compared before the pull that brings jar and marker | `ipc.rs` 3307-3312, `docs/06-profile-sync.md` 83-85 |
| `v_overlap` | two launches of one profile both open | `ipc.rs` 208 |
| `v_crash` | a session interrupted by a power loss is unpacked over once a colleague has saved | `docs/01-architecture.md` 188-190 |
| `v_release` | a second Close releases the lock before the push | `ipc.rs` 3461 |
| `v_purge` | a purge on a stale trash screen takes a live profile's files | `api.rs` 4979, 5069 |
| `v_import` | an imported profile keeps the exporter's `proxy_id` (`transfer.rs` 236) | `transfer.rs` 209-211 |
| `v_core` | a download that fails between the two renames leaves no browser (`install_core.rs` 118) | `install_core.rs` 59 |
| `v_farm` | a farming run closes a browser somebody opened meanwhile | `farm.rs` 28-30, `ipc.rs` 384-387 |
| `v_agents` | two agents serve; the second takes the address | `agent/src/ipc.rs` 548-553, `platform-rs/src/ipc.rs` 277 |
| `v_mirror` (`GroupKept`) | a window that is added to the group again is taken out by its old connection's end | `mirror.rs` 156 |
| `v_mirror` (`OperatorsOrder`) | each report is handled in a task of its own (307-309), and whichever takes the members' lock first is given out first: every window may do two keystrokes in the other order | `mirror.rs` 103-108, "five keystrokes in the right order" |
| `v_share` | "manage" on a profile, handed to a member or kept by a manager made one, lets them share it: a direct grant is added uncapped (`rbac_guard.rs` 99-102) | `shares.rs` 114-116, "a member cannot"; `rbac_guard.rs` 85-86, "still capped by the org role ceiling" |

Models except, by name, what the following let through:

* A password typed over while the keychain refuses is kept blank (`store.rs` 656-695);
  a proxy form opened blank and saved after the vault answers loses the password.
* A reseed changes a seed under a launch that has read the old one (`ipc.rs`
  2009-2016). `SeedsApart` does not speak of that launch.
* Bringing a profile back does not count the ceiling; a deleted project's profiles
  have no route back, though `delete_project` speaks of one.
* A machine removed while its profile is in the trash or being made leaves a profile
  that cannot be launched (`api.rs` 1704-1706).
* A form kept open while the host changes saves the mask as the host (`api.rs` 2726-2729).
* `profile.pack`, `uploadTo`, `import` and `trim` look at the running map once;
  `unpack` does not look. `bundle.rs` asks the vault twice, and it may answer between.
* Extensions are copied beside a launch, or half (`ipc.rs` 1204-1222), or from a
  profile whose pull stopped half way: `NeverTheMix` excepts what was copied so. What
  the pull itself left torn is no exception: no browser starts on it.
* An edit of a proxy's address keeps its recorded exit, and a check of an unsaved
  address is recorded under the stored row; a partial answer blanks what was known
  (`store.rs` 727-748).
* `retire_other_version` sets CHECKED though profiles were open; `agent.shutdown`
  exits after 300 ms whatever arrives.
* A launch that fails after its relay began to listen leaves the relay listening
  (`FailLate`, `ipc.rs` 2914); the reaper, working through the list it made, closes a
  profile that was reopened meanwhile (`ReaperStops`, 527); the agent exits when
  idle under a stop that still uploads, whose entry is no longer in the map
  (`ReaperEnds`, 533), which for that profile is what a power loss is in
  `ProfileSync`.
* In `Tunnel`, a stack whose task ended stays in its OnceCell: dials fail until the
  last user has gone.
* A mute is a timer, 600 ms from before an action's calls (`mirror.rs` 208-213), each
  of which may take ten seconds (253), or 1200 ms from its being queued (403): an echo
  that comes later is given out as an act of its own. A window that joins again is
  not muted, and while its old connection lives its page reports twice. `SameOrder`
  excepts such acts (`late`, `twice`), and, from the operator's order, those whose
  reports were under way together.
* A factor that is set up or confirmed between the statements of a sign-in is not
  asked for, for the secret is the one read first (`api.rs` 170) and whether it is on
  is read later (230); nor is one whose row could not be read then
  (`unwrap_or(false)`, 235). Such a sign-in gets a session without a code on an
  unknown machine. `CodeAsked` speaks of factors that were on from the first
  statement to the session and could be read.
* `CopiesSound` excepts what a launch or stop crossed, which is where hazard
  `ipc.rs` 2390 bites: the calls that do read a running browser's files are in the
  model, and no property forbids them.

## 7. Plan

1. Locks across components: the rows an upload and a rotation lock, and the map's
   mutex over downloads, each as a module in which everyone waiting on everyone is
   a state.
2. `BundleStore` composed with `ProfileSync`, whose `CommitUpload` it refines.
3. `AgentSupervisor` composed with `ProfileSync`'s stop.
4. A launch's read of a team's profile (`launch_spec`) beside the edits of it.
5. Action properties of the parts that have none: what a step of the trash, of a
   revocation or of a retirement may never do; theorems of them.
