---------------------------- MODULE MachineProofs ----------------------------
(* Theorems about what a machine keeps and the paths its browsers'          *)
(* connections take (MCMachine): of each component for every value of its   *)
(* constants, and of the specification that puts them side by side.         *)
EXTENDS MCMachine, FiniteSetTheorems, TLAPS

\* What holds no two different things holds one or none.
LEMMA AtMostOne ==
    ASSUME NEW S, \A x, y \in S : x = y
    PROVE  /\ Cardinality(S) <= 1
           /\ S # {} => Cardinality(S) = 1
<1>1. CASE S = {} BY <1>1, FS_EmptySet
<1>2. CASE S # {}
  <2> PICK x \in S : TRUE BY <1>2
  <2>1. S = {x} OBVIOUS
  <2>2. Cardinality({x}) = 1 BY FS_Singleton
  <2> QED BY <2>1, <2>2
<1> QED BY <1>1, <1>2

-----------------------------------------------------------------------------
(* LocalStore.                                                              *)

(* Every seed a row or a file has was drawn, and a drawn one is new.        *)
FileType == [seed : Seed, via : Exit \cup {NoExit, Away}]
RowType == [at : {"none", "live", "trash"}, in : Folder \cup {NoFolder},
            seed : Seed, via : Exit \cup {NoExit}]
DrawnInv ==
  /\ \A f \in Saved : row[f].seed <= seeds
  /\ \A e \in file : e.seed <= seeds

LocalInv == LocalTypeOK /\ file \subseteq FileType /\ DrawnInv /\ SeedsApart

\* Row numbers and seeds are numbers, and there is one to draw below the bound.
LEMMA StoreTypes ==
  /\ Saved \subseteq Nat /\ Seed \subseteq Nat /\ 0 \in Seed
  /\ \A n \in Seed : n < MaxSeeds => n + 1 \in Seed
BY StoreAssumption DEF Saved, Seed

\* An empty store.
LEMMA LocalStart == LocalInit => LocalInv
BY StoreTypes DEF LocalInit, LocalInv, LocalTypeOK, DrawnInv, SeedsApart, NoSaved, NoForm

\* A step that takes no seed from the generator, gives no row another's, and
\* reads no file keeps the seeds apart.
LEMMA SeedsStand ==
    ASSUME LocalInv, LocalTypeOK', \A f \in Saved : row'[f].seed \in {0, row[f].seed},
           UNCHANGED <<seeds, brought>>, file' \subseteq file
    PROVE  LocalInv'
<1> USE StoreTypes DEF LocalInv
<1>1. DrawnInv' BY DEF DrawnInv, LocalTypeOK
<1>2. SeedsApart' BY DEF SeedsApart, LocalTypeOK
<1> QED BY <1>1, <1>2

\* So does one that gives one row a seed just drawn, which is above all others.
LEMMA SeedDrawn ==
    ASSUME LocalInv, LocalTypeOK', NEW f \in Saved, seeds < MaxSeeds, seeds' = seeds + 1,
           row'[f].seed = seeds + 1, \A g \in Saved : g # f => row'[g] = row[g],
           UNCHANGED <<brought, file>>
    PROVE  LocalInv'
<1> USE StoreTypes DEF LocalInv, LocalTypeOK
<1>1. seeds \in Nat /\ \A g \in Saved : row[g].seed \in Nat BY StoreTypes
<1>2. DrawnInv'
  <2>1. \A g \in Saved : row'[g].seed <= seeds + 1 BY <1>1 DEF DrawnInv
  <2>2. \A e \in file : e.seed <= seeds + 1
    <3>1. \A e \in file : e.seed \in Nat /\ e.seed <= seeds BY DEF DrawnInv, FileType
    <3> QED BY <1>1, <3>1
  <2> QED BY <2>1, <2>2 DEF DrawnInv
<1>3. SeedsApart'
  <2>1. \A g \in Saved : g # f => row'[g].seed # row'[f].seed BY <1>1 DEF DrawnInv
  <2> QED BY <2>1 DEF SeedsApart
<1> QED BY <1>2, <1>3

\* One step per statement of the store: only profiles.upsert, clone, reseed and
\* an import write a seed (store.rs, ipc.rs).
LEMMA LocalStep == LocalInv /\ [LocalNext]_localVars => LocalInv'
<1> SUFFICES ASSUME LocalInv, [LocalNext]_localVars PROVE LocalInv'
  OBVIOUS
<1> USE StoreTypes, StoreAssumption DEF LocalInv
<1>1. CASE UNCHANGED localVars
  BY <1>1, SeedsStand DEF LocalTypeOK, localVars
<1>2. ASSUME NEW answer \in {"have", "failed"}, ReopensStore(answer) \/ Retries(answer) PROVE LocalInv'
  <2>1. LocalTypeOK' BY <1>2 DEF LocalTypeOK, ReopensStore, Retries
  <2> QED BY <1>2, <2>1, SeedsStand DEF ReopensStore, Retries
<1>3. ASSUME NEW x \in Exit, NEW typed \in BOOLEAN, AddsProxy(x, typed) PROVE LocalInv'
  <2>1. LocalTypeOK' BY <1>3 DEF LocalTypeOK, AddsProxy, Sealed
  <2> QED BY <1>3, <2>1, SeedsStand DEF AddsProxy
<1>4. ASSUME NEW x \in Exit, ShowsProxy(x) \/ DeletesProxy(x) PROVE LocalInv'
  <2>1. LocalTypeOK'
    <3>1. CASE ShowsProxy(x)
      <4> DEFINE has == exit[x].secret # "none" /\ CanOpen(exit[x].secret)
      <4>1. has \in BOOLEAN BY DEF CanOpen
      <4>2. shown' = [of |-> x, has |-> has] BY <3>1 DEF ShowsProxy
      <4> HIDE DEF has
      <4>3. shown' \in [of : Exit \cup {NoExit}, has : BOOLEAN] BY <4>1, <4>2
      <4> QED BY <3>1, <4>3 DEF LocalTypeOK, ShowsProxy
    <3>2. CASE DeletesProxy(x) BY <3>2 DEF LocalTypeOK, DeletesProxy
    <3> QED BY <1>4, <3>1, <3>2
  <2> QED BY <1>4, <2>1, SeedsStand DEF ShowsProxy, DeletesProxy
<1>5. ASSUME NEW typed \in BOOLEAN, SavesProxy(typed) PROVE LocalInv'
  <2>1. LocalTypeOK' BY <1>5 DEF LocalTypeOK, SavesProxy, Kept, Sealed, NoForm
  <2> QED BY <1>5, <2>1, SeedsStand DEF SavesProxy
<1>6. ASSUME NEW j \in Folder, CreatesFolder(j) PROVE LocalInv'
  <2>1. LocalTypeOK' BY <1>6 DEF LocalTypeOK, CreatesFolder
  <2> QED BY <1>6, <2>1, SeedsStand DEF CreatesFolder
<1>7. ASSUME NEW j \in Folder, DeletesFolder(j) PROVE LocalInv'
  <2>1. LocalTypeOK' BY <1>7 DEF LocalTypeOK, DeletesFolder
  <2>2. \A f \in Saved : row'[f].seed = row[f].seed BY <1>7 DEF LocalTypeOK, DeletesFolder
  <2> QED BY <1>7, <2>1, <2>2, SeedsStand DEF DeletesFolder
<1>8. ASSUME NEW fs \in SUBSET Saved, NEW j \in Folder \cup {NoFolder}, MovesRows(fs, j) PROVE LocalInv'
  <2>1. LocalTypeOK' BY <1>8 DEF LocalTypeOK, MovesRows
  <2>2. \A f \in Saved : row'[f].seed = row[f].seed BY <1>8 DEF LocalTypeOK, MovesRows
  <2> QED BY <1>8, <2>1, <2>2, SeedsStand DEF MovesRows
<1>9. ASSUME NEW f \in Saved, NEW j \in Folder \cup {NoFolder}, NEW x \in Exit \cup {NoExit}, AddsRow(f, j, x)
      PROVE LocalInv'
  <2>1. LocalTypeOK' BY <1>9 DEF LocalTypeOK, AddsRow
  <2> QED BY <1>9, <2>1, SeedDrawn DEF AddsRow, LocalTypeOK
<1>10. ASSUME NEW f \in Saved, NEW j \in Folder \cup {NoFolder}, NEW x \in Exit \cup {NoExit}, EditsRow(f, j, x)
      PROVE LocalInv'
  <2>0. [row[f] EXCEPT !.at = "live", !.in = j, !.via = x] \in RowType
    <3>1. row[f] \in RowType BY DEF LocalTypeOK, RowType
    <3> QED BY <3>1 DEF RowType
  <2>1. LocalTypeOK' BY <1>10, <2>0 DEF LocalTypeOK, EditsRow, RowType
  <2>2. \A g \in Saved : row'[g].seed = row[g].seed BY <1>10 DEF LocalTypeOK, EditsRow
  <2> QED BY <1>10, <2>1, <2>2, SeedsStand DEF EditsRow
<1>11. ASSUME NEW f \in Saved, NEW g \in Saved, ClonesRow(f, g) PROVE LocalInv'
  <2>0. seeds + 1 \in Seed BY <1>11 DEF LocalTypeOK, ClonesRow
  <2>1. row[f] \in RowType /\ Via(f) \in Exit \cup {NoExit} BY DEF LocalTypeOK, Via, RowType
  <2>2. CloneOf(f) \in RowType BY <2>0, <2>1 DEF CloneOf, RowType
  <2>3. LocalTypeOK' BY <1>11, <2>0, <2>2 DEF LocalTypeOK, ClonesRow, RowType
  <2>4. CloneOf(f).seed = seeds + 1 BY <2>1 DEF CloneOf, RowType
  <2> QED BY <1>11, <2>3, <2>4, SeedDrawn DEF ClonesRow, LocalTypeOK
<1>12. ASSUME NEW f \in Saved, AsksReseed(f) PROVE LocalInv'
  <2>1. LocalTypeOK' BY <1>12 DEF LocalTypeOK, AsksReseed
  <2> QED BY <1>12, <2>1, SeedsStand DEF AsksReseed
<1>13. ASSUME NEW f \in Saved, Reseeds(f) PROVE LocalInv'
  <2>1. LocalTypeOK' BY <1>13 DEF LocalTypeOK, Reseeds
  <2> QED BY <1>13, <2>1, SeedDrawn, SeedsStand DEF Reseeds, LocalTypeOK
<1>14. ASSUME NEW f \in Saved, Bins(f) \/ Unbins(f) \/ PurgesSaved(f) PROVE LocalInv'
  <2>1. LocalTypeOK' BY <1>14 DEF LocalTypeOK, Bins, Unbins, PurgesSaved, NoSaved
  <2>2. \A g \in Saved : row'[g].seed \in {0, row[g].seed}
    BY <1>14 DEF LocalTypeOK, Bins, Unbins, PurgesSaved, NoSaved
  <2> QED BY <1>14, <2>1, <2>2, SeedsStand DEF Bins, Unbins, PurgesSaved
<1>15. ASSUME NEW f \in Saved, OpensRow(f) \/ ClosesRow(f) PROVE LocalInv'
  <2>1. LocalTypeOK' BY <1>15 DEF LocalTypeOK, OpensRow, ClosesRow
  <2> QED BY <1>15, <2>1, SeedsStand DEF OpensRow, ClosesRow
<1>16. ASSUME NEW j \in Folder, Exports(j) PROVE LocalInv'
  <2>1. \A f \in Saved : Entry(f) \in FileType /\ Entry(f).seed <= seeds
    BY DEF Entry, Via, FileType, LocalTypeOK, DrawnInv
  <2>2. file' \subseteq FileType /\ \A e \in file' : e.seed <= seeds BY <1>16, <2>1 DEF Exports
  <2> QED BY <1>16, <2>2 DEF Exports, LocalTypeOK, DrawnInv, SeedsApart
<1>17. CASE Receives
  <2>1. seeds + 1 \in Seed BY <1>17 DEF Receives, LocalTypeOK
  <2>2. file' \subseteq FileType /\ \A e \in file' : e.seed <= seeds + 1
    BY <1>17, <2>1 DEF Receives, FileType
  <2>3. \A f \in Saved : row[f].seed <= seeds + 1
    <3>1. \A f \in Saved : row[f].seed \in Nat /\ row[f].seed <= seeds BY DEF DrawnInv, LocalTypeOK
    <3> QED BY <3>1 DEF LocalTypeOK
  <2> QED BY <1>17, <2>1, <2>2, <2>3 DEF Receives, LocalTypeOK, DrawnInv, SeedsApart
<1>18. ASSUME NEW j \in Folder, NEW f \in Saved, NEW x \in Exit \cup {NoExit}, Imports(j, f, x) PROVE LocalInv'
  <2> PICK e \in file :
        /\ folder' = [folder EXCEPT ![j] = "live"]
        /\ exit' = [y \in Exit |-> IF y = x THEN [at |-> "live", secret |-> Sealed] ELSE exit[y]]
        /\ IF e.via = Away
           THEN UNCHANGED <<row, brought>>
           ELSE /\ row' = [row EXCEPT ![f] = [at |-> "live", in |-> j, seed |-> e.seed, via |-> e.via]]
                /\ brought' = brought \cup {e.seed}
        /\ file' = {}
        /\ UNCHANGED <<vault, launched, shown, reseeding, seeds>>
    BY <1>18 DEF Imports, WrittenVia
  <2>1. e.seed \in Seed /\ e.via \in Exit \cup {NoExit, Away} /\ e.seed <= seeds
    BY DEF FileType, DrawnInv
  <2>2. LocalTypeOK'
    <3>1. folder' \in [Folder -> {"none", "live", "deleted"}] BY DEF LocalTypeOK
    <3>2. exit' \in [Exit -> [at : {"none", "live", "deleted"}, secret : {"none", "plain", "sealed"}]]
      BY DEF LocalTypeOK, Sealed
    <3>3. row' \in [Saved -> RowType]
      <4>1. CASE e.via = Away BY <4>1 DEF LocalTypeOK, RowType
      <4>2. CASE e.via # Away
        <5>1. [at |-> "live", in |-> j, seed |-> e.seed, via |-> e.via] \in RowType
          BY <2>1, <4>2 DEF RowType
        <5> QED BY <4>2, <5>1 DEF LocalTypeOK, RowType
      <4> QED BY <4>1, <4>2
    <3>4. brought' \subseteq Seed BY <2>1 DEF LocalTypeOK
    <3> QED BY <3>1, <3>2, <3>3, <3>4 DEF LocalTypeOK, RowType
  <2>3. CASE e.via = Away BY <2>2, <2>3, SeedsStand
  <2>4. CASE e.via # Away
    <3>1. DrawnInv' BY <2>1, <2>4 DEF DrawnInv, LocalTypeOK
    <3>2. SeedsApart' BY <2>1, <2>4 DEF SeedsApart, LocalTypeOK
    <3> QED BY <2>2, <3>1, <3>2
  <2> QED BY <2>3, <2>4
<1> QED
  BY <1>1, <1>2, <1>3, <1>4, <1>5, <1>6, <1>7, <1>8, <1>9, <1>10, <1>11, <1>12, <1>13, <1>14,
     <1>15, <1>16, <1>17, <1>18 DEF LocalNext

\* Two profiles of a machine never have one seed, but for one an import gave
\* (ipc.rs 1720-1727, 1793-1801).
THEOREM LocalSafe == LocalSpec => [](LocalTypeOK /\ SeedsApart)
<1>1. LocalInv => LocalTypeOK /\ SeedsApart BY DEF LocalInv
<1> QED BY <1>1, LocalStart, LocalStep, PTL DEF LocalSpec

\* Of the statements that write a proxy, upsert keeps a secret that does not
\* open unless something is typed over it, and the others write rows that
\* nothing names.
LEMMA SecretStep ==
  LocalTypeOK /\ [LocalNext]_localVars =>
    [\A x \in Exit : (vault = "failed" /\ exit[x].secret = "sealed" /\ ~ Unrouted(x))
       => exit'[x].secret # "none"]_localVars
<1> SUFFICES ASSUME LocalTypeOK, LocalNext, NEW x \in Exit, vault = "failed",
                    exit[x].secret = "sealed", ~ Unrouted(x)
             PROVE  exit'[x].secret # "none"
  OBVIOUS
<1>1. ASSUME NEW y \in Exit, NEW typed \in BOOLEAN, AddsProxy(y, typed) PROVE exit'[x].secret # "none"
  BY <1>1 DEF AddsProxy, LocalTypeOK
<1>2. ASSUME NEW typed \in BOOLEAN, SavesProxy(typed) PROVE exit'[x].secret # "none"
  BY <1>2 DEF SavesProxy, Kept, Sealed, CanOpen, LocalTypeOK
<1>3. ASSUME NEW y \in Exit, DeletesProxy(y) PROVE exit'[x].secret # "none"
  BY <1>3 DEF DeletesProxy, LocalTypeOK
<1>4. ASSUME NEW j \in Folder, NEW f \in Saved, NEW y \in Exit \cup {NoExit}, Imports(j, f, y)
      PROVE exit'[x].secret # "none"
  BY <1>4, StoreAssumption DEF Imports, LocalTypeOK
<1>5. CASE exit' = exit BY <1>5
<1> QED
  BY <1>1, <1>2, <1>3, <1>4, <1>5
  DEF LocalNext, ReopensStore, Retries, ShowsProxy, CreatesFolder, DeletesFolder, Exports, MovesRows,
      AddsRow, EditsRow, ClonesRow, AsksReseed, Reseeds, Bins, Unbins, PurgesSaved, OpensRow,
      ClosesRow, Receives

\* While the keychain does not answer no sealed password of a proxy somebody
\* uses is lost (store.rs 587-612, vault.rs 154-159).
THEOREM LocalKeeps == LocalSpec => SecretsKept
<1>1. LocalInv => LocalTypeOK BY DEF LocalInv
<1> QED BY <1>1, LocalStart, LocalStep, SecretStep, PTL DEF LocalSpec, SecretsKept

-----------------------------------------------------------------------------
(* Relay.                                                                   *)

(* A connection that is being resolved here is to a host no list refuses,   *)
(* and one that resolved may be dialled.                                    *)
ResolvingInv == \A c \in Client :
  LET l == line[c] IN
  /\ l.at \in {"resolving", "resolved"} =>
       (ReachedLocally(l.host) \/ way = "direct") /\ ~ Blocks(l.host) /\ l.to = "none"
  /\ l.at = "resolved" => MayDial(l.host, l.addrs)

RelayInv == RelayTypeOK /\ ResolvingInv /\ NothingHere

\* Moving on past the resolver, to an answer, to the upstream or to an open
\* stream, keeps the invariant: neither the address nor the host changes.
LEMMA StandsKeeps ==
    ASSUME RelayInv, NEW c \in Client, NEW at, Stands(c, at),
           at \in {"answered", "greeting", "login", "asking", "open"}
    PROVE  RelayInv'
<1> USE DEF RelayInv, Stands
<1>1. RelayTypeOK' BY DEF RelayTypeOK
<1>2. ResolvingInv' BY DEF RelayTypeOK, ResolvingInv, ReachedLocally, Blocks, MayDial, Merged
<1>3. NothingHere' BY DEF RelayTypeOK, NothingHere, ReachedLocally, Blocks, Merged
<1> QED BY <1>1, <1>2, <1>3

\* One step per action of the relay: what handle_client lets through to the
\* resolver is what dial_local or a direct dial may reach (relay.rs).
LEMMA RelayStep == RelayInv /\ [RelayNext]_relayVars => RelayInv'
<1> SUFFICES ASSUME RelayInv, [RelayNext]_relayVars PROVE RelayInv'
  OBVIOUS
<1> USE DEF RelayInv
<1>1. CASE UNCHANGED relayVars
  BY <1>1 DEF RelayTypeOK, ResolvingInv, NothingHere, relayVars, ReachedLocally, Blocks, MayDial, Merged
<1>2. ASSUME NEW c \in Client,
             \/ AnswersPage(c) \/ ConnectsUpstream(c) \/ Greets(c)
             \/ Authenticates(c) \/ Connects(c) \/ Fails(c)
      PROVE RelayInv'
  BY <1>2, StandsKeeps DEF AnswersPage, ConnectsUpstream, Greets, Authenticates, Connects, Fails
<1>3. ASSUME NEW c \in Client, Closes(c) PROVE RelayInv'
  <2>1. RelayTypeOK' BY <1>3 DEF RelayTypeOK, Closes, Waiting
  <2>2. ResolvingInv' BY <1>3 DEF RelayTypeOK, ResolvingInv, Closes, Waiting, ReachedLocally, Blocks, MayDial, Merged
  <2>3. NothingHere' BY <1>3 DEF RelayTypeOK, NothingHere, Closes, Waiting, Blocks, Merged
  <2> QED BY <2>1, <2>2, <2>3
<1>4. ASSUME NEW c \in Client, NEW scopes \in SUBSET Scope, ResolvesHere(c, scopes) PROVE RelayInv'
  <2>1. RelayTypeOK' BY <1>4 DEF RelayTypeOK, ResolvesHere
  <2>2. ResolvingInv' BY <1>4 DEF RelayTypeOK, ResolvingInv, ResolvesHere, ReachedLocally, Blocks, MayDial, Merged
  <2>3. NothingHere' BY <1>4 DEF RelayTypeOK, ResolvingInv, NothingHere, ResolvesHere, ReachedLocally, Blocks, Merged
  <2> QED BY <2>1, <2>2, <2>3
<1>5. ASSUME NEW c \in Client, NEW h \in Host, HandlesClient(c, h) PROVE RelayInv'
  <2>1. RelayTypeOK' BY <1>5 DEF RelayTypeOK, HandlesClient, FirstStep, Waiting
  <2>2. ResolvingInv' BY <1>5 DEF RelayTypeOK, ResolvingInv, HandlesClient, FirstStep, Waiting, ReachedLocally, Blocks, MayDial, Merged
  <2>3. NothingHere' BY <1>5 DEF RelayTypeOK, NothingHere, HandlesClient, Waiting, Blocks, Merged
  <2> QED BY <2>1, <2>2, <2>3
<1>6. ASSUME NEW c \in Client, NEW to \in Scope, DialsHere(c, to) PROVE RelayInv'
  <2>1. RelayTypeOK' BY <1>6 DEF RelayTypeOK, DialsHere
  <2>2. ResolvingInv' BY <1>6 DEF RelayTypeOK, ResolvingInv, DialsHere, ReachedLocally, Blocks, MayDial, Merged
  <2>3. NothingHere' BY <1>6 DEF RelayTypeOK, ResolvingInv, NothingHere, DialsHere, Resolved, ReachedLocally, Blocks, Merged, MayDial
  <2> QED BY <2>1, <2>2, <2>3
<1> QED BY <1>1, <1>2, <1>3, <1>4, <1>5, <1>6 DEF RelayNext

\* Every connection starts idle.
LEMMA RelayStart == RelayInit => RelayInv
BY DEF RelayInit, RelayInv, RelayTypeOK, ResolvingInv, NothingHere, Waiting

\* A profile's relay dials from this machine only the private address of a host a
\* @local list names or, without a proxy, a public one, and resolves no name the
\* lists refuse (relay.rs handle_client, dial_local; domains.rs).
THEOREM RelaySafe == RelaySpec => []NothingHere
<1>1. RelayInv => NothingHere BY DEF RelayInv
<1> QED BY <1>1, RelayStart, RelayStep, PTL DEF RelaySpec

-----------------------------------------------------------------------------
(* Tunnel.                                                                  *)

(* One Shared value is held, whoever holds none asks for nothing, and a     *)
(* stack is being started exactly while one of its holders starts it.       *)
HolderInv ==
  /\ \A g, h \in Tunnel : users[g] # {} /\ users[h] # {} => g = h
  /\ \A u \in Tenant : ~ Holding(u) => dial[u] = "none"
StarterInv == \A g \in Tunnel :
  /\ \A u, v \in users[g] : dial[u] = "starting" /\ dial[v] = "starting" => u = v
  /\ (\E u \in users[g] : dial[u] = "starting") <=> cell[g] = "starting"
ThroughInv == \A u \in Tenant, g \in Tunnel :
  Holds(u, g) /\ dial[u] \in {"taken", "open"} => cell[g] = "up"

TunnelInv == TunnelTypeOK /\ HolderInv /\ StarterInv /\ ThroughInv

\* Nobody holds a Shared value of the config yet.
LEMMA TunnelStart == TunnelInit => TunnelInv
BY DEF TunnelInit, TunnelInv, TunnelTypeOK, HolderInv, StarterInv, ThroughInv, Holding, Holds

\* One step per action: for_config finds the held value, a OnceCell has one
\* initialiser, which a dropped dial gives back, and a task that ended answers
\* all it was asked (wg_stack.rs).
LEMMA TunnelStep == TunnelInv /\ [TunnelNext]_tunnelVars => TunnelInv'
<1> SUFFICES ASSUME TunnelInv, [TunnelNext]_tunnelVars PROVE TunnelInv'
  OBVIOUS
<1> USE DEF TunnelInv, Holding, Holds
<1>1. CASE UNCHANGED tunnelVars
  BY <1>1 DEF TunnelTypeOK, HolderInv, StarterInv, ThroughInv, tunnelVars
<1>2. ASSUME NEW u \in Tenant, NEW g \in Tunnel, TakesHold(u, g) PROVE TunnelInv'
  <2>1. TunnelTypeOK' BY <1>2 DEF TunnelTypeOK, TakesHold
  <2>2. HolderInv' BY <1>2 DEF TunnelTypeOK, HolderInv, TakesHold, Found
  <2>3. StarterInv' BY <1>2 DEF TunnelTypeOK, HolderInv, StarterInv, TakesHold, Found
  <2>4. ThroughInv' BY <1>2 DEF TunnelTypeOK, HolderInv, ThroughInv, TakesHold
  <2> QED BY <2>1, <2>2, <2>3, <2>4
<1>3. ASSUME NEW u \in Tenant, NEW g \in Tunnel, Leaves(u, g) PROVE TunnelInv'
  <2>1. TunnelTypeOK' BY <1>3 DEF TunnelTypeOK, Leaves
  <2>2. HolderInv' BY <1>3 DEF TunnelTypeOK, HolderInv, Leaves
  <2>3. StarterInv' BY <1>3 DEF TunnelTypeOK, HolderInv, StarterInv, Leaves
  <2>4. ThroughInv' BY <1>3 DEF TunnelTypeOK, HolderInv, StarterInv, ThroughInv, Leaves
  <2> QED BY <2>1, <2>2, <2>3, <2>4
<1>4. ASSUME NEW g \in Tunnel, Dropped(g) PROVE TunnelInv'
  BY <1>4 DEF TunnelTypeOK, HolderInv, StarterInv, ThroughInv, Dropped
<1>5. ASSUME NEW u \in Tenant, NEW g \in Tunnel, Dials(u, g) PROVE TunnelInv'
  BY <1>5 DEF TunnelTypeOK, HolderInv, StarterInv, ThroughInv, Dials
<1>6. ASSUME NEW u \in Tenant, NEW g \in Tunnel, BeginsStack(u, g) PROVE TunnelInv'
  <2>1. TunnelTypeOK' BY <1>6 DEF TunnelTypeOK, BeginsStack
  <2>2. HolderInv' BY <1>6 DEF TunnelTypeOK, HolderInv, BeginsStack
  <2>3. StarterInv' BY <1>6 DEF TunnelTypeOK, HolderInv, StarterInv, BeginsStack
  <2>4. ThroughInv' BY <1>6 DEF TunnelTypeOK, ThroughInv, BeginsStack
  <2> QED BY <2>1, <2>2, <2>3, <2>4
<1>7. ASSUME NEW u \in Tenant, NEW g \in Tunnel, NEW ok \in BOOLEAN, StartEnds(u, g, ok) PROVE TunnelInv'
  <2>1. TunnelTypeOK' BY <1>7 DEF TunnelTypeOK, StartEnds
  <2>2. HolderInv' BY <1>7 DEF TunnelTypeOK, HolderInv, StartEnds
  <2>3. StarterInv' BY <1>7 DEF TunnelTypeOK, HolderInv, StarterInv, StartEnds
  <2>4. ThroughInv' BY <1>7 DEF TunnelTypeOK, StarterInv, ThroughInv, StartEnds
  <2> QED BY <2>1, <2>2, <2>3, <2>4
<1>8. ASSUME NEW u \in Tenant, NEW g \in Tunnel, Takes(u, g) PROVE TunnelInv'
  BY <1>8 DEF TunnelTypeOK, HolderInv, StarterInv, ThroughInv, Takes
<1>9. ASSUME NEW u \in Tenant, NEW g \in Tunnel, NEW ok \in BOOLEAN, PeerAnswers(u, g, ok) PROVE TunnelInv'
  BY <1>9 DEF TunnelTypeOK, HolderInv, StarterInv, ThroughInv, PeerAnswers
<1>10. ASSUME NEW g \in Tunnel, TaskEnds(g) PROVE TunnelInv'
  <2>1. TunnelTypeOK' BY <1>10 DEF TunnelTypeOK, TaskEnds
  <2>2. HolderInv' BY <1>10 DEF TunnelTypeOK, HolderInv, TaskEnds
  <2>3. StarterInv'
    <3>1. \A u \in Tenant : dial'[u] = "starting" <=> dial[u] = "starting"
      BY <1>10 DEF TunnelTypeOK, TaskEnds, Underway
    <3>2. \A h \in Tunnel : users'[h] = users[h] /\ (cell'[h] = "starting" <=> cell[h] = "starting")
      BY <1>10 DEF TunnelTypeOK, TaskEnds
    <3> QED BY <3>1, <3>2 DEF TunnelTypeOK, StarterInv
  <2>4. ThroughInv' BY <1>10 DEF TunnelTypeOK, ThroughInv, TaskEnds, Underway
  <2> QED BY <2>1, <2>2, <2>3, <2>4
<1>11. ASSUME NEW u \in Tenant, HangsUp(u) PROVE TunnelInv'
  BY <1>11 DEF TunnelTypeOK, HolderInv, StarterInv, ThroughInv, HangsUp
<1> QED BY <1>1, <1>2, <1>3, <1>4, <1>5, <1>6, <1>7, <1>8, <1>9, <1>10, <1>11 DEF TunnelNext

\* The invariant, said of any two, gives the property, which counts.
LEMMA TunnelGoal == TunnelInv => OneTunnel
<1> SUFFICES ASSUME TunnelInv PROVE OneTunnel
  OBVIOUS
<1>1. Cardinality({g \in Tunnel : users[g] # {}}) <= 1
  <2> DEFINE S == {g \in Tunnel : users[g] # {}}
  <2>1. \A x, y \in S : x = y BY DEF TunnelInv, HolderInv
  <2> QED BY <2>1, AtMostOne
<1>2. ASSUME NEW g \in Tunnel, cell[g] = "starting"
      PROVE  Cardinality({u \in users[g] : dial[u] = "starting"}) = 1
  <2> DEFINE S == {u \in users[g] : dial[u] = "starting"}
  <2>1. \A x, y \in S : x = y BY DEF TunnelInv, StarterInv
  <2>2. S # {} BY <1>2 DEF TunnelInv, StarterInv
  <2> QED BY <2>1, <2>2, AtMostOne
<1> QED BY <1>1, <1>2 DEF OneTunnel, TunnelInv, ThroughInv

\* A WireGuard key is never in two tunnels: one value of a config is held, one
\* user starts its stack, and what goes through it goes through a stack that is
\* up (wg_stack.rs for_config, Shared::stack).
THEOREM TunnelSafe == TunnelSpec => []OneTunnel
BY TunnelStart, TunnelStep, TunnelGoal, PTL DEF TunnelSpec

-----------------------------------------------------------------------------
(* Extensions.                                                              *)

(* Storage this machine changed is marked, and a pull that goes over what   *)
(* is there finds nothing of this machine's.                                *)
MarkedInv == \A f \in TeamApp : db[f] = "ours" /\ f \notin hurt => unsent[f] # NoVersion
PulledInv == \A f \in Keeper :
  /\ launch[f].at = "pulled" /\ f \notin hurt => db[f] \in {"none", "theirs", "torn"}
  /\ launch[f].at = "unpacking" /\ f \notin hurt => db[f] = "torn"
(* A launch that was answered knows the server's version.  Only a team      *)
(* profile's asks.                                                          *)
GotInv == \A f \in Keeper :
  /\ launch[f].at \in {"asking", "pulled", "unpacking"} => f \in TeamApp
  /\ f \in TeamApp /\ launch[f].at \in {"pulled", "unpacking", "starting", "open"} =>
       launch[f].got # NoVersion /\ launch[f].got <= latest[f]

(* The versions this machine wrote down are the server's.                   *)
Unknown(f, v) == v = NoVersion \/ v <= latest[f]
Behind(v, than) == v = NoVersion \/ v < than
NotedInv == \A f \in TeamApp :
  /\ Unknown(f, heldHere[f]) /\ Unknown(f, unsent[f])
  /\ launch[f].at = "asking" => launch[f].held = heldHere[f]
(* What is unpacked, and what was torn, is newer than both: the next launch *)
(* pulls it again, and no browser starts before.                            *)
TornInv == \A f \in Keeper :
  /\ launch[f].at \in {"pulled", "unpacking"} =>
       0 < launch[f].got /\ Behind(heldHere[f], launch[f].got)
         /\ Behind(unsent[f], launch[f].got)
  /\ db[f] = "torn" =>
       /\ f \in TeamApp /\ launch[f].at \notin {"starting", "open"}
       /\ 0 < latest[f] /\ Behind(heldHere[f], latest[f]) /\ Behind(unsent[f], latest[f])

MixedInv == \A f \in Keeper : db[f] = "mixed" => f \in hurt

ExtensionsInv ==
  ExtensionsTypeOK /\ MarkedInv /\ PulledInv /\ GotInv /\ NotedInv /\ TornInv /\ MixedInv

\* The absence of a .version file is no version.
LEMMA NoVersionApart == NoVersion \notin Numbered /\ \A f \in TeamApp : f \in Keeper
BY ExtensionsAssumption DEF NoVersion, Numbered, Keeper

\* Versions are numbers.
LEMMA NumberedNat == Numbered \subseteq Nat /\ NoVersion \in Nat
BY ExtensionsAssumption DEF NoVersion, Numbered

\* What is at most a number and is not that number is below it.
LEMMA NotAbove == \A i, n \in Nat : i <= n /\ i # n => i < n
OBVIOUS

\* Nothing is installed and nothing is marked.
LEMMA ExtensionsStart == ExtensionsInit => ExtensionsInv
<1> SUFFICES ASSUME ExtensionsInit PROVE ExtensionsInv
  OBVIOUS
<1> USE NoVersionApart DEF ExtensionsInit
<1>1. 0 \in Numbered BY ExtensionsAssumption DEF Numbered
<1>2. ExtensionsTypeOK BY <1>1 DEF ExtensionsTypeOK, Resting, Storage
<1>3. MarkedInv /\ PulledInv /\ GotInv /\ NotedInv /\ TornInv /\ MixedInv
  BY DEF MarkedInv, PulledInv, GotInv, NotedInv, TornInv, Unknown, Behind, MixedInv, Resting
<1> QED BY <1>2, <1>3 DEF ExtensionsInv

\* One step per action: copy_with_state marks what it writes into before the
\* next pull decides about it, set_aside takes a marked copy out of the way of
\* the unpacking, and a pull that stopped is begun again (ext.rs, unsynced.rs,
\* ipc.rs launch and stop).
LEMMA ExtensionsStep == ExtensionsInv /\ [ExtensionsNext]_appVars => ExtensionsInv'
<1> SUFFICES ASSUME ExtensionsInv, [ExtensionsNext]_appVars PROVE ExtensionsInv'
  OBVIOUS
<1> USE NoVersionApart, NumberedNat DEF ExtensionsInv, ExtensionsTypeOK
<1>1. CASE UNCHANGED appVars
  BY <1>1 DEF MarkedInv, PulledInv, GotInv, NotedInv, TornInv, Unknown, Behind, MixedInv, appVars
<1>2. ASSUME NEW f \in Keeper, RemovesApp(f) PROVE ExtensionsInv'
  BY <1>2 DEF RemovesApp, MarkedInv, PulledInv, GotInv, NotedInv, TornInv, Unknown, Behind, MixedInv
<1>3. ASSUME NEW f \in Keeper, LaunchAsks(f) PROVE ExtensionsInv'
  <2>1. ExtensionsTypeOK' BY <1>3 DEF LaunchAsks, Resting
  <2>2. MarkedInv' BY <1>3 DEF LaunchAsks, Resting, MarkedInv
  <2>3. PulledInv' BY <1>3 DEF LaunchAsks, Resting, PulledInv
  <2>4. GotInv' BY <1>3 DEF LaunchAsks, Resting, GotInv
  <2>5. NotedInv' BY <1>3 DEF LaunchAsks, Resting, NotedInv, Unknown
  <2>6. TornInv' BY <1>3 DEF LaunchAsks, Resting, TornInv, Behind
  <2>7. MixedInv' BY <1>3 DEF LaunchAsks, Resting, MixedInv
  <2> QED BY <2>1, <2>2, <2>3, <2>4, <2>5, <2>6, <2>7
<1>4. ASSUME NEW f \in Keeper, LaunchGivesUp(f) PROVE ExtensionsInv'
  <2>1. ExtensionsTypeOK' BY <1>4 DEF LaunchGivesUp, Resting
  <2>2. MarkedInv' BY <1>4 DEF LaunchGivesUp, Resting, MarkedInv
  <2>3. PulledInv' BY <1>4 DEF LaunchGivesUp, Resting, PulledInv
  <2>4. GotInv' BY <1>4 DEF LaunchGivesUp, Resting, GotInv
  <2>5. NotedInv' BY <1>4 DEF LaunchGivesUp, Resting, NotedInv, Unknown
  <2>6. TornInv' BY <1>4 DEF LaunchGivesUp, Resting, TornInv, Behind
  <2>7. MixedInv' BY <1>4 DEF LaunchGivesUp, Resting, MixedInv
  <2> QED BY <2>1, <2>2, <2>3, <2>4, <2>5, <2>6, <2>7
<1>5. ASSUME NEW f \in Keeper, EntersMap(f) PROVE ExtensionsInv'
  <2>1. ExtensionsTypeOK' BY <1>5 DEF EntersMap
  <2>2. MarkedInv' BY <1>5 DEF EntersMap, MarkedInv
  <2>3. PulledInv' BY <1>5 DEF EntersMap, PulledInv
  <2>4. GotInv' BY <1>5 DEF EntersMap, GotInv
  <2>5. NotedInv' BY <1>5 DEF EntersMap, NotedInv, Unknown
  <2>6. TornInv' BY <1>5 DEF EntersMap, TornInv, Behind
  <2>7. MixedInv' BY <1>5 DEF EntersMap, MixedInv
  <2> QED BY <2>1, <2>2, <2>3, <2>4, <2>5, <2>6, <2>7
<1>6. ASSUME NEW f \in Keeper, StopsUnsent(f) PROVE ExtensionsInv'
  <2>1. ExtensionsTypeOK' BY <1>6 DEF StopsUnsent, IsOpen, AfterUse, Resting, Storage
  <2>2. MarkedInv' BY <1>6 DEF StopsUnsent, IsOpen, AfterUse, Resting, MarkedInv, GotInv
  <2>3. PulledInv' BY <1>6 DEF StopsUnsent, IsOpen, AfterUse, Resting, PulledInv
  <2>4. GotInv' BY <1>6 DEF StopsUnsent, IsOpen, AfterUse, Resting, GotInv
  <2>5. NotedInv' BY <1>6 DEF StopsUnsent, IsOpen, AfterUse, Resting, NotedInv, Unknown, GotInv
  <2>6. TornInv' BY <1>6 DEF StopsUnsent, IsOpen, AfterUse, Resting, TornInv, Behind
  <2>7. MixedInv' BY <1>6 DEF StopsUnsent, IsOpen, AfterUse, Resting, MixedInv, TornInv
  <2> QED BY <2>1, <2>2, <2>3, <2>4, <2>5, <2>6, <2>7
<1>7. ASSUME NEW f \in Keeper, PushedElsewhere(f) PROVE ExtensionsInv'
  BY <1>7, ExtensionsAssumption DEF PushedElsewhere, Numbered, MarkedInv, PulledInv, GotInv, NotedInv, TornInv, Unknown, Behind, MixedInv
<1>8. ASSUME NEW f \in Keeper, NEW left \in BOOLEAN, InstallsFile(f, left) PROVE ExtensionsInv'
  BY <1>8 DEF InstallsFile, MarkedInv, PulledInv, GotInv, NotedInv, TornInv, Unknown, Behind, MixedInv
<1>9. ASSUME NEW f \in Keeper, NEW left \in BOOLEAN, NEW got \in Fetched, InstallsNext(f, got, left)
      PROVE ExtensionsInv'
  BY <1>9 DEF InstallsNext, MarkedInv, PulledInv, GotInv, NotedInv, TornInv, Unknown, Behind, MixedInv
<1>10. ASSUME NEW f \in Keeper, NEW g \in Keeper, CopyFails(f, g) PROVE ExtensionsInv'
  BY <1>10 DEF CopyFails, Storage, MarkedInv, PulledInv, GotInv, NotedInv, TornInv, Unknown, Behind, MixedInv
<1>11. ASSUME NEW f \in Keeper, NEW g \in Keeper, NEW midWrite \in BOOLEAN, CopiesState(f, g, midWrite)
       PROVE ExtensionsInv'
  <2>1. ExtensionsTypeOK' BY <1>11 DEF CopiesState, Copied, MarkedAt, Storage
  <2>2. MarkedInv' BY <1>11 DEF CopiesState, MarkedInv, MarkedAt, MayReceive
  <2>3. PulledInv' BY <1>11 DEF CopiesState, PulledInv, UnderWay
  <2>4. GotInv' BY <1>11 DEF CopiesState, GotInv
  <2>5. NotedInv' BY <1>11 DEF CopiesState, NotedInv, Unknown, MarkedAt
  <2>6. TornInv' BY <1>11 DEF CopiesState, TornInv, Behind, Copied, MarkedAt, NotedInv, Unknown, UnderWay
  <2>7. MixedInv' BY <1>11 DEF CopiesState, MixedInv, Copied, UnderWay, Writing
  <2> QED BY <2>1, <2>2, <2>3, <2>4, <2>5, <2>6, <2>7
<1>12. ASSUME NEW f \in TeamApp, PullDecides(f) PROVE ExtensionsInv'
  <2> PICK at \in {"starting", "pulled"} :
        /\ launch' = [launch EXCEPT ![f].at = at, ![f].got = latest[f]]
        /\ at = (IF Keeps(f) THEN "starting" ELSE "pulled")
    BY <1>12 DEF PullDecides
  <2>1. launch[f].held = heldHere[f] BY <1>12 DEF PullDecides, NotedInv
  <2>2. CASE at = "starting"
    <3>1. UNCHANGED <<app, db, unsent, heldHere, hurt, latest, batch>> /\ launch[f].at = "asking"
          /\ latest[f] \in {0, heldHere[f], unsent[f]}
      BY <1>12, <2>1, <2>2 DEF PullDecides, Keeps
    <3>2. ExtensionsTypeOK' BY <2>2, <3>1
    <3>3. MarkedInv' /\ MixedInv' BY <3>1 DEF MarkedInv, MixedInv
    <3>4. PulledInv' /\ GotInv' BY <2>2, <3>1 DEF PulledInv, GotInv
    <3>5. NotedInv' BY <2>2, <3>1 DEF NotedInv, Unknown
    <3>6. TornInv' BY <2>2, <3>1 DEF TornInv, Behind
    <3> QED BY <3>2, <3>3, <3>4, <3>5, <3>6
  <2>3. CASE at = "pulled"
    <3>1. /\ launch[f].at = "asking" /\ latest[f] \notin {0, heldHere[f], unsent[f]}
          /\ UNCHANGED <<latest, batch>>
          /\ \/ UNCHANGED <<app, db, unsent, heldHere, hurt>> /\ unsent[f] = NoVersion
             \/ /\ app' = [app EXCEPT ![f] = FALSE] /\ db' = [db EXCEPT ![f] = "none"]
                /\ unsent' = [unsent EXCEPT ![f] = NoVersion]
                /\ heldHere' = [heldHere EXCEPT ![f] = NoVersion] /\ hurt' = hurt \ {f}
      BY <1>12, <2>1, <2>3 DEF PullDecides, Keeps
    <3>2. ExtensionsTypeOK'
      <4>1. latest[f] \in Numbered OBVIOUS
      <4>2. launch' \in [Keeper -> [at : {"closed", "asking", "pulled", "unpacking", "starting", "open"},
              held : Numbered \cup {NoVersion}, got : Numbered \cup {NoVersion}]]
        BY <2>3, <4>1
      <4>3. /\ app' \in [Keeper -> BOOLEAN] /\ db' \in [Keeper -> Storage]
            /\ unsent' \in [Keeper -> Numbered \cup {NoVersion}]
            /\ heldHere' \in [Keeper -> Numbered \cup {NoVersion}] /\ hurt' \subseteq Keeper
        <5>1. CASE UNCHANGED <<app, db, unsent, heldHere, hurt>> BY <5>1
        <5>2. CASE db' = [db EXCEPT ![f] = "none"] /\ unsent' = [unsent EXCEPT ![f] = NoVersion]
          BY <3>1, <5>2 DEF Storage
        <5> QED BY <3>1, <5>1, <5>2
      <4> QED BY <3>1, <4>2, <4>3
    <3>3. MarkedInv' /\ MixedInv' BY <3>1 DEF MarkedInv, MixedInv
    <3>4. PulledInv' BY <2>3, <3>1 DEF PulledInv, MarkedInv, MixedInv, Storage
    <3>5. GotInv' BY <2>3, <3>1 DEF GotInv
    <3>6. NotedInv' BY <2>3, <3>1 DEF NotedInv, Unknown
    <3>7. TornInv'
      <4>1. /\ 0 < latest[f] /\ Behind(heldHere'[f], latest[f]) /\ Behind(unsent'[f], latest[f])
            /\ launch'[f].at = "pulled" /\ launch'[f].got = latest[f]
            /\ latest' = latest
        <5>1. latest[f] \in Nat /\ heldHere[f] \in Nat /\ f \in Keeper OBVIOUS
        <5>2. 0 < latest[f] BY <3>1, <5>1
        <5>3. Behind(heldHere'[f], latest[f])
          <6>1. heldHere[f] = NoVersion \/ heldHere[f] <= latest[f] BY DEF NotedInv, Unknown
          <6>2. heldHere[f] # latest[f] BY <3>1
          <6>3. heldHere'[f] = heldHere[f] \/ heldHere'[f] = NoVersion BY <3>1
          <6>4. heldHere[f] <= latest[f] => heldHere[f] < latest[f] BY <5>1, <6>2, NotAbove
          <6>5. heldHere'[f] = NoVersion \/ heldHere'[f] < latest[f] BY <6>1, <6>3, <6>4
          <6> QED BY <6>5 DEF Behind
        <5>4. Behind(unsent'[f], latest[f]) BY <3>1 DEF Behind
        <5> QED BY <2>3, <3>1, <5>1, <5>2, <5>3, <5>4
      <4>2. \A g \in Keeper \ {f} : /\ launch'[g] = launch[g] /\ db'[g] = db[g]
                                    /\ heldHere'[g] = heldHere[g] /\ unsent'[g] = unsent[g]
        BY <2>3, <3>1
      <4> QED BY <4>1, <4>2 DEF TornInv
    <3> QED BY <3>2, <3>3, <3>4, <3>5, <3>6, <3>7
  <2> QED BY <2>2, <2>3
<1>13. ASSUME NEW f \in TeamApp, NEW packed \in BOOLEAN, UnpackBegins(f, packed) PROVE ExtensionsInv'
  <2>1. ExtensionsTypeOK' BY <1>13 DEF UnpackBegins, NotHeldYet, Storage
  <2>2. MarkedInv' BY <1>13 DEF UnpackBegins, NotHeldYet, MarkedInv
  <2>3. PulledInv' BY <1>13 DEF UnpackBegins, NotHeldYet, PulledInv
  <2>4. GotInv' BY <1>13 DEF UnpackBegins, NotHeldYet, GotInv
  <2>5. NotedInv' BY <1>13 DEF UnpackBegins, NotHeldYet, NotedInv, Unknown
  <2>6. TornInv' BY <1>13 DEF UnpackBegins, NotHeldYet, TornInv, Behind, GotInv
  <2>7. MixedInv' BY <1>13 DEF UnpackBegins, NotHeldYet, MixedInv, PulledInv
  <2> QED BY <2>1, <2>2, <2>3, <2>4, <2>5, <2>6, <2>7
<1>14. ASSUME NEW f \in TeamApp, UnpackEnds(f) PROVE ExtensionsInv'
  <2>1. ExtensionsTypeOK' BY <1>14 DEF UnpackEnds, GotInv, Storage
  <2>2. MarkedInv' BY <1>14 DEF UnpackEnds, MarkedInv
  <2>3. PulledInv' BY <1>14 DEF UnpackEnds, PulledInv
  <2>4. GotInv' BY <1>14 DEF UnpackEnds, GotInv
  <2>5. NotedInv' BY <1>14 DEF UnpackEnds, NotedInv, Unknown, GotInv
  <2>6. TornInv' BY <1>14 DEF UnpackEnds, TornInv, Behind
  <2>7. MixedInv' BY <1>14 DEF UnpackEnds, MixedInv, PulledInv
  <2> QED BY <2>1, <2>2, <2>3, <2>4, <2>5, <2>6, <2>7
<1>15. ASSUME NEW f \in TeamApp, StopsPushed(f) PROVE ExtensionsInv'
  <2>1. ExtensionsTypeOK' BY <1>15, ExtensionsAssumption DEF StopsPushed, IsOpen, AfterUse, Resting, Numbered, Storage
  <2>2. MarkedInv' BY <1>15, ExtensionsAssumption DEF StopsPushed, IsOpen, AfterUse, Resting, MarkedInv
  <2>3. PulledInv' BY <1>15, ExtensionsAssumption DEF StopsPushed, IsOpen, AfterUse, Resting, PulledInv
  <2>4. GotInv' BY <1>15, ExtensionsAssumption DEF StopsPushed, IsOpen, AfterUse, Resting, GotInv
  <2>5. NotedInv' BY <1>15, ExtensionsAssumption DEF StopsPushed, IsOpen, AfterUse, Resting, NotedInv, Unknown, Numbered
  <2>6. TornInv' BY <1>15, ExtensionsAssumption DEF StopsPushed, IsOpen, AfterUse, Resting, TornInv, Behind, Numbered
  <2>7. MixedInv' BY <1>15, ExtensionsAssumption DEF StopsPushed, IsOpen, AfterUse, Resting, MixedInv
  <2> QED BY <2>1, <2>2, <2>3, <2>4, <2>5, <2>6, <2>7
<1>16. ASSUME NEW fs \in SUBSET Keeper, BatchBegins(fs) PROVE ExtensionsInv'
  BY <1>16 DEF BatchBegins, MarkedInv, PulledInv, GotInv, NotedInv, TornInv, Unknown, Behind, MixedInv
<1>17. ASSUME NEW f \in TeamApp, TeamBatch(f) PROVE ExtensionsInv'
  BY <1>16, <1>17 DEF TeamBatch
<1>18. CASE Killed
  <2>1. ExtensionsTypeOK' BY <1>18 DEF Killed, AfterUse, Running, Resting, Storage
  <2>2. MarkedInv' BY <1>18 DEF Killed, AfterUse, Running, Resting, MarkedInv
  <2>3. PulledInv' BY <1>18 DEF Killed, AfterUse, Running, Resting, PulledInv
  <2>4. GotInv' BY <1>18 DEF Killed, AfterUse, Running, Resting, GotInv
  <2>5. NotedInv' BY <1>18 DEF Killed, AfterUse, Running, Resting, NotedInv, Unknown
  <2>6. TornInv' BY <1>18 DEF Killed, AfterUse, Running, Resting, TornInv, Behind
  <2>7. MixedInv' BY <1>18 DEF Killed, AfterUse, Running, Resting, MixedInv, TornInv
  <2> QED BY <2>1, <2>2, <2>3, <2>4, <2>5, <2>6, <2>7
<1> QED
  BY <1>1, <1>2, <1>3, <1>4, <1>5, <1>6, <1>7, <1>8, <1>9, <1>10, <1>11, <1>12, <1>13, <1>14,
     <1>15, <1>16, <1>17, <1>18 DEF ExtensionsNext

\* An extension's storage is mixed only where a copy met a launch, failed half
\* way or came from a torn one, or a browser died with the agent; and no browser
\* starts on what a pull that stopped half way left (ipc.rs 1204-1222,
\* 3188-3190).
THEOREM ExtensionsSafe == ExtensionsSpec => []NeverTheMix
<1>1. ExtensionsInv => NeverTheMix BY DEF ExtensionsInv, NeverTheMix, MixedInv, TornInv
<1> QED BY <1>1, ExtensionsStart, ExtensionsStep, PTL DEF ExtensionsSpec

-----------------------------------------------------------------------------
(* CookieJar.                                                               *)

(* Beside the current marker lies a jar this machine reads, unless it was   *)
(* just unpacked; so it is once the browser ran, and only such a jar, or an *)
(* unmarked one, comes past the comparison.                                 *)
JarReads(m) == copy[m].jar \subseteq Readable(m)
MarkerInv == \A m \in Station :
  /\ copy[m].marker = "current" /\ m \notin fresh => JarReads(m)
  /\ opening[m] \in {"checked", "pulled"} /\ m \notin fresh => Fits(copy[m])
  /\ opening[m] \in {"up", "open"} => JarReads(m)

CookieJarInv == CookieJarTypeOK /\ MarkerInv /\ JarKept

\* Every directory is empty or an older Fury's, with no marker of today's key.
LEMMA CookieJarStart == CookieJarInit => CookieJarInv
<1> SUFFICES ASSUME CookieJarInit PROVE CookieJarInv
  OBVIOUS
<1> USE CookieJarAssumption DEF CookieJarInit
<1>1. Older \subseteq Place /\ Empty \in Place /\ \A p \in Older : p.marker # "current"
  BY DEF Older, Empty, Place, Key, Marker, Port
<1>2. remote \in [dir : Place, ver : BundleVersion, wrap : {"shared"} \cup Station]
  <2>1. \A p \in Older : [p EXCEPT !.port = "stale"] \in Place
    BY <1>1 DEF Place, Port
  <2> QED BY <1>1, <2>1 DEF NoBundle, BundleVersion
<1>3. copy \in [Station -> Place] /\ \A m \in Station : copy[m].marker # "current"
  <2>1. copy \in [Station -> {Empty}] \/ copy \in [Station -> Older] OBVIOUS
  <2>2. Empty.marker # "current" BY DEF Empty
  <2> QED BY <1>1, <2>1, <2>2
<1>4. based \in [Station -> BundleVersion \cup {NoBase}]
  BY <1>2
<1>5. CookieJarTypeOK
  BY <1>2, <1>3, <1>4 DEF CookieJarTypeOK, Port
<1>6. MarkerInv /\ JarKept
  BY <1>3 DEF MarkerInv, JarKept
<1> QED BY <1>5, <1>6 DEF CookieJarInv

\* One step per action: the comparison of the marker before the browser, the
\* marker written after it is up, the bundle unpacked in between (ipc.rs launch).
LEMMA CookieJarStep == CookieJarInv /\ [CookieJarNext]_jarVars => CookieJarInv'
<1> SUFFICES ASSUME CookieJarInv, [CookieJarNext]_jarVars PROVE CookieJarInv'
  OBVIOUS
<1> USE CookieJarAssumption DEF CookieJarInv, sentVars, JarReads, Readable, Fits
<1>1. CASE UNCHANGED jarVars
  BY <1>1 DEF CookieJarTypeOK, MarkerInv, JarKept, jarVars
<1>2. ASSUME NEW m \in Station, ComparesMarker(m) PROVE CookieJarInv'
  <2>1. CookieJarTypeOK' BY <1>2 DEF CookieJarTypeOK, ComparesMarker, Place, Port
  <2>2. MarkerInv' BY <1>2 DEF CookieJarTypeOK, MarkerInv, ComparesMarker, Place
  <2>3. JarKept' BY <1>2 DEF JarKept, ComparesMarker
  <2> QED BY <2>1, <2>2, <2>3
<1>3. ASSUME NEW m \in Station, Pulls(m) PROVE CookieJarInv'
  <2>1. CookieJarTypeOK'
    <3>1. ASSUME NEW p \in Place, NEW b \in Place PROVE Unpacked(p, b) \in Place
      BY DEF Unpacked, Over, Place
    <3>2. Empty \in Place BY DEF Empty, Place, Marker, Port
    <3>3. copy[m] \in Place /\ remote.dir \in Place /\ remote.ver \in BundleVersion
      BY DEF CookieJarTypeOK
    <3>4. copy' \in [Station -> Place] BY <1>3, <3>1, <3>2, <3>3 DEF CookieJarTypeOK, Pulls
    <3>5. based' \in [Station -> BundleVersion \cup {NoBase}]
      BY <1>3, <3>3 DEF CookieJarTypeOK, Pulls
    <3>6. leftHere' \in [Station -> BundleVersion \cup {NoBase}] /\ fresh' \subseteq Station
      BY <1>3 DEF CookieJarTypeOK, Pulls
    <3>7. opening' \in [Station -> {"closed", "checked", "pulled", "up", "open"}]
          /\ lock' \in {"none"} \cup Station
      BY <1>3 DEF CookieJarTypeOK, Pulls
    <3> QED BY <1>3, <3>4, <3>5, <3>6, <3>7 DEF CookieJarTypeOK, Pulls
  <2>2. MarkerInv' BY <1>3 DEF CookieJarTypeOK, MarkerInv, Pulls, Empty
  <2>3. JarKept' BY <1>3 DEF JarKept, Pulls
  <2> QED BY <2>1, <2>2, <2>3
<1>4. ASSUME NEW m \in Station, LaunchFails(m) PROVE CookieJarInv'
  BY <1>4 DEF CookieJarTypeOK, MarkerInv, JarKept, LaunchFails
<1>5. ASSUME NEW m \in Station, NEW cdp \in BOOLEAN, Browses(m, cdp) PROVE CookieJarInv'
  <2>1. CookieJarTypeOK' BY <1>5 DEF CookieJarTypeOK, Browses, PortNow, Place, Port
  <2>2. MarkerInv' BY <1>5 DEF CookieJarTypeOK, MarkerInv, Browses, Place
  <2>3. JarKept' BY <1>5 DEF CookieJarTypeOK, MarkerInv, JarKept, Browses, PortNow, Place
  <2> QED BY <2>1, <2>2, <2>3
<1>6. ASSUME NEW m \in Station, NEW ok \in BOOLEAN, WritesMarker(m, ok) PROVE CookieJarInv'
  <2>1. CookieJarTypeOK' BY <1>6 DEF CookieJarTypeOK, WritesMarker, Place, Marker
  <2>2. MarkerInv' BY <1>6 DEF CookieJarTypeOK, MarkerInv, WritesMarker, Place
  <2>3. JarKept' BY <1>6 DEF JarKept, WritesMarker
  <2> QED BY <2>1, <2>2, <2>3
<1>7. ASSUME NEW p \in Place, NEW signsIn \in BOOLEAN
      PROVE  /\ LeavesBehind(p, signsIn) \in Place /\ Packed(LeavesBehind(p, signsIn)) \in Place
             /\ LeavesBehind(p, signsIn).jar \subseteq {"current"}
             /\ LeavesBehind(p, signsIn).marker = p.marker
  BY DEF LeavesBehind, Packed, Place, Key, Port
<1>8. ASSUME NEW m \in Station, NEW signsIn \in BOOLEAN, NEW pushed \in BOOLEAN, Stops(m, signsIn, pushed)
      PROVE CookieJarInv'
  <2>0. copy[m] \in Place BY DEF CookieJarTypeOK
  <2> DEFINE left == LeavesBehind(copy[m], signsIn)
  <2>a. left \in Place /\ Packed(left) \in Place /\ left.jar \subseteq {"current"}
    BY <1>7, <2>0
  <2>b. copy' = [copy EXCEPT ![m] = left] BY <1>8 DEF Stops
  <2>1. CookieJarTypeOK'
    <3>1. copy' \in [Station -> Place] BY <2>a, <2>b DEF CookieJarTypeOK
    <3>2. remote' \in [dir : Place, ver : BundleVersion, wrap : {"shared"} \cup Station]
      <4>1. CASE pushed
        <5>1. remote.ver + 1 \in BundleVersion BY <1>8, <4>1 DEF CookieJarTypeOK, Stops, BundleVersion
        <5> QED BY <1>8, <2>a, <4>1, <5>1 DEF Stops
      <4>2. CASE ~ pushed BY <1>8, <4>2 DEF CookieJarTypeOK, Stops
      <4> QED BY <4>1, <4>2
    <3>3. based' \in [Station -> BundleVersion \cup {NoBase}]
      BY <1>8 DEF CookieJarTypeOK, Stops, BundleVersion
    <3>4. leftHere' \in [Station -> BundleVersion \cup {NoBase}]
      BY <1>8 DEF CookieJarTypeOK, Stops
    <3> QED BY <1>8, <3>1, <3>2, <3>3, <3>4 DEF CookieJarTypeOK, Stops, Port
  <2>2. MarkerInv' BY <1>8, <2>a, <2>b DEF CookieJarTypeOK, MarkerInv, Stops
  <2>3. JarKept' BY <1>8 DEF CookieJarTypeOK, JarKept, Stops
  <2> QED BY <2>1, <2>2, <2>3
<1>9. ASSUME NEW m \in Station, NEW signsIn \in BOOLEAN, Dies(m, signsIn) PROVE CookieJarInv'
  <2>0. copy[m] \in Place BY DEF CookieJarTypeOK
  <2>1. CookieJarTypeOK' BY <1>7, <1>9, <2>0 DEF CookieJarTypeOK, Dies, Port
  <2>2. MarkerInv' BY <1>7, <1>9, <2>0 DEF CookieJarTypeOK, MarkerInv, Dies
  <2>3. JarKept' BY <1>9 DEF CookieJarTypeOK, JarKept, Dies
  <2> QED BY <2>1, <2>2, <2>3
<1>10. ASSUME NEW b \in BOOLEAN, UsesMine(b) PROVE CookieJarInv'
  BY <1>10 DEF CookieJarTypeOK, MarkerInv, JarKept, UsesMine, teamVars
<1>11. CASE UploadMakes \/ UploadFails
  BY <1>11 DEF CookieJarTypeOK, MarkerInv, JarKept, UploadMakes, UploadFails, teamVars
<1>12. CASE UploadSends
  <2>1. CookieJarTypeOK' BY <1>12 DEF CookieJarTypeOK, UploadSends, Empty, Place, Key, Marker, Port, BundleVersion
  <2>2. MarkerInv' /\ JarKept' BY <1>12 DEF MarkerInv, JarKept, UploadSends
  <2> QED BY <2>1, <2>2
<1> QED
  BY <1>1, <1>2, <1>3, <1>4, <1>5, <1>6, <1>8, <1>9, <1>10, <1>11, <1>12 DEF CookieJarNext

\* No jar that lay here beside its key's marker is opened under another key, and
\* no launch answers with a port a bundle brought (ipc.rs 3092-3137, bundle.rs
\* 154-160).
THEOREM CookieJarSafe == CookieJarSpec => []JarKept
<1>1. CookieJarInv => JarKept BY DEF CookieJarInv
<1> QED BY <1>1, CookieJarStart, CookieJarStep, PTL DEF CookieJarSpec

-----------------------------------------------------------------------------
(* ProfileFiles.                                                            *)

CallType == [what : Call, at : {"checked", "read", "sealed"},
             jar : {"whole", "torn", "mixed"}, key : {"none", "wrapped", "bare"},
             crossed : BOOLEAN, retried : BOOLEAN]
MadeType == [jar : {"whole", "torn", "mixed"}, key : {"wrapped", "bare"},
           parts : SUBSET Travels, crossed : BOOLEAN, retried : BOOLEAN]

(* FilesTypeOK with the bound on the calls said of any two of them. *)
FilesTypes ==
  /\ process \in {"none", "starting", "mapped", "ending"} /\ there \subseteq Part
  /\ jar \in {"whole", "mixed"} /\ safe \in {"have", "failed"}
  /\ calls \subseteq CallType /\ (\A c, d \in calls : c = d)
  /\ made \subseteq MadeType

(* A call no launch and no stop has crossed has the directory to itself,    *)
(* and only one whose key the keychain did not give holds a bare one.       *)
CallInv == \A c \in calls :
  /\ c.what # "unpack" /\ ~ c.crossed => process = "none"
  /\ c.jar = "torn" => c.crossed
  /\ c.key = "bare" => c.what # "uploadTo" /\ (safe = "failed" \/ c.retried)
  /\ c.at = "sealed" => c.key # "none"

FilesInv == FilesTypes /\ CallInv /\ CopiesSound

\* No call is under way and nothing was packed.
LEMMA FilesStart == FilesInit => FilesInv
BY DEF FilesInit, FilesInv, FilesTypes, CallInv, CopiesSound

\* One step per action: a launch or a stop crosses the call that is under way,
\* and a bare key outlives its sealing only until the vault is asked whether it
\* is available (ipc.rs profile.pack, bundle.rs pack).
LEMMA FilesStep == FilesInv /\ [FilesNext]_filesVars => FilesInv'
<1> SUFFICES ASSUME FilesInv, [FilesNext]_filesVars PROVE FilesInv'
  OBVIOUS
<1> USE DEF FilesInv, Advances
<1>1. CASE UNCHANGED filesVars
  BY <1>1 DEF FilesTypes, CallInv, CopiesSound, filesVars
<1>2. ASSUME calls' = Crossed(calls), UNCHANGED <<safe, made>>,
             process' \in {"starting", "ending"}, there' \subseteq Part, UNCHANGED jar
      PROVE FilesInv'
  <2>1. \A d \in calls' : \E c \in calls : d = [c EXCEPT !.crossed = TRUE]
    BY <1>2 DEF Crossed
  <2>2. FilesTypes'
    <3>1. \A d, e \in calls' : d = e BY <2>1 DEF FilesTypes
    <3>2. \A c \in CallType : [c EXCEPT !.crossed = TRUE] \in CallType BY DEF CallType
    <3>3. calls' \subseteq CallType BY <2>1, <3>2 DEF FilesTypes
    <3> QED BY <1>2, <3>1, <3>3 DEF FilesTypes
  <2>3. CallInv' BY <1>2, <2>1 DEF FilesTypes, CallInv, CallType
  <2> QED BY <1>2, <2>2, <2>3 DEF CopiesSound
<1>3. CASE Spawns
  BY <1>2, <1>3 DEF Spawns, StagesTo, FilesTypes, Part
<1>4. CASE LeavesTheMap
  BY <1>2, <1>4 DEF LeavesTheMap, FilesTypes
<1>5. CASE EntersTheMap
  BY <1>5 DEF EntersTheMap, FilesTypes, CallInv, CopiesSound
<1>6. CASE IsGone
  BY <1>6 DEF IsGone, FilesTypes, CallInv, CopiesSound
<1>7. CASE AsksAgain
  <2>1. \A d \in calls' : \E c \in calls : d = [c EXCEPT !.retried = TRUE]
    BY <1>7 DEF AsksAgain
  <2>2. FilesTypes'
    <3>1. \A d, e \in calls' : d = e BY <2>1 DEF FilesTypes
    <3>2. \A c \in CallType : [c EXCEPT !.retried = TRUE] \in CallType BY DEF CallType
    <3>3. calls' \subseteq CallType BY <2>1, <3>2 DEF FilesTypes
    <3> QED BY <1>7, <3>1, <3>3 DEF AsksAgain, FilesTypes
  <2>3. CallInv' BY <1>7, <2>1 DEF AsksAgain, FilesTypes, CallInv, CallType
  <2> QED BY <1>7, <2>2, <2>3 DEF AsksAgain, CopiesSound
<1>8. ASSUME NEW what \in Call, Begins(what) PROVE FilesInv'
  <2>1. Begun(what) \in CallType BY DEF Begun, CallType
  <2>2. FilesTypes' BY <1>8, <2>1 DEF Begins, FilesTypes
  <2>3. CallInv'
    <3> DEFINE c == Begun(what)
    <3>1. /\ c.what = what /\ c.crossed = (process \in {"starting", "ending"})
          /\ c.jar = "whole" /\ c.key = "none" /\ c.at = "checked"
      BY DEF Begun
    <3>2. what # "unpack" => process # "mapped" BY <1>8 DEF Begins, MayBegin
    <3>3. calls' = {c} /\ process' = process /\ process \in {"none", "starting", "mapped", "ending"}
      BY <1>8 DEF Begins, FilesTypes
    <3> HIDE DEF c
    <3> QED BY <3>1, <3>2, <3>3 DEF CallInv
  <2> QED BY <1>8, <2>2, <2>3 DEF Begins, CopiesSound
<1>9. ASSUME NEW c \in calls, Reads(c) PROVE FilesInv'
  <2>1. FilesTypes' BY <1>9 DEF Reads, Now, FilesTypes, CallType
  <2>2. CallInv' BY <1>9 DEF Reads, Now, FilesTypes, CallInv, CallType
  <2> QED BY <1>9, <2>1, <2>2 DEF Reads, CopiesSound
<1>10. ASSUME NEW c \in calls, Seals(c) PROVE FilesInv'
  <2>1. FilesTypes' BY <1>10 DEF Seals, Wrap, FilesTypes, CallType
  <2>2. CallInv' BY <1>10 DEF Seals, Wrap, FilesTypes, CallInv, CallType
  <2> QED BY <1>10, <2>1, <2>2 DEF Seals, CopiesSound
<1>11. ASSUME NEW c \in calls, PutsOut(c) PROVE FilesInv'
  <2>1. FilesTypes' BY <1>11 DEF PutsOut, FilesTypes, CallInv, CallType, MadeType
  <2>2. CallInv' BY <1>11 DEF PutsOut, CallInv
  <2>3. CopiesSound' BY <1>11 DEF PutsOut, Available, FilesTypes, CallInv, CopiesSound, CallType
  <2> QED BY <2>1, <2>2, <2>3
<1>12. ASSUME NEW c \in calls, \/ Refuses(c) \/ Trims(c) \/ ImportsFiles(c)
                               \/ \E b \in made : Unpacks(c, b)
       PROVE FilesInv'
  <2>1. calls' = calls \ {c} /\ UNCHANGED <<process, safe, made>>
    BY <1>12 DEF Refuses, Trims, ImportsFiles, Unpacks
  <2>2. there' \subseteq Part /\ jar' \in {"whole", "mixed"}
    BY <1>12 DEF Refuses, Trims, ImportsFiles, Unpacks, Landed, FilesTypes, Part, MadeType, Travels
  <2> QED BY <2>1, <2>2 DEF FilesTypes, CallInv, CopiesSound
<1> QED
  BY <1>1, <1>3, <1>4, <1>5, <1>6, <1>7, <1>8, <1>9, <1>10, <1>11, <1>12 DEF FilesNext

\* Of any two calls said to be one, there is at most one.
LEMMA FilesGoal == FilesInv => FilesTypeOK /\ CopiesSound
<1> SUFFICES ASSUME FilesInv PROVE FilesTypeOK
  BY DEF FilesInv
<1>1. Cardinality(calls) <= 1 BY AtMostOne DEF FilesInv, FilesTypes
<1> QED BY <1>1 DEF FilesInv, FilesTypes, FilesTypeOK, CallType, MadeType

\* A bundle holds a torn jar only if a launch or a stop crossed its making, and
\* a bare key only if the keychain was asked again meanwhile (ipc.rs 2384-2473,
\* bundle.rs 335-343).
THEOREM FilesSafe == FilesSpec => [](FilesTypeOK /\ CopiesSound)
BY FilesStart, FilesStep, FilesGoal, PTL DEF FilesSpec

-----------------------------------------------------------------------------
(* ExitFacts.                                                               *)

Answered == Land \cup {Nowhere}
StartType == [at : {"idle", "read", "known"}, profile : Opened, address : Address \cup {Nowhere},
              facts : [Fact -> Places], uneven : BOOLEAN]
BrowserType == [zone : Places \cup {"pinned", Fallback}, speaks : Places \cup {Fallback} \cup Tag,
                ui : Places \cup {Fallback, "sw"} \cup Shipped, spot : Places \cup {"pinned"},
                through : Address \cup {Nowhere}, pinned : BOOLEAN, uneven : BOOLEAN]

ExitTypes ==
  /\ comesOut \in [Address -> Land] /\ px \in [address : Address, facts : [Fact -> Answered]]
  /\ check \in [address : Address \cup {Nowhere}, from : Answered]
  /\ start \in StartType /\ browser \in BrowserType
  /\ uneven \in BOOLEAN /\ turns \in 0 .. MaxTurns

(* Facts that are not uneven are one answer, or what is left of it, of the  *)
(* place their address comes out at.                                        *)
OneAnswer(facts, a) == \A f \in Fact : facts[f] \in {comesOut[a], Nowhere}

(* The row never says this machine's place, and what a start goes by is the *)
(* exit of its own address, or this machine's when it has none.             *)
ExitFactsInv ==
  /\ ~ uneven => OneAnswer(px.facts, px.address)
  /\ start.profile.proxied =>
       /\ start.address \in Address /\ start.facts \in [Fact -> Answered]
       /\ ~ start.uneven => OneAnswer(start.facts, start.address)
  /\ ~ start.profile.proxied =>
       start.address = Nowhere /\ (\A f \in Fact : start.facts[f] \in {Here, Nowhere})

ExitInv == ExitTypes /\ ExitFactsInv /\ OnePlace

\* The places, the facts and the words of a profile are told apart.
LEMMA ExitWords ==
  /\ Address # {} /\ Nowhere \notin Address /\ Here \notin Land
  /\ Nowhere \notin Land \cup {Here} /\ Fallback \notin Land \cup {Here}
  /\ "pinned" \notin Land \cup {Here} /\ Tag \cap (Land \cup {Here}) = {}
  /\ InTable \subseteq Land \cup {Here}
  /\ MaxTurns \in Nat
BY ExitAssumption

\* Nothing is known and nothing is open.
LEMMA ExitStart == ExitInit => ExitInv
<1> SUFFICES ASSUME ExitInit PROVE ExitInv
  OBVIOUS
<1> USE ExitWords
<1>1. (CHOOSE a \in Address : TRUE) \in Address OBVIOUS
<1>2. NoFacts \in [Fact -> Answered] /\ NoFacts \in [Fact -> Places] BY DEF NoFacts, Answered, Places
<1>3. Plain \in Opened BY DEF Plain, Opened, Nowhere
<1>4. Idle \in StartType BY <1>2, <1>3 DEF Idle, StartType
<1>5. Unopened \in BrowserType BY DEF Unopened, BrowserType, Places
<1>6. ExitTypes
  <2>1. px \in [address : Address, facts : [Fact -> Answered]]
    <3> HIDE DEF NoFacts
    <3> QED BY <1>1, <1>2 DEF ExitInit
  <2>2. check \in [address : Address \cup {Nowhere}, from : Answered]
    BY DEF ExitInit, NoCheck, Answered
  <2>3. comesOut \in [Address -> Land] BY DEF ExitInit
  <2>4. start \in StartType /\ browser \in BrowserType BY <1>4, <1>5 DEF ExitInit
  <2>5. uneven \in BOOLEAN /\ turns \in 0 .. MaxTurns
    <3>1. uneven \in BOOLEAN BY DEF ExitInit
    <3>2. turns \in 0 .. MaxTurns BY DEF ExitInit
    <3> QED BY <3>1, <3>2
  <2> QED BY <2>1, <2>2, <2>3, <2>4, <2>5 DEF ExitTypes
<1>7. ExitFactsInv
  BY DEF ExitInit, ExitFactsInv, OneAnswer, Idle, Plain, NoFacts
<1> QED BY <1>6, <1>7 DEF ExitInit, ExitInv, OnePlace

\* An answer says where it was asked from, or nothing.
LEMMA AnswersTyped ==
  ASSUME NEW p \in Land \cup {Here}, NEW facts \in Answers(p)
  PROVE  facts \in [Fact -> Places] /\ \A f \in Fact : facts[f] \in {p, Nowhere}
BY DEF Answers, Places

\* One step per action: the row takes one answer whole, and remembers whether it
\* is one of its own address; a start fills what its answer lacks from the row it
\* read of the same address (ipc.rs launch, resolve_exit; store.rs record_exit).
LEMMA ExitStep == ExitInv /\ [ExitNext]_exitVars => ExitInv'
<1> SUFFICES ASSUME ExitInv, [ExitNext]_exitVars PROVE ExitInv'
  OBVIOUS
<1> USE ExitWords DEF ExitInv
<1>0. CASE UNCHANGED exitVars
  BY <1>0 DEF exitVars, ExitTypes, ExitFactsInv, OneAnswer, OnePlace
<1>1. ASSUME NEW a \in Address, EditsAddress(a) PROVE ExitInv'
  <2>1. ExitTypes' BY <1>1 DEF EditsAddress, Turn, ExitTypes
  <2>2. ExitFactsInv'
    <3>1. px'.facts = px.facts /\ start' = start /\ comesOut' = comesOut
      BY <1>1 DEF EditsAddress, ExitTypes
    <3>2. ~ uneven' => px'.facts = NoFacts BY <1>1, <3>1 DEF EditsAddress, ExitTypes
    <3> QED BY <3>1, <3>2 DEF ExitFactsInv, OneAnswer, NoFacts
  <2> QED BY <1>1, <2>1, <2>2 DEF EditsAddress, OnePlace
<1>2. ASSUME NEW a \in Address, NEW p \in Land, ExitMoves(a, p) PROVE ExitInv'
  <2>1. start' \in StartType
    <3>1. start.uneven \/ (a = start.address /\ start.facts # NoFacts) \in BOOLEAN OBVIOUS
    <3> QED BY <1>2 DEF ExitMoves, ExitTypes, StartType
  <2>2. ExitTypes' BY <1>2, <2>1 DEF ExitMoves, Turn, ExitTypes
  <2>3. ExitFactsInv'
    <3>1. /\ start'.profile = start.profile /\ start'.address = start.address
          /\ start'.facts = start.facts
          /\ ~ start'.uneven => ~ start.uneven /\ (a = start.address => start.facts = NoFacts)
      BY <1>2 DEF ExitMoves, ExitTypes, StartType
    <3>2. /\ px' = px /\ ~ uneven' => ~ uneven /\ (a = px.address => px.facts = NoFacts)
      BY <1>2 DEF ExitMoves, ExitTypes
    <3>3. \A b \in Address : b # a => comesOut'[b] = comesOut[b] BY <1>2 DEF ExitMoves, ExitTypes
    <3>4. px' = px /\ px.address \in Address BY <1>2 DEF ExitMoves, ExitTypes
    <3>5. ~ uneven' => OneAnswer(px.facts, px.address)'
      BY <3>2, <3>3, <3>4 DEF ExitFactsInv, OneAnswer, NoFacts
    <3>6. start.profile.proxied /\ ~ start'.uneven => OneAnswer(start.facts, start.address)'
      BY <3>1, <3>3 DEF ExitFactsInv, OneAnswer, NoFacts
    <3> QED BY <3>1, <3>4, <3>5, <3>6 DEF ExitFactsInv, OneAnswer
  <2> QED BY <1>2, <2>2, <2>3 DEF ExitMoves, OnePlace
<1>3. ASSUME NEW a \in Address, AsksCheck(a) PROVE ExitInv'
  <2>1. ExitTypes' BY <1>3 DEF AsksCheck, Turn, ExitTypes, Answered
  <2>2. ExitFactsInv' BY <1>3 DEF AsksCheck, ExitFactsInv, OneAnswer
  <2> QED BY <1>3, <2>1, <2>2 DEF AsksCheck, OnePlace
<1>4. CASE CheckLands
  <2> PICK facts \in Answers(check.from) :
        Recorded(facts) /\ uneven' = ~ OfItsExit(check.address, check.from)
    BY <1>4 DEF CheckLands
  <2>1. check.from \in Answered BY DEF ExitTypes
  <2>2. facts \in [Fact -> Answered] /\ \A f \in Fact : facts[f] \in {check.from, Nowhere}
    BY <2>1 DEF Answers, Answered
  <2>3. px' = [px EXCEPT !.facts = facts] BY DEF Recorded
  <2>4. px'.address = px.address /\ px'.facts = facts /\ px' \in [address : Address, facts : [Fact -> Answered]]
    BY <2>2, <2>3 DEF ExitTypes
  <2>5. ~ uneven' => check.from = comesOut[px.address] BY DEF OfItsExit
  <2>6. ExitTypes' BY <1>4, <2>4 DEF CheckLands, NoCheck, ExitTypes, Answered, OfItsExit
  <2>7. ExitFactsInv' BY <1>4, <2>2, <2>4, <2>5 DEF CheckLands, ExitFactsInv, OneAnswer
  <2> QED BY <1>4, <2>6, <2>7 DEF CheckLands, OnePlace
<1>5. CASE CheckFails
  BY <1>5 DEF CheckFails, NoCheck, ExitTypes, Answered, ExitFactsInv, OneAnswer, OnePlace
<1>6. ASSUME NEW f \in Opened, ReadsProfile(f) PROVE ExitInv'
  <2>1. px.facts \in [Fact -> Answered] /\ px.facts \in [Fact -> Places] /\ px.address \in Address
    BY DEF ExitTypes, Answered, Places
  <2>2. NoFacts \in [Fact -> Places] BY DEF NoFacts, Places
  <2>3. f.proxied \in BOOLEAN BY DEF Opened
  <2>4. (f.proxied /\ uneven) \in BOOLEAN OBVIOUS
  <2>5. start' \in StartType BY <1>6, <2>1, <2>2, <2>4 DEF ReadsProfile, StartType
  <2>6. ExitTypes' BY <1>6, <2>5 DEF ReadsProfile, ExitTypes
  <2>7. ExitFactsInv'
    <3>1. CASE f.proxied BY <1>6, <2>1, <3>1 DEF ReadsProfile, ExitFactsInv, OneAnswer
    <3>2. CASE ~ f.proxied BY <1>6, <3>2 DEF ReadsProfile, ExitFactsInv, OneAnswer, NoFacts
    <3> QED BY <3>1, <3>2
  <2> QED BY <1>6, <2>6, <2>7 DEF ReadsProfile, OnePlace
<1>7. CASE ResolvesExit
  <2> PICK facts \in Answers(AskedFrom) :
        /\ start' = [start EXCEPT !.at = "known", !.facts = MergedFacts(facts)]
        /\ IF start.profile.proxied
           THEN /\ Recorded(facts) /\ uneven' = ~ OfItsExit(start.address, AskedFrom)
           ELSE UNCHANGED <<px, uneven>>
    BY <1>7 DEF ResolvesExit
  <2>1. AskedFrom \in Land \cup {Here} BY DEF AskedFrom, ExitTypes, StartType
  <2>2. facts \in [Fact -> Places] /\ \A f \in Fact : facts[f] \in {AskedFrom, Nowhere}
    BY <2>1, AnswersTyped
  <2>3. start.facts \in [Fact -> Places] BY DEF ExitTypes, StartType
  <2>4. MergedFacts(facts) \in [Fact -> Places]
        /\ \A f \in Fact : MergedFacts(facts)[f] = IF facts[f] = Nowhere THEN start.facts[f] ELSE facts[f]
    BY <2>2, <2>3 DEF MergedFacts
  <2>5. start' \in StartType BY <2>4 DEF ExitTypes, StartType
  <2>6. /\ start'.profile = start.profile /\ start'.address = start.address
        /\ start'.facts = MergedFacts(facts) /\ start'.uneven = start.uneven
    BY <2>4 DEF ExitTypes, StartType
  <2>7. start.profile.proxied => AskedFrom = comesOut[start.address] /\ AskedFrom \in Land
    BY DEF AskedFrom, ExitFactsInv, ExitTypes
  <2>8. ~ start.profile.proxied => AskedFrom = Here
    BY DEF AskedFrom, ExitFactsInv
  <2>9. CASE start.profile.proxied
    <3>1. px' = [px EXCEPT !.facts = facts] BY <2>9 DEF Recorded
    <3>2. facts \in [Fact -> Answered] BY <2>2, <2>7, <2>9 DEF Answered
    <3>3. px'.address = px.address /\ px'.facts = facts /\ px' \in [address : Address, facts : [Fact -> Answered]]
      BY <3>1, <3>2 DEF ExitTypes
    <3>4. ~ uneven' => AskedFrom = comesOut[px.address] BY <2>9 DEF OfItsExit
    <3>5. uneven' \in BOOLEAN BY <2>9
    <3>6. ExitTypes' BY <1>7, <2>5, <3>3, <3>5 DEF ResolvesExit, ExitTypes
    <3>7. comesOut' = comesOut BY <1>7 DEF ResolvesExit
    <3>8. ~ uneven' => OneAnswer(px.facts, px.address)'
      BY <2>2, <3>3, <3>4, <3>7 DEF OneAnswer
    <3>9. start'.facts \in [Fact -> Answered]
      BY <2>2, <2>4, <2>6, <2>9, <3>2 DEF ExitFactsInv
    <3>10. ~ start'.uneven => OneAnswer(start.facts, start.address)'
      BY <2>2, <2>4, <2>6, <2>7, <2>9, <3>7 DEF ExitFactsInv, OneAnswer
    <3>11. ExitFactsInv' BY <2>6, <2>9, <3>8, <3>9, <3>10 DEF ExitFactsInv
    <3> QED BY <1>7, <3>6, <3>11 DEF ResolvesExit, OnePlace
  <2>10. CASE ~ start.profile.proxied
    <3>1. ExitTypes' BY <1>7, <2>5, <2>10 DEF ResolvesExit, ExitTypes
    <3>2. \A f \in Fact : start'.facts[f] \in {Here, Nowhere}
      BY <2>2, <2>4, <2>6, <2>8, <2>10 DEF ExitFactsInv
    <3>3. ExitFactsInv' BY <1>7, <2>6, <2>10, <3>2 DEF ResolvesExit, ExitFactsInv, OneAnswer
    <3> QED BY <1>7, <3>1, <3>3 DEF ResolvesExit, OnePlace
  <2> QED BY <2>9, <2>10
<1>8. CASE GoesOn
  <2>1. start' \in StartType BY <1>8 DEF GoesOn, ExitTypes, StartType
  <2>2. ExitTypes' BY <1>8, <2>1 DEF GoesOn, ExitTypes
  <2>3. /\ start'.profile = start.profile /\ start'.address = start.address
        /\ start'.facts = start.facts /\ start'.uneven = start.uneven
    BY <1>8 DEF GoesOn, ExitTypes, StartType
  <2>4. ExitFactsInv' BY <1>8, <2>3 DEF GoesOn, ExitFactsInv, OneAnswer
  <2> QED BY <1>8, <2>2, <2>4 DEF GoesOn, OnePlace
<1>9. CASE Starts
  <2> DEFINE b == [zone |-> IF start.profile.zone = "pinned" THEN "pinned"
                            ELSE OrFallback(start.facts["timezone"]),
                   speaks |-> IF WantsLanguages THEN ForCountry(start.facts["country"])
                              ELSE start.profile.tag,
                   ui |-> UiLocale, spot |-> PinnedSpot,
                   through |-> start.address, pinned |-> start.profile.ui # Nowhere,
                   uneven |-> start.uneven]
  <2>1. browser' = b /\ start' = Idle /\ UNCHANGED <<comesOut, px, check, uneven, turns>>
    BY <1>9 DEF Starts
  <2>2. /\ start.profile.tag \in {Nowhere} \cup Tag /\ start.profile.ui \in {Nowhere, "sw"}
        /\ start.profile.zone \in {Nowhere, "pinned"} /\ start.profile.spot \in {Nowhere, "pinned"}
        /\ start.profile.proxied \in BOOLEAN
        /\ start.facts["timezone"] \in Places /\ start.facts["country"] \in Places
        /\ start.facts["location"] \in Places
        /\ start.address \in Address \cup {Nowhere} /\ start.uneven \in BOOLEAN
    BY DEF ExitTypes, StartType, Opened, Fact
  <2>3. UiLocale \in Places \cup {Fallback, "sw"} \cup Shipped
    BY <2>2 DEF UiLocale, WantsLanguages, ForCountry, UiLocaleFor, Tag, Shipped, Places
  <2>4. b \in BrowserType
    BY <2>2, <2>3 DEF BrowserType, OrFallback, ForCountry, WantsLanguages, PinnedSpot, Places
  <2>5. Idle \in StartType
    <3>1. NoFacts \in [Fact -> Places] BY DEF NoFacts, Places
    <3>2. Plain \in Opened BY DEF Plain, Opened, Nowhere
    <3> QED BY <3>1, <3>2 DEF Idle, StartType
  <2>6. ExitTypes' BY <2>1, <2>4, <2>5 DEF ExitTypes
  <2>7. ExitFactsInv' BY <2>1 DEF ExitFactsInv, OneAnswer, Idle, Plain, NoFacts
  <2>8. \A p \in Followed(b) : \E f \in Fact : p = start.facts[f] /\ p # Nowhere
    BY <2>2 DEF Followed, OrFallback, ForCountry, WantsLanguages, PinnedSpot, Fact, Places
  <2>9. OnePlace'
    <3>1. b.through # Nowhere => Here \notin Followed(b)
      BY <2>8 DEF ExitFactsInv, Answered
    <3>2. b.through = Nowhere => Followed(b) \subseteq {Here}
      BY <2>8 DEF ExitFactsInv
    <3>3. ~ b.uneven => \A p, q \in Followed(b) : p = q
      BY <2>8 DEF ExitFactsInv, OneAnswer
    <3>4. ~ b.pinned => IF b.speaks \in Tag THEN b.ui \in Shipped ELSE b.ui = b.speaks
      BY <2>2 DEF UiLocale, WantsLanguages, ForCountry, UiLocaleFor, Tag, Shipped, Places, Fallback, Nowhere
    <3> HIDE DEF b
    <3> QED BY <2>1, <3>1, <3>2, <3>3, <3>4 DEF OnePlace
  <2> QED BY <2>6, <2>7, <2>9
<1>10. CASE Quits
  <2>1. Unopened \in BrowserType BY DEF Unopened, BrowserType, Places
  <2> QED BY <1>10, <2>1 DEF Quits, ExitTypes, ExitFactsInv, OneAnswer, OnePlace
<1> QED
  BY <1>0, <1>1, <1>2, <1>3, <1>4, <1>5, <1>6, <1>7, <1>8, <1>9, <1>10 DEF ExitNext

\* The invariant gives the types.
LEMMA ExitGoal == ExitInv => ExitTypeOK /\ OnePlace
BY ExitWords DEF ExitInv, ExitTypes, ExitTypeOK, StartType, BrowserType, Answered, Places

\* Whatever the row is edited to, checked for or moves to meanwhile, a browser
\* behind a proxy never says it is where this machine is, and one without says
\* nothing else (ipc.rs resolve_exit, launch).
THEOREM ExitSafe == ExitSpec => [](ExitTypeOK /\ OnePlace)
BY ExitStart, ExitStep, ExitGoal, PTL DEF ExitSpec

-----------------------------------------------------------------------------
(* Persona.                                                                 *)

PersonaType ==
  [os : Systems, platform : Systems, stack : {"metal", "d3d", "handset"}, adapter : {"full", "bare"},
   mobile : BOOLEAN, touch : Nat, bar : Nat,
   screen : [width : Nat, height : Nat, avail : Int, ratio : Nat],
   memory : Nat, cores : Nat, fonts : SUBSET {"mac", "win", "phone", "common"},
   voices : BOOLEAN, devices : BOOLEAN,
   handset : [form : {None, "phone", "tablet"}, voices : BOOLEAN]]
PinsType == [gpu : {None, "win", "phone", "mac-2"}, screen : {None, "odd", "fine", "handheld"},
             cores : {0, 7, 16}, memory : {0, 2}, canvas : {"noise", "real"}]

(* A machine someone measured: its driver stack is its system's, and its    *)
(* user agent says what its form factor does.                               *)
Real(p) == p \in PersonaType /\ p.stack = Stack(p.os) /\ (p.mobile <=> p.handset.form = "phone")

(* What a configuration says is one machine.                                *)
Sound(c, pins) ==
  /\ Consistent(c) /\ c.os \in Systems
  /\ c.os = "android" => {"mobile", "screen.size"} \subseteq c.keys /\ c.touch > 0
  /\ c.os # "android" => {"mobile", "speech.android"} \cap c.keys = {}
  /\ c.heap.round = (c.os = "android" \/ c.memory <= 2) /\ c.heap.gib <= c.memory
  /\ pins.cores # 0 => c.cores = pins.cores
  /\ pins.memory # 0 => c.memory = pins.memory
  /\ pins.screen # None => c.screen.width = Offered(pins.screen).width
  /\ (pins.canvas = "real") = ("noise.canvas" \notin c.keys)

PersonaTypes ==
  /\ personasDir \in [KeptHere -> SUBSET {FromCapture(d) : d \in Dumps}]
  /\ \A k \in KeptHere : \A p, q \in personasDir[k] : p = q
  /\ profile \in Choices /\ claiming \subseteq Choices
  /\ edits \in 0 .. MaxEdits

(* The dialog shows what the files and the row make, and a running core has *)
(* one machine, the one the dialog shows for its row.                       *)
PersonaInv ==
  /\ PersonaTypes
  /\ \A v \in preview : v.choice \in Choices /\ v = Shown(v.choice)
  /\ \A b \in core :
       /\ b.choice \in Choices /\ Sound(b.config, b.choice.pins) /\ CheckCoreConfig(b.config)
       /\ \A v \in preview : v.choice = b.choice => ~ v.problems /\ v.config = b.config

\* What the operator pins is one of a few values in each field.
LEMMA PinsTyped == Pins \subseteq PinsType /\ NoPins \in Pins
<1>1. NoPins \in PinsType BY DEF NoPins, PinsType, None
<1> HIDE DEF NoPins
<1>2. \A g \in {"win", "phone", "mac-2"} : [NoPins EXCEPT !.gpu = g] \in PinsType
  BY <1>1 DEF PinsType
<1>3. \A s \in {"odd", "fine", "handheld"} : [NoPins EXCEPT !.screen = s] \in PinsType
  BY <1>1 DEF PinsType
<1>4. \A n \in {7, 16} : [NoPins EXCEPT !.cores = n] \in PinsType
  BY <1>1 DEF PinsType
<1>5. /\ [NoPins EXCEPT !.memory = 2] \in PinsType
      /\ [NoPins EXCEPT !.canvas = "real"] \in PinsType
      /\ [NoPins EXCEPT !.memory = 2, !.cores = 16] \in PinsType
      /\ [NoPins EXCEPT !.gpu = "mac-2", !.memory = 2] \in PinsType
      /\ [NoPins EXCEPT !.canvas = "real", !.screen = "fine"] \in PinsType
  BY <1>1 DEF PinsType
<1> HIDE DEF PinsType
<1> QED BY <1>1, <1>2, <1>3, <1>4, <1>5 DEF Pins

\* What is put together of a system and a measurement is a machine (capture.rs
\* from_capture, catalogue.rs expand).
LEMMA PersonaReal ==
  ASSUME NEW os \in Systems, NEW form \in {None, "phone", "tablet"}, NEW memory \in Nat,
         NEW cores \in Nat, NEW limits \in BOOLEAN, NEW touch \in Nat,
         NEW fonts \in SUBSET {"mac", "win", "phone", "common"}, NEW voices \in BOOLEAN
  PROVE  Real(Persona(os, form, memory, cores, limits, fonts, touch, voices))
<1> DEFINE screen == CASE os = "mac" -> Panel(14, 9, 1, 8) [] os = "win" -> Panel(19, 10, 1, 4)
                       [] OTHER -> Panel(4, 8, 0, 11)
           adapter == IF limits THEN "full" ELSE "bare"
           bar == IF os = "win" THEN 15 ELSE 0
           phone == form = "phone"
           devices == os # "win"
           speaks == form # None /\ voices
           handset == Handset(form, speaks)
           p == Persona(os, form, memory, cores, limits, fonts, touch, voices)
<1>1. screen \in [width : Nat, height : Nat, avail : Int, ratio : Nat] BY DEF Panel
<1>2. adapter \in {"full", "bare"} /\ bar \in Nat OBVIOUS
<1>3. phone \in BOOLEAN /\ devices \in BOOLEAN /\ speaks \in BOOLEAN OBVIOUS
<1>4. Stack(os) \in {"metal", "d3d", "handset"} BY DEF Stack, Systems
<1>5. p = [os |-> os, platform |-> os, stack |-> Stack(os), adapter |-> adapter, mobile |-> phone,
           touch |-> touch, bar |-> bar, screen |-> screen, memory |-> memory, cores |-> cores,
           fonts |-> fonts, voices |-> voices, devices |-> devices, handset |-> handset]
  BY DEF Persona
<1>6. phone <=> form = "phone" OBVIOUS
<1> HIDE DEF speaks, phone, devices, screen, adapter, bar
<1>7. handset \in [form : {None, "phone", "tablet"}, voices : BOOLEAN] /\ handset.form = form
  BY <1>3 DEF Handset
<1> HIDE DEF handset, p
<1>8. p \in PersonaType
  BY <1>1, <1>2, <1>3, <1>4, <1>5, <1>7 DEF PersonaType
<1>9. p.stack = Stack(p.os) BY <1>5
<1>10. p.mobile <=> p.handset.form = "phone" BY <1>3, <1>5, <1>6, <1>7
<1> QED BY <1>8, <1>9, <1>10 DEF Real, p

\* Every machine that ships was measured.
LEMMA ExpandedReal == \A id \in Ships : Real(Expanded(id))
<1> SUFFICES ASSUME NEW id \in Ships PROVE Real(Expanded(id))
  OBVIOUS
<1>1. CASE id = "phone"
  <2>1. Real(Persona("android", "phone", 8, 8, TRUE, {"common"}, 5, TRUE))
    BY PersonaReal DEF Systems
  <2> QED BY <1>1, <2>1 DEF Expanded
<1>2. CASE id # "phone"
  <2>1. id \in Systems /\ {id, "common"} \in SUBSET {"mac", "win", "phone", "common"}
    BY <1>2 DEF Ships, Systems
  <2>2. CASE id = "mac"
    <3>1. Real(Persona(id, None, 8, 12, TRUE, {id, "common"}, 0, TRUE)) BY <2>1, PersonaReal
    <3> QED BY <1>2, <2>2, <3>1 DEF Expanded
  <2>3. CASE id # "mac"
    <3>1. Real(Persona(id, None, 8, 12, TRUE, {id, "common"}, 0, FALSE)) BY <2>1, PersonaReal
    <3>2. (id = "mac") = FALSE BY <2>3
    <3> QED BY <1>2, <3>1, <3>2 DEF Expanded
  <2> QED BY <2>2, <2>3
<1> QED BY <1>1, <1>2

\* So was every machine that was captured.
LEMMA CapturedReal == \A d \in Dumps : Real(FromCapture(d))
<1> SUFFICES ASSUME NEW d \in Dumps PROVE Real(FromCapture(d))
  OBVIOUS
<1>1. /\ d.os \in Systems /\ d.form \in {None, "phone", "tablet"} /\ d.memory \in Nat /\ d.cores \in Nat
      /\ d.limits \in BOOLEAN /\ d.touch \in Nat
  <2>1. d.os \in {"mac", "android"} /\ d.form \in {None, "tablet"} BY DEF Dumps
  <2>2. d.memory \in {4, 8, 16} /\ d.cores \in {7, 8} /\ d.touch \in {0, 5} BY DEF Dumps
  <2>3. d.limits \in BOOLEAN BY DEF Dumps
  <2> QED BY <2>1, <2>2, <2>3 DEF Systems
<1>2. d.fonts \in SUBSET {"mac", "win", "phone", "common"} BY DEF Dumps
<1>3. Real(Persona(d.os, d.form, d.memory, d.cores, d.limits, d.fonts, d.touch, TRUE))
  BY <1>1, <1>2, PersonaReal
<1> QED BY <1>3 DEF FromCapture

\* A machine the agent knows ships or was captured (personas.rs all).
LEMMA MachinesReal ==
  ASSUME PersonaTypes
  PROVE  \A id \in DOMAIN Machines : Real(Machines[id])
<1> SUFFICES ASSUME NEW id \in DOMAIN Machines PROVE Real(Machines[id])
  OBVIOUS
<1>1. CASE id \in Ships BY <1>1, ExpandedReal DEF Machines
<1>2. CASE id \notin Ships
  <2>1. id \in KeptHere /\ personasDir[id] # {} /\ Machines[id] = (CHOOSE p \in personasDir[id] : TRUE)
    BY <1>2 DEF Machines
  <2>2. PICK d \in Dumps : Machines[id] = FromCapture(d)
    BY <2>1 DEF PersonaTypes
  <2> QED BY <2>2, CapturedReal
<1> QED BY <1>1, <1>2

\* What the pins make of a machine is one, of the same system, when they apply
\* (overrides.rs apply).
LEMMA PinnedReal ==
  ASSUME NEW p, Real(p), NEW pins \in PinsType, NEW machines,
         \A id \in DOMAIN machines : Real(machines[id]), Applies(p, pins, machines)
  PROVE  LET q == Pinned(p, pins, machines)
         IN /\ Real(q) /\ Validates(q)
            /\ pins.cores # 0 => q.cores = pins.cores
            /\ pins.memory # 0 => q.memory = pins.memory
            /\ pins.screen # None => q.screen.width = Offered(pins.screen).width
            /\ q.os = p.os /\ q.handset = p.handset
<1> DEFINE q == Pinned(p, pins, machines)
           gpu == IF pins.gpu = None THEN p ELSE machines[pins.gpu]
           s == Offered(pins.screen)
<1>1. Real(gpu) /\ gpu.os = p.os BY DEF Applies, DonorFits
<1>2. gpu.stack = p.stack /\ gpu.adapter \in {"full", "bare"} /\ gpu.stack \in {"metal", "d3d", "handset"}
  BY <1>1 DEF Real, PersonaType
<1>3. s \in [width : Nat, height : Nat, ratio : Nat]
  BY DEF Offered, PinsType
<1>4. p \in PersonaType BY DEF Real
<1>5. p.screen \in [width : Nat, height : Nat, avail : Int, ratio : Nat] BY <1>4 DEF PersonaType
<1>6. /\ p.os \in Systems /\ p.platform \in Systems /\ p.mobile \in BOOLEAN /\ p.touch \in Nat /\ p.bar \in Nat
      /\ p.memory \in Nat /\ p.cores \in Nat /\ p.fonts \in SUBSET {"mac", "win", "phone", "common"}
      /\ p.voices \in BOOLEAN /\ p.devices \in BOOLEAN
      /\ p.handset \in [form : {None, "phone", "tablet"}, voices : BOOLEAN]
  BY <1>4 DEF PersonaType
<1> DEFINE screen == IF pins.screen = None \/ p.os = "android" THEN p.screen
                     ELSE Panel(s.width, s.height, p.screen.height - p.screen.avail, s.ratio)
           cores == IF pins.cores = 0 THEN p.cores ELSE pins.cores
           memory == IF pins.memory = 0 THEN p.memory ELSE pins.memory
<1>7. q = [p EXCEPT !.stack = gpu.stack, !.adapter = gpu.adapter, !.screen = screen,
                    !.cores = cores, !.memory = memory]
  BY DEF Pinned
<1>8. screen \in [width : Nat, height : Nat, avail : Int, ratio : Nat]
  BY <1>3, <1>5 DEF Panel
<1>9. cores \in Nat /\ memory \in Nat BY <1>6 DEF PinsType
<1>10. pins.screen # None => screen.width = s.width
  <2>1. CASE p.os = "android" /\ pins.screen # None
    BY <2>1, <1>5 DEF Applies, MonitorFits
  <2>2. CASE p.os # "android" /\ pins.screen # None BY <2>2 DEF Panel
  <2> QED BY <2>1, <2>2
<1> HIDE DEF gpu, s, screen, cores, memory
<1> HIDE DEF q
<1>11. /\ q \in PersonaType /\ q.os = p.os /\ q.handset = p.handset /\ q.mobile = p.mobile
       /\ q.stack = gpu.stack /\ q.screen = screen /\ q.cores = cores /\ q.memory = memory
  <2>1. [p EXCEPT !.stack = gpu.stack, !.adapter = gpu.adapter] \in PersonaType
    BY <1>2, <1>4 DEF PersonaType
  <2>2. q = [[p EXCEPT !.stack = gpu.stack, !.adapter = gpu.adapter]
               EXCEPT !.screen = screen, !.cores = cores, !.memory = memory]
    BY <1>4, <1>7 DEF PersonaType
  <2>3. q \in PersonaType BY <1>8, <1>9, <2>1, <2>2 DEF PersonaType
  <2> QED BY <1>4, <1>7, <2>3 DEF PersonaType
<1>12. Real(q) BY <1>2, <1>11 DEF Real
<1>13. Validates(q) BY DEF Applies, q
<1>14. /\ pins.cores # 0 => q.cores = pins.cores
       /\ pins.memory # 0 => q.memory = pins.memory
  BY <1>11 DEF cores, memory
<1>15. pins.screen # None => q.screen.width = Offered(pins.screen).width
  BY <1>10, <1>11 DEF s
<1> QED BY <1>11, <1>12, <1>13, <1>14, <1>15 DEF q

\* What the core is handed of a machine that validates is one machine
\* (persona.rs derive_core_config, overrides.rs apply_config).
LEMMA ConfigSound ==
  ASSUME NEW q, Real(q), Validates(q), NEW pins \in PinsType,
         pins.cores # 0 => q.cores = pins.cores,
         pins.memory # 0 => q.memory = pins.memory,
         pins.screen # None => q.screen.width = Offered(pins.screen).width
  PROVE  Sound(CoreConfig(q, pins), pins)
<1> DEFINE c == CoreConfig(q, pins)
           keys == AlwaysThere \cup WhenMeasured(q) \cup HandsetKeys(q) \cup RealMarkers(q, pins)
              \cup (IF pins.canvas = "real" THEN {} ELSE {"noise.canvas"})
              \cup (IF ReportsTheMonitor(q, pins) THEN {} ELSE MonitorKeys)
<1>1. /\ c.keys = keys /\ c.os = q.os /\ c.platform = q.platform /\ c.stack = q.stack
      /\ c.touch = q.touch /\ c.bar = q.bar /\ c.screen = q.screen /\ c.memory = q.memory
      /\ c.cores = q.cores /\ c.fonts = q.fonts
      /\ c.heap = IF q.os = "android" THEN JsHeapLimitAndroid(q.memory) ELSE JsHeapLimit(q.memory)
      /\ c.mobile = q.mobile /\ c.hints.mobile = IsPhone(q)
  BY DEF CoreConfig
<1> HIDE DEF c
<1>2. /\ q.os \in Systems /\ q.mobile \in BOOLEAN /\ q.memory \in Nat /\ q.touch \in Nat
      /\ q.handset.form \in {None, "phone", "tablet"} /\ (q.mobile <=> q.handset.form = "phone")
      /\ q.stack = Stack(q.os)
  BY DEF Real, PersonaType
<1>3. /\ q.os # "android" => q.handset.form = None
      /\ q.os = "android" => q.handset.form \in {"phone", "tablet"} /\ q.touch > 0
  BY <1>2 DEF Validates, HandsetFits
<1>4. IsPhone(q) = q.mobile
  <2>1. IsPhone(q) <=> q.mobile BY <1>2, <1>3 DEF IsPhone, None
  <2>2. IsPhone(q) \in BOOLEAN BY DEF IsPhone
  <2> QED BY <1>2, <2>1, <2>2
<1>5. q.memory \in PowersOfTwo BY DEF Validates
<1>6. Consistent(c)
  <2>1. c.platform = c.os /\ c.stack = Stack(c.os) BY <1>1, <1>2 DEF Validates
  <2>2. /\ c.os = "mac" => c.bar = 0 /\ c.touch = 0
        /\ c.os = "win" => c.bar # 0
        /\ ~ (c.memory < 4 /\ c.cores > 8) /\ c.memory \in PowersOfTwo
    BY <1>1 DEF Validates
  <2>3. c.screen.avail <= c.screen.height /\ (c.os = "mac" => c.screen.avail # c.screen.height)
    BY <1>1 DEF Validates, ScreenFits
  <2>4. c.fonts # {} /\ (c.os = "mac" => "win" \notin c.fonts) /\ (c.os = "win" => "mac" \notin c.fonts)
    BY <1>1 DEF Validates
  <2>5. c.hints.mobile = c.mobile BY <1>1, <1>4
  <2>6. c.os # "android" => ~ c.hints.mobile BY <1>1 DEF IsPhone
  <2> QED BY <2>1, <2>2, <2>3, <2>4, <2>5, <2>6 DEF Consistent
<1>7. q.os = "android" => {"mobile", "screen.size"} \subseteq keys
  BY <1>3 DEF HandsetKeys, ReportsTheMonitor, MonitorKeys, None
<1>8. q.os # "android" => {"mobile", "speech.android"} \cap keys = {}
  BY <1>3 DEF HandsetKeys, ReportsTheMonitor, MonitorKeys, None, AlwaysThere, WhenMeasured, RealMarkers
<1>9. c.heap.round = (c.os = "android" \/ c.memory <= 2)
  <2>1. CASE q.os = "android"
    <3>1. c.heap.round = TRUE BY <1>1, <2>1 DEF JsHeapLimitAndroid
    <3>2. (c.os = "android" \/ c.memory <= 2) = TRUE BY <1>1, <2>1
    <3> QED BY <3>1, <3>2
  <2>2. CASE q.os # "android"
    <3>1. c.heap.round = (q.memory <= 2) BY <1>1, <2>2 DEF JsHeapLimit
    <3> QED BY <1>1, <2>2, <3>1
  <2> QED BY <2>1, <2>2
<1>10. c.heap.gib <= c.memory
  <2>1. c.heap.gib = Tier(q.memory) BY <1>1 DEF JsHeapLimit, JsHeapLimitAndroid
  <2>2. Tier(q.memory) <= q.memory BY <1>5 DEF Tier, PowersOfTwo
  <2> QED BY <1>1, <2>1, <2>2
<1>11. (pins.canvas = "real") = ("noise.canvas" \notin keys)
  BY DEF HandsetKeys, MonitorKeys, AlwaysThere, WhenMeasured, RealMarkers
<1> HIDE DEF keys
<1>12. Sound(c, pins)
  BY <1>1, <1>2, <1>3, <1>6, <1>7, <1>8, <1>9, <1>10, <1>11 DEF Sound
<1> QED BY <1>12 DEF c

\* No core runs and nothing was shown.
LEMMA PersonaStart == PersonaInit => PersonaInv
BY PersonaAssumption DEF PersonaInit, PersonaInv, PersonaTypes

\* What a row shows, and what is handed to a core for it, is the files' and the
\* row's doing alone.
LEMMA ShownStands ==
  ASSUME personasDir' = personasDir, NEW choice
  PROVE  Shown(choice)' = Shown(choice)
BY DEF Shown, Loaded, Machines

\* One step per action: a launch takes what validates from the files as they are
\* when it looks, which is what the dialog shows until one is written (ipc.rs
\* profile.preview, launch).
LEMMA PersonaStep == PersonaInv /\ [PersonaNext]_personaVars => PersonaInv'
<1> SUFFICES ASSUME PersonaInv, [PersonaNext]_personaVars PROVE PersonaInv'
  OBVIOUS
<1> USE PersonaAssumption
<1>0. ASSUME personasDir' = personasDir, preview' \subseteq preview, core' \subseteq core, PersonaTypes'
      PROVE  PersonaInv'
  BY <1>0, ShownStands DEF PersonaInv
<1>1. CASE UNCHANGED personaVars
  BY <1>0, <1>1 DEF personaVars, PersonaInv, PersonaTypes
<1>2. ASSUME NEW d \in Dumps, KeepsPersona(d) PROVE PersonaInv'
  <2>1. PersonaTypes'
    <3>1. FromCapture(d) \in {FromCapture(e) : e \in Dumps} OBVIOUS
    <3> HIDE DEF FromCapture, Dumps
    <3>2. personasDir' \in [KeptHere -> SUBSET {FromCapture(e) : e \in Dumps}]
      BY <1>2, <3>1 DEF KeepsPersona, PersonaInv, PersonaTypes
    <3>3. \A k \in KeptHere : \A p, q \in personasDir'[k] : p = q
      BY <1>2 DEF KeepsPersona, PersonaInv, PersonaTypes
    <3> QED BY <1>2, <3>2, <3>3 DEF KeepsPersona, Writes, PersonaInv, PersonaTypes
  <2> QED BY <1>2, <2>1 DEF KeepsPersona, PersonaInv
<1>3. ASSUME NEW choice \in Choices, Previews(choice) PROVE PersonaInv'
  <2>1. PersonaTypes' BY <1>3 DEF Previews, Edits, Writes, PersonaInv, PersonaTypes
  <2>2. Shown(choice).choice = choice BY DEF Shown
  <2>3. core' = {} /\ preview' = {Shown(choice)} /\ personasDir' = personasDir
    BY <1>3 DEF Previews, Edits
  <2> QED BY <2>1, <2>2, <2>3, ShownStands DEF PersonaInv
<1>4. ASSUME NEW choice \in Choices, Upserts(choice) PROVE PersonaInv'
  <2>1. PersonaTypes' BY <1>4 DEF Upserts, Edits, Writes, PersonaInv, PersonaTypes
  <2> QED BY <1>0, <1>4, <2>1 DEF Upserts
<1>5. CASE ReadsRow
  <2>1. PersonaTypes' BY <1>5 DEF ReadsRow, PersonaInv, PersonaTypes
  <2> QED BY <1>0, <1>5, <2>1 DEF ReadsRow
<1>6. CASE IsRefused
  <2>1. PersonaTypes' BY <1>6 DEF IsRefused, PersonaInv, PersonaTypes
  <2> QED BY <1>0, <1>6, <2>1 DEF IsRefused
<1>7. CASE Opens
  <2> PICK choice \in claiming : Accepted(choice) /\ core' = {[choice |-> choice, config |-> Claimed(choice)]}
    BY <1>7 DEF Opens
  <2>1. PersonaTypes' BY <1>7 DEF Opens, PersonaInv, PersonaTypes
  <2>2. personasDir' = personasDir /\ preview' = preview BY <1>7 DEF Opens
  <2>3. choice \in Choices BY DEF PersonaInv, PersonaTypes
  <2>4. choice.pins \in PinsType BY <2>3, PinsTyped DEF Choices, Row
  <2>5. /\ choice.on \in DOMAIN Machines /\ CheckCoreConfig(Claimed(choice))
        /\ Applies(Loaded(choice.on), choice.pins, Machines)
    BY DEF Accepted
  <2>6. \A id \in DOMAIN Machines : Real(Machines[id]) BY MachinesReal DEF PersonaInv
  <2>7. Real(Loaded(choice.on)) BY <2>5, <2>6 DEF Loaded
  <2> DEFINE q == Pinned(Loaded(choice.on), choice.pins, Machines)
  <2>8. /\ Real(q) /\ Validates(q)
        /\ choice.pins.cores # 0 => q.cores = choice.pins.cores
        /\ choice.pins.memory # 0 => q.memory = choice.pins.memory
        /\ choice.pins.screen # None => q.screen.width = Offered(choice.pins.screen).width
    BY <2>4, <2>5, <2>6, <2>7, PinnedReal
  <2>9. Claimed(choice) = CoreConfig(q, choice.pins) BY DEF Claimed
  <2> HIDE DEF q
  <2>10. Sound(Claimed(choice), choice.pins) BY <2>4, <2>8, <2>9, ConfigSound
  <2>11. ~ Shown(choice).problems /\ Shown(choice).config = Claimed(choice)
    BY <2>5, <2>9 DEF Shown, q
  <2>12. \A v \in preview' : v.choice \in Choices /\ v = Shown(v.choice)'
    BY <2>2, ShownStands DEF PersonaInv
  <2>13. \A b \in core' : b.choice = choice /\ b.config = Claimed(choice)
    OBVIOUS
  <2>14. \A v \in preview' : v.choice = choice => ~ v.problems /\ v.config = Claimed(choice)
    BY <2>2, <2>11 DEF PersonaInv
  <2> HIDE DEF Claimed
  <2> QED BY <2>1, <2>3, <2>5, <2>10, <2>12, <2>13, <2>14 DEF PersonaInv
<1>8. CASE CoreEnds
  <2>1. PersonaTypes' BY <1>8 DEF CoreEnds, PersonaInv, PersonaTypes
  <2> QED BY <1>0, <1>8, <2>1 DEF CoreEnds
<1> QED BY <1>1, <1>2, <1>3, <1>4, <1>5, <1>6, <1>7, <1>8 DEF PersonaNext

\* Of any two files said to be one, there is at most one.
LEMMA PersonaGoal == PersonaInv => PersonaTypeOK /\ OneMachine
<1> SUFFICES ASSUME PersonaInv PROVE PersonaTypeOK /\ OneMachine
  OBVIOUS
<1>1. OneMachine BY DEF PersonaInv, OneMachine, Sound
<1>2. \A k \in KeptHere : Cardinality(personasDir[k]) <= 1
  BY AtMostOne DEF PersonaInv, PersonaTypes
<1>3. \A v \in preview : v.problems \in BOOLEAN
  <2> SUFFICES ASSUME NEW v \in preview PROVE v.problems \in BOOLEAN
    OBVIOUS
  <2>1. v = Shown(v.choice) BY DEF PersonaInv
  <2>2. Shown(v.choice).problems = ~ Applies(Loaded(v.choice.on), v.choice.pins, Machines)
    BY DEF Shown
  <2> QED BY <2>1, <2>2
<1>4. /\ \A k \in KeptHere : personasDir[k] \subseteq {FromCapture(d) : d \in Dumps}
      /\ profile \in Choices /\ claiming \subseteq Choices /\ edits \in 0 .. MaxEdits
  BY DEF PersonaInv, PersonaTypes
<1>5. \A b \in core : b.choice \in Choices /\ b.config.os \in Systems
  BY DEF PersonaInv, Sound
<1>6. \A v \in preview : v.choice \in Choices
  BY DEF PersonaInv
<1> QED BY <1>1, <1>2, <1>3, <1>4, <1>5, <1>6 DEF PersonaTypeOK

\* Whatever files are kept and rows written while the dialog shows another, a
\* core is handed one machine that exists, with everything it reads, and the one
\* that was shown (persona.rs validate, fingerprint.rs check_core_config).
THEOREM PersonaSafe == PersonaSpec => [](PersonaTypeOK /\ OneMachine)
BY PersonaStart, PersonaStep, PersonaGoal, PTL DEF PersonaSpec

-----------------------------------------------------------------------------
(* A step of the machine is a step of one component, and the others stand   *)
(* still: each follows its own specification.                               *)

\* The machine starts every component as it starts by itself, and moves one.
THEOREM PartsFollow ==
  Spec => /\ LocalSpec /\ RelaySpec /\ TunnelSpec
          /\ ExtensionsSpec /\ CookieJarSpec /\ FilesSpec
          /\ PersonaSpec /\ ExitSpec
<1>1. Init => /\ LocalInit /\ RelayInit /\ TunnelInit
              /\ ExtensionsInit /\ CookieJarInit /\ FilesInit
              /\ PersonaInit /\ ExitInit
  BY DEF Init
<1>2. [Next]_all => [LocalNext]_localVars
  BY DEF Next, all, localVars
<1>3. [Next]_all => [RelayNext]_relayVars
  BY DEF Next, all, relayVars
<1>4. [Next]_all => [TunnelNext]_tunnelVars
  BY DEF Next, all, tunnelVars
<1>5. [Next]_all => [ExtensionsNext]_appVars
  BY DEF Next, all, appVars
<1>6. [Next]_all => [CookieJarNext]_jarVars
  BY DEF Next, all, jarVars
<1>7. [Next]_all => [FilesNext]_filesVars
  BY DEF Next, all, filesVars
<1>8. [Next]_all => [PersonaNext]_personaVars
  BY DEF Next, all, personaVars
<1>9. [Next]_all => [ExitNext]_exitVars
  BY DEF Next, all, exitVars
<1> QED
  BY <1>1, <1>2, <1>3, <1>4, <1>5, <1>6, <1>7, <1>8, <1>9, PTL
  DEF Spec, LocalSpec, RelaySpec, TunnelSpec, ExtensionsSpec, CookieJarSpec, FilesSpec,
      PersonaSpec, ExitSpec

\* Every component's state keeps its type, the one that moves and the others.
THEOREM MachineTypes == Spec => []MachineTypeOK
<1> DEFINE APart == part \in {"store", "relay", "tunnel", "extensions", "jar", "files", "persona", "exit"}
<1>1. Init => APart BY DEF Init
<1>2. APart /\ [Next]_all => APart' BY DEF Next, all
<1>3. APart /\ LocalInv /\ RelayInv /\ TunnelInv /\ ExtensionsInv /\ CookieJarInv /\ FilesInv
        /\ PersonaInv /\ ExitInv => MachineTypeOK
  BY FilesGoal, PersonaGoal, ExitGoal
  DEF MachineTypeOK, LocalInv, RelayInv, TunnelInv, ExtensionsInv, CookieJarInv
<1> HIDE DEF APart
<1>4. Spec => []APart BY <1>1, <1>2, PTL DEF Spec
<1>5. Spec => []LocalInv BY PartsFollow, LocalStart, LocalStep, PTL DEF LocalSpec
<1>6. Spec => []RelayInv BY PartsFollow, RelayStart, RelayStep, PTL DEF RelaySpec
<1>7. Spec => []TunnelInv BY PartsFollow, TunnelStart, TunnelStep, PTL DEF TunnelSpec
<1>8. Spec => []ExtensionsInv BY PartsFollow, ExtensionsStart, ExtensionsStep, PTL DEF ExtensionsSpec
<1>9. Spec => []CookieJarInv BY PartsFollow, CookieJarStart, CookieJarStep, PTL DEF CookieJarSpec
<1>10. Spec => []FilesInv BY PartsFollow, FilesStart, FilesStep, PTL DEF FilesSpec
<1>11. Spec => []PersonaInv BY PartsFollow, PersonaStart, PersonaStep, PTL DEF PersonaSpec
<1>12. Spec => []ExitInv BY PartsFollow, ExitStart, ExitStep, PTL DEF ExitSpec
<1> QED BY <1>3, <1>4, <1>5, <1>6, <1>7, <1>8, <1>9, <1>10, <1>11, <1>12, PTL

\* What each component keeps by itself it keeps on the machine: the seeds apart,
\* the passwords, nothing here reachable, one tunnel, storage unmixed, jars with
\* their keys, sound copies, and claims that agree.
THEOREM MachineSafe ==
  Spec => /\ [](/\ SeedsApart /\ NothingHere /\ OneTunnel
                /\ NeverTheMix /\ JarKept /\ CopiesSound /\ ClaimsAgree)
          /\ SecretsKept
<1>1. OneMachine /\ OnePlace => ClaimsAgree BY DEF ClaimsAgree
<1> QED
  BY <1>1, PartsFollow, LocalSafe, LocalKeeps, RelaySafe, TunnelSafe, ExtensionsSafe, CookieJarSafe,
     FilesSafe, PersonaSafe, ExitSafe, PTL
=============================================================================
