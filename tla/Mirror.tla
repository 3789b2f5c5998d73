------------------------------- MODULE Mirror -------------------------------
(* Synchronised windows (agent/src/mirror.rs; ipc.rs mirror.start): what is *)
(* done in one window of a group every other window does too.  A window     *)
(* reports through its connection, a task per report puts the action in     *)
(* every other member's queue, and each connection has one hand, which      *)
(* performs that queue.                                                     *)
(*                                                                          *)
(* A browser is one page.  Time is left open: a report's task comes when it *)
(* does, a call takes any time and may fail, and a mute ends any time,      *)
(* before the echo it was for as well.  Navigations from the address bar    *)
(* are left out.                                                            *)
EXTENDS Naturals, Sequences, FiniteSets, SequencesExt

CONSTANTS Window,     \* the profiles whose browsers are open
          Began,      \* those in the group at the start, their pages armed
          Worked,     \* those the operator works in
          Closable,   \* those the operator may close
          Kinds,      \* of what the operator does: "key" and "click"
          Rejoins,    \* whether a group that runs may be started again
          MaxJoins,   \* bound: connections made
          MaxActs,    \* bound: things the operator does
          MaxGiven    \* bound: actions put in queues

ASSUME MirrorAssumption ==
  /\ IsFiniteSet(Window) /\ Cardinality(Began) <= MaxJoins
  /\ {Began, Worked, Closable} \subseteq SUBSET Window
  /\ Kinds \subseteq {"key", "click"}
  /\ Rejoins \in BOOLEAN /\ {MaxJoins, MaxActs, MaxGiven} \subseteq Nat

VARIABLES
  alive,     \* windows whose browser is still open
  hub,       \* Hub::members: the connection of each member, or 0
  wires,     \* the connections made, in order: whose, whether its page
             \* reports, "open", "dropped" when nobody can send any more and
             \* its pump has yet to notice, or "ended"; its queue, what its
             \* hand has sent to the browser, and what was performed of it
  typing,    \* Hub::typing
  acts,      \* what the operator has done, in order: "key" or "click", and
             \* history: what was still to be reported then, and whether two
             \* connections reported it
  reports,   \* tasks under way, one per report: whose and which, echo or not
  muted,     \* windows whose reports are dropped for now
  given,     \* history: what was put in queues, in order
  late       \* history: actions whose window was unmuted before their echo
             \* was handled

mirrorVars == <<alive, hub, wires, typing, acts, reports, muted, given, late>>

Members == {w \in Window : hub[w] # 0}
Armed(w) == hub[w] # 0 /\ wires[hub[w]].armed
Sent(w) == {k \in DOMAIN wires : wires[k].of = w /\ wires[k].at # "ended"}

NewWire(w, armed) ==
  [of |-> w, armed |-> armed, at |-> "open", todo |-> <<>>, hand |-> <<>>, done |-> <<>>]

MirrorInit ==
  /\ alive = Window
  /\ wires = [k \in DOMAIN SetToSeq(Began) |-> NewWire(SetToSeq(Began)[k], TRUE)]
  /\ hub = [w \in Window |->
              IF w \in Began THEN CHOOSE k \in DOMAIN wires : wires[k].of = w ELSE 0]
  /\ typing \in BOOLEAN /\ acts = <<>> /\ reports = {} /\ muted = {} /\ given = <<>>
  /\ late = {}

-----------------------------------------------------------------------------
(* The group. *)

(* A member that is replaced or taken out cannot be sent to any more.  Its  *)
(* hand still has its queue.                                                *)
Unplugged(ks) ==
  [k \in DOMAIN wires |-> IF k \in ks THEN [wires[k] EXCEPT !.at = "dropped"] ELSE wires[k]]

(* A window's mute ends, whatever of its hands' it has still to do or to    *)
(* report.                                                                  *)
ToEcho(w) ==
  {r.act : r \in {q \in reports : q.of = w /\ q.echo}}
    \cup UNION {ToSet(wires[k].hand) : k \in {l \in DOMAIN wires : wires[l].of = w}}
MuteEnds(w) == muted' = muted \ {w} /\ late' = late \cup ToEcho(w)

(* mirror.start joins every window it is given, one in the group as well.   *)
Joins(w) ==
  /\ w \in alive /\ Len(wires) < MaxJoins
  /\ Sent(w) = {} \/ Rejoins
  /\ hub' = [hub EXCEPT ![w] = Len(wires) + 1]
  /\ wires' = Append(Unplugged({hub[w]}), NewWire(w, FALSE))
  /\ MuteEnds(w)
  /\ UNCHANGED <<alive, typing, acts, reports, given>>

(* arm: the listener is in the page, and it reports. *)
Arms(w) ==
  /\ hub[w] # 0 /\ ~ wires[hub[w]].armed
  /\ wires' = [wires EXCEPT ![hub[w]].armed = TRUE]
  /\ UNCHANGED <<alive, hub, typing, acts, reports, muted, given, late>>

(* The socket closed, or nobody is left to send: the window's member goes.  *)
PumpEnds(k) ==
  LET w == wires[k].of IN
  /\ wires[k].at = "dropped" \/ (wires[k].at # "ended" /\ w \notin alive)
  /\ hub' = [hub EXCEPT ![w] = 0]
  /\ wires' = [Unplugged({hub[w]}) EXCEPT ![k].at = "ended"]
  /\ UNCHANGED <<alive, typing, acts, reports, muted, given, late>>

Stops ==
  /\ Members # {}
  /\ hub' = [w \in Window |-> 0]
  /\ wires' = Unplugged({hub[w] : w \in Members})
  /\ UNCHANGED <<alive, typing, acts, reports, muted, given, late>>

ClosesWindow(w) ==
  /\ w \in alive \cap Closable
  /\ alive' = alive \ {w}
  /\ UNCHANGED <<hub, wires, typing, acts, reports, muted, given, late>>

SwitchesTyping ==
  /\ typing' = ~ typing
  /\ UNCHANGED <<alive, hub, wires, acts, reports, muted, given, late>>

-----------------------------------------------------------------------------
(* Reports: every connection whose listener is in the page carries one.     *)
ReportsOf(w, n, echo) ==
  {[of |-> w, act |-> n, echo |-> echo, by |-> k] :
     k \in {l \in Sent(w) : wires[l].armed}}

Acts(w, kind) ==
  /\ w \in alive /\ Len(acts) < MaxActs
  /\ LET own == ReportsOf(w, Len(acts) + 1, FALSE) IN
     /\ acts' = Append(acts, [kind |-> kind, twice |-> \E q, r \in own : q # r,
                              beside |-> {r.act : r \in {q \in reports : ~ q.echo}}])
     /\ reports' = reports \cup own
  /\ UNCHANGED <<alive, hub, wires, typing, muted, given, late>>

Dropped(r) ==
  \/ acts[r.act].kind = "key" /\ ~ typing
  \/ hub[r.of] = 0
  \/ r.of \in muted

(* fan_out, under the members' lock, whichever task comes first.            *)
FansOut(r) ==
  LET others == IF Dropped(r) THEN {} ELSE {w \in Window \ {r.of} : Armed(w)} IN
  /\ others # {} => Len(given) < MaxGiven
  /\ reports' = reports \ {r}
  /\ wires' = [k \in DOMAIN wires |->
                 IF \E w \in others : hub[w] = k
                 THEN [wires[k] EXCEPT !.todo = Append(@, r.act)] ELSE wires[k]]
  /\ given' = IF others = {} THEN given ELSE Append(given, r.act)
  /\ muted' = muted \cup others
  /\ UNCHANGED <<alive, hub, typing, acts, late>>

-----------------------------------------------------------------------------
(* Hands. *)

(* The next action of the queue, once the last was answered or given up: it *)
(* is sent through the window's member of now, which knows no page of an    *)
(* older connection.  The mute starts before the calls.                     *)
Taken(k, n, left) ==
  /\ wires' = [wires EXCEPT ![k].todo = left,
                            ![k].hand = IF hub[wires[k].of] = k THEN Append(@, n) ELSE @]
  /\ muted' = IF hub[wires[k].of] # 0 THEN muted \cup {wires[k].of} ELSE muted
  /\ UNCHANGED <<alive, hub, typing, acts, reports, given, late>>

TakesAny(k) ==       \* mutant: each action in a task of its own
  \E i \in DOMAIN wires[k].todo : Taken(k, wires[k].todo[i], RemoveAt(wires[k].todo, i))

Takes(k) ==
  wires[k].todo # <<>> /\ Taken(k, Head(wires[k].todo), Tail(wires[k].todo))

(* The browser does what it was sent, in order, and its page reports it. *)
Performs(k) ==
  /\ wires[k].hand # <<>> /\ wires[k].of \in alive
  /\ wires' = [wires EXCEPT ![k].hand = Tail(@), ![k].done = Append(@, Head(wires[k].hand))]
  /\ reports' = reports \cup ReportsOf(wires[k].of, Head(wires[k].hand), TRUE)
  /\ UNCHANGED <<alive, hub, typing, acts, muted, given, late>>

(* A call was refused, or its connection or its browser went.               *)
GivesUp(k) ==
  /\ wires[k].hand # <<>>
  /\ wires' = [wires EXCEPT ![k].hand = Tail(@)]
  /\ UNCHANGED <<alive, hub, typing, acts, reports, muted, given, late>>

(* 600 ms after an action was taken, 1200 ms after one was queued, whether  *)
(* or not it is done by then.                                               *)
Unmutes(w) ==
  /\ w \in muted
  /\ MuteEnds(w)
  /\ UNCHANGED <<alive, hub, wires, typing, acts, reports, given>>

MirrorNext ==
  \/ \E w \in Window : Joins(w) \/ Arms(w) \/ ClosesWindow(w) \/ Unmutes(w)
  \/ \E k \in DOMAIN wires : PumpEnds(k) \/ Takes(k) \/ Performs(k) \/ GivesUp(k)
  \/ Stops \/ SwitchesTyping
  \/ \E w \in Worked, kind \in Kinds : Acts(w, kind)
  \/ \E r \in reports : FansOut(r)

MirrorSpec == MirrorInit /\ [][MirrorNext]_mirrorVars

-----------------------------------------------------------------------------
MirrorTypeOK ==
  /\ alive \subseteq Window /\ hub \in [Window -> 0 .. Len(wires)]
  /\ Len(wires) <= MaxJoins /\ Len(acts) <= MaxActs /\ Len(given) <= MaxGiven
  /\ \A k \in DOMAIN wires :
       /\ wires[k].of \in Window
       /\ wires[k].armed \in BOOLEAN /\ wires[k].at \in {"open", "dropped", "ended"}
       /\ {wires[k].todo, wires[k].hand, wires[k].done} \subseteq Seq(DOMAIN acts)
  /\ typing \in BOOLEAN /\ muted \subseteq Window
  /\ given \in Seq(DOMAIN acts) /\ late \subseteq DOMAIN acts

(* An action given out once: by one connection's report, and its echoes     *)
(* were dropped.                                                            *)
Single(n) == n \notin late /\ ~ acts[n].twice

(* Two hands perform such actions in the same order, and a hand leaves the  *)
(* operator's order only for actions whose reports were under way together, *)
(* or one given out again: by an echo that came after the mute for it had   *)
(* ended, or by a second connection's report.  So five keystrokes are not   *)
(* five races of each hand's own (mirror.rs 103-108).                       *)
SameOrder ==
  \A k \in DOMAIN wires : \A i, j \in DOMAIN wires[k].done :
    LET first == wires[k].done[i]
        then  == wires[k].done[j]
    IN i < j /\ first # then =>
         /\ first < then \/ then \in acts[first].beside \/ ~ Single(then)
         /\ Single(first) /\ Single(then) =>
              \A l \in DOMAIN wires : \A m, n \in DOMAIN wires[l].done :
                wires[l].done[m] = first /\ wires[l].done[n] = then => m < n

(* "Five keystrokes in the right order" (mirror.rs 103-106): the operator's *)
(* order, for what was given out once.                                      *)
OperatorsOrder ==
  \A k \in DOMAIN wires : \A i, j \in DOMAIN wires[k].done :
    i < j /\ Single(wires[k].done[i]) /\ Single(wires[k].done[j]) =>
      wires[k].done[i] < wires[k].done[j]

(* What is added to the group stays in it until the group is stopped or its *)
(* browser goes ("Add a running browser to the group", mirror.rs 156).      *)
GroupKept ==
  [][Stops \/ \A w \in Window : hub[w] # 0 /\ w \in alive => hub'[w] # 0]_mirrorVars
=============================================================================
