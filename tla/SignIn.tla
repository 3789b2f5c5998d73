------------------------------- MODULE SignIn -------------------------------
(* Signing in: the password, the second factor, the organisation's policy   *)
(* and the sessions (server/src/security.rs; api.rs login, issue_session,   *)
(* logout; auth.rs Caller).  No handler here runs in a transaction: a       *)
(* sign-in is a step per statement that another request can come before.    *)
EXTENDS Naturals, FiniteSets

CONSTANTS User,         \* members of one organisation
          Owner,        \* the one of them who may write the policy
          Machine,      \* machine ids; a client may send none
          Login,        \* sign-ins ever started
          Request,      \* requests with a code
          WrongMax,     \* wrong codes that end a challenge
          Drafts,       \* bound: the policies it ever has
          MaxPolicies,  \* bound: times the policy is written
          MaxDoing      \* bound: at once, requests about a factor, and sessions
                        \* whose ten minutes run

NoId == "no id"

Factors == {"off", "new_device", "always"}
Policy == [factor : Factors, list : {"none", "exempts owner", "everybody"},
           stepUp : BOOLEAN]

ASSUME SignInAssumption ==
  /\ Owner \in User /\ NoId \notin Machine
  /\ Drafts \subseteq Policy
  /\ {WrongMax, MaxPolicies, MaxDoing} \subseteq Nat \ {0}
  /\ IsFiniteSet(Request)

VARIABLES
  policy,     \* organizations.security
  factor,     \* users.totp_secret and totp_enabled_at
  doing,      \* requests about a factor that have read it: whose, and what for
  journal,    \* login_events: who, from where, and whether it was a sign-in
  login,      \* sign-ins, from the user's row to the line in the journal:
              \* what each has read, and (history) whether the user has had a
              \* factor ever since
  challenge,  \* login_challenges, by the sign-in that opened them
  asking,     \* code requests, between the challenge's read and the answer
  session,    \* sessions that live: whose, and whether a code was shown lately
  opened,     \* history: who ever got a session, and from which machine
  bare,       \* history: sessions that no code was shown for, of users who had
              \* a factor from the first statement on: on what grounds
  wrong,      \* history: wrong codes answered, per challenge
  writes      \* policies written

signInVars == <<policy, factor, doing, journal, login, challenge, asking,
                session, opened, bare, wrong, writes>>

Acts == {"setup", "confirm", "disable"}
Session == Login \cup Request
Idle == [at |-> "idle", user |-> Owner, machine |-> NoId, asks |-> "off",
         secret |-> FALSE, kept |-> FALSE]
Ended == [Idle EXCEPT !.at = "done"]

NoChallenge == [live |-> FALSE, attempts |-> 0]
NoAsk == [at |-> "unsent", of |-> "none", read |-> 0]

(* A team whose members set a second factor up, asked on new machines. *)
SignInInit ==
  /\ policy \in {p \in Drafts : p.factor = "new_device"}
  /\ factor = [u \in User |-> [secret |-> TRUE, on |-> TRUE]]
  /\ doing = {}
  /\ journal = {}
  /\ login = [l \in Login |-> Idle]
  /\ challenge = [l \in Login |-> NoChallenge]
  /\ asking = [q \in Request |-> NoAsk]
  /\ session = [s \in {} |-> {}]
  /\ opened = {} /\ bare = {}
  /\ wrong = [l \in Login |-> 0]
  /\ writes = 0

(* Room for one more of either. *)
Free ==
  Cardinality(doing) + Cardinality({s \in DOMAIN session : session[s].shown})
    < MaxDoing

Line(user, machine, outcome) ==
  [user |-> user, machine |-> machine, outcome |-> outcome]
(* A line that names no machine makes none known. *)
Journal(user, machine, outcome) ==
  IF machine = NoId THEN journal
  ELSE journal \cup {Line(user, machine, outcome)}

-----------------------------------------------------------------------------
(* The password. *)

(* An address outside a list is refused, whoever asks but an exempt owner.  *)
Admits(p, user, inside) ==
  \/ p.list = "none"
  \/ p.list = "exempts owner" /\ user = Owner
  \/ inside

Enrolled(user) == factor[user].on /\ factor[user].secret

(* The row: the password's hash and the factor's secret. *)
LogsIn(l, user, machine) ==
  /\ login[l].at = "idle" /\ \A k \in Login : k < l => login[k].at # "idle"
  /\ login' = [login EXCEPT ![l] = [at |-> "begun", user |-> user,
                  machine |-> machine, asks |-> "off",
                  secret |-> factor[user].secret, kept |-> Enrolled(user)]]
  /\ UNCHANGED <<policy, factor, doing, journal, challenge, asking, session,
                 opened, bare, wrong, writes>>

IsAdmitted(l, inside) ==
  /\ login[l].at = "begun"
  /\ IF Admits(policy, login[l].user, inside)
     THEN /\ login' = [login EXCEPT ![l].at = "admitted", ![l].asks = policy.factor]
          /\ UNCHANGED journal
     ELSE /\ login' = [login EXCEPT ![l] = Ended]
          /\ journal' = Journal(login[l].user, login[l].machine, "other")
  /\ UNCHANGED <<policy, factor, doing, challenge, asking, session, opened,
                 bare, wrong, writes>>

BadPassword(l) ==
  /\ login[l].at = "admitted"
  /\ login' = [login EXCEPT ![l] = Ended]
  /\ journal' = Journal(login[l].user, login[l].machine, "other")
  /\ UNCHANGED <<policy, factor, doing, challenge, asking, session, opened,
                 bare, wrong, writes>>

(* The password fits.  Whether the factor is on is a query of its own, made *)
(* if there was a secret; one that fails counts as no factor.               *)
GoodPassword(l, answered) ==
  LET on == login[l].secret /\ answered /\ factor[login[l].user].on IN
  /\ login[l].at = "admitted"
  /\ login' = [login EXCEPT ![l].at = IF on THEN "enrolled" ELSE "bare",
                            ![l].secret = FALSE,
                            ![l].kept = @ /\ answered]
  /\ UNCHANGED <<policy, factor, doing, journal, challenge, asking, session,
                 opened, bare, wrong, writes>>

AnyLine(user, machine) ==   \* mutant: the outcome left out of the query
  machine # NoId /\ \E x \in journal : x.user = user /\ x.machine = machine
KnownDevice(user, machine) ==
  machine # NoId /\ Line(user, machine, "ok") \in journal

(* What is kept of a sign-in once its way is known. *)
Known(x, at) == [x EXCEPT !.at = at, !.asks = "off", !.kept = FALSE]

(* second_factor_required, of a user who is enrolled. *)
CodeRequired(x) ==
  \/ x.asks = "always"
  \/ x.asks = "new_device" /\ ~ KnownDevice(x.user, x.machine)

(* The journal is asked for the machine; nothing is written yet. *)
WeighsMachine(l) ==
  /\ login[l].at = "enrolled"
  /\ login' = [login EXCEPT ![l] =
       IF CodeRequired(@) THEN Known(@, "asked") ELSE [@ EXCEPT !.at = "bare"]]
  /\ UNCHANGED <<policy, factor, doing, journal, challenge, asking, session,
                 opened, bare, wrong, writes>>

OpensChallenge(l) ==
  /\ login[l].at = "asked"
  /\ challenge' = [challenge EXCEPT ![l].live = TRUE]
  /\ login' = [login EXCEPT ![l].at = "challenged"]
  /\ journal' = Journal(login[l].user, login[l].machine, "other")
  /\ UNCHANGED <<policy, factor, doing, asking, session, opened, bare, wrong,
                 writes>>

(* issue_session, of a sign-in without a code or a request with one. *)
Opens(s, l) ==
  /\ session' = [x \in DOMAIN session \cup {s} |->
                   IF x = s THEN [of |-> login[l].user, shown |-> FALSE]
                   ELSE session[x]]
  /\ opened' = opened \cup {<<login[l].user, login[l].machine>>}

IssuesBare(l) ==
  LET x == login[l] IN
  /\ x.at = "bare"
  /\ Opens(l, l)
  /\ bare' = IF ~ x.kept THEN bare
             ELSE bare \cup {[asked |-> x.asks, machine |-> x.machine,
                              again |-> <<x.user, x.machine>> \in opened]}
  /\ login' = [login EXCEPT ![l] = Known(@, "issued")]
  /\ UNCHANGED <<policy, factor, doing, journal, challenge, asking, wrong,
                 writes>>

(* The line in the journal comes after the session, and a journal that      *)
(* cannot be written never fails a sign-in.                                 *)
Journals(l, written) ==
  /\ login[l].at = "issued"
  /\ login' = [login EXCEPT ![l] = Ended]
  /\ journal' = IF written
                THEN Journal(login[l].user, login[l].machine, "ok")
                ELSE journal
  /\ UNCHANGED <<policy, factor, doing, challenge, asking, session, opened,
                 bare, wrong, writes>>

-----------------------------------------------------------------------------
(* The code. *)

(* A request reads the attempts; the answer is in later statements. *)
PresentsCode(q, l) ==
  /\ asking[q].at = "unsent" /\ login[l].at = "challenged" /\ challenge[l].live
  /\ IF challenge[l].attempts >= WrongMax
     THEN /\ challenge' = [challenge EXCEPT ![l] = NoChallenge]
          /\ asking' = [asking EXCEPT ![q] = NoAsk]
     ELSE /\ asking' = [asking EXCEPT ![q] =
                        [at |-> "read", of |-> l, read |-> challenge[l].attempts]]
          /\ UNCHANGED challenge
  /\ UNCHANGED <<policy, factor, doing, journal, login, session, opened,
                 bare, wrong, writes>>

Under(q) == asking[q].at = "read"

CountedAsRead(q, l) == asking[q].read + 1        \* mutant: a lost update
Counted(q, l) == challenge[l].attempts + 1

WrongCode(q) ==
  LET l == asking[q].of IN
  /\ Under(q) /\ Enrolled(login[l].user)
  /\ asking' = [asking EXCEPT ![q] = NoAsk]
  /\ challenge' = [challenge EXCEPT ![l].attempts =
                     IF challenge[l].live THEN Counted(q, l) ELSE @]
  /\ wrong' = [wrong EXCEPT ![l] = @ + 1]
  /\ journal' = Journal(login[l].user, login[l].machine, "other")
  /\ UNCHANGED <<policy, factor, doing, login, session, opened, bare,
                 writes>>

(* The challenge goes whether or not another request had it already...      *)
RightCode(q) ==
  LET l == asking[q].of IN
  /\ Under(q) /\ Enrolled(login[l].user)
  /\ asking' = [asking EXCEPT ![q] = [at |-> "proved", of |-> l, read |-> 0]]
  /\ challenge' = [challenge EXCEPT ![l] = NoChallenge]
  /\ UNCHANGED <<policy, factor, doing, journal, login, session, opened, bare,
                 wrong, writes>>

(* ...then comes the session... *)
IssuesProved(q) ==
  /\ asking[q].at = "proved"
  /\ Opens(q, asking[q].of)
  /\ asking' = [asking EXCEPT ![q].at = "issued"]
  /\ UNCHANGED <<policy, factor, doing, journal, login, challenge, bare, wrong,
                 writes>>

(* ...and the line in the journal. *)
JournalsProved(q, written) ==
  LET x == login[asking[q].of] IN
  /\ asking[q].at = "issued"
  /\ asking' = [asking EXCEPT ![q] = [NoAsk EXCEPT !.at = "answered"]]
  /\ journal' = IF written THEN Journal(x.user, x.machine, "ok") ELSE journal
  /\ UNCHANGED <<policy, factor, doing, login, challenge, session, opened,
                 bare, wrong, writes>>

(* The factor went in between, or the five minutes did. *)
NoFactor(q) ==
  /\ Under(q) /\ ~ Enrolled(login[asking[q].of].user)
  /\ asking' = [asking EXCEPT ![q] = NoAsk]
  /\ UNCHANGED <<policy, factor, doing, journal, login, challenge, session,
                 opened, bare, wrong, writes>>

ChallengeLapses(l) ==
  /\ challenge[l].live
  /\ challenge' = [challenge EXCEPT ![l] = NoChallenge]
  /\ UNCHANGED <<policy, factor, doing, journal, login, asking, session,
                 opened, bare, wrong, writes>>

-----------------------------------------------------------------------------
(* Sessions and what they may do. *)

SessionsOf(u) == {s \in DOMAIN session : session[s].of = u}
SignedIn(u) == SessionsOf(u) # {}
Left(gone) == [s \in DOMAIN session \ gone |-> session[s]]

(* require_step_up: a code in the last ten minutes, when the policy asks. *)
StepUpHeld(s) ==
  policy.stepUp => factor[session[s].of].on /\ session[s].shown

(* totp_verify, and the ten minutes. *)
ShowsCode(s) ==
  /\ s \in DOMAIN session /\ Enrolled(session[s].of) /\ ~ session[s].shown
  /\ Free
  /\ session' = [session EXCEPT ![s].shown = TRUE]
  /\ UNCHANGED <<policy, factor, doing, journal, login, challenge, asking,
                 opened, bare, wrong, writes>>

WindowCloses(s) ==
  /\ s \in DOMAIN session /\ session[s].shown
  /\ session' = [session EXCEPT ![s].shown = FALSE]
  /\ UNCHANGED <<policy, factor, doing, journal, login, challenge, asking,
                 opened, bare, wrong, writes>>

(* totp_setup, totp_confirm and totp_disable each read the row, the last    *)
(* two with a code that fits its secret, and write it in another statement. *)
MayDo(what, f) ==
  \/ what = "setup" /\ ~ f.on
  \/ what = "confirm" /\ ~ f.on /\ f.secret
  \/ what = "disable" /\ f.secret

Done(what, f) ==
  CASE what = "setup"   -> [f EXCEPT !.secret = TRUE]
    [] what = "confirm" -> [f EXCEPT !.on = TRUE]
    [] what = "disable" -> [f EXCEPT !.secret = FALSE, !.on = FALSE]

ReadsFactor(s, what) ==
  /\ s \in DOMAIN session /\ Free
  /\ MayDo(what, factor[session[s].of])
  /\ doing' = doing \cup {<<session[s].of, what>>}
  /\ UNCHANGED <<policy, factor, journal, login, challenge, asking, session,
                 opened, bare, wrong, writes>>

WritesFactor(u, what) ==
  /\ <<u, what>> \in doing /\ doing' = doing \ {<<u, what>>}
  /\ factor' = [factor EXCEPT ![u] = Done(what, @)]
  /\ login' = [l \in Login |-> [login[l] EXCEPT !.kept =
                 @ /\ (login[l].user = u => Enrolled(u)')]]
  /\ UNCHANGED <<policy, journal, challenge, asking, session, opened, bare,
                 wrong, writes>>

(* put_policy: refused when it would shut its own author out. *)
PutsPolicy(s, p, inside) ==
  /\ s \in DOMAIN session /\ session[s].of = Owner /\ StepUpHeld(s)
  /\ Admits(p, Owner, inside) /\ (p.stepUp => factor[Owner].on)
  /\ writes < MaxPolicies /\ p # policy
  /\ policy' = p /\ writes' = writes + 1
  /\ UNCHANGED <<factor, doing, journal, login, challenge, asking, session,
                 opened, bare, wrong>>

(* logout ends every session of the caller, revoke_session one, and         *)
(* revoke_member_sessions all of one member's.                              *)
LogsOut(u) ==
  /\ SignedIn(u) /\ session' = Left(SessionsOf(u))
  /\ UNCHANGED <<policy, factor, doing, journal, login, challenge, asking,
                 opened, bare, wrong, writes>>

RevokesSession(s, t) ==
  /\ {s, t} \subseteq DOMAIN session
  /\ session[s].of \in {session[t].of, Owner}
  /\ session' = Left({t})
  /\ UNCHANGED <<policy, factor, doing, journal, login, challenge, asking,
                 opened, bare, wrong, writes>>

RevokesMember(s, u) ==
  /\ s \in DOMAIN session /\ session[s].of = Owner /\ StepUpHeld(s)
  /\ SignedIn(u) /\ session' = Left(SessionsOf(u))
  /\ UNCHANGED <<policy, factor, doing, journal, login, challenge, asking,
                 opened, bare, wrong, writes>>

Lapses(s) ==
  /\ s \in DOMAIN session /\ session' = Left({s})
  /\ UNCHANGED <<policy, factor, doing, journal, login, challenge, asking,
                 opened, bare, wrong, writes>>

SignInNext ==
  \/ \E l \in Login, u \in User, m \in Machine \cup {NoId} : LogsIn(l, u, m)
  \/ \E l \in Login : \/ BadPassword(l) \/ WeighsMachine(l) \/ OpensChallenge(l)
                      \/ IssuesBare(l) \/ ChallengeLapses(l)
  \/ \E l \in Login, b \in BOOLEAN : IsAdmitted(l, b) \/ GoodPassword(l, b) \/ Journals(l, b)
  \/ \E q \in Request, l \in Login : PresentsCode(q, l)
  \/ \E q \in Request : WrongCode(q) \/ RightCode(q) \/ NoFactor(q) \/ IssuesProved(q)
  \/ \E q \in Request, w \in BOOLEAN : JournalsProved(q, w)
  \/ \E s \in Session, what \in Acts : ReadsFactor(s, what)
  \/ \E u \in User, what \in Acts : WritesFactor(u, what)
  \/ \E s \in Session : ShowsCode(s) \/ WindowCloses(s) \/ Lapses(s)
  \/ \E s \in Session, p \in Drafts, i \in BOOLEAN : PutsPolicy(s, p, i)
  \/ \E u \in User : LogsOut(u)
  \/ \E s, t \in Session : RevokesSession(s, t)
  \/ \E s \in Session, u \in User : RevokesMember(s, u)

SignInSpec == SignInInit /\ [][SignInNext]_signInVars

-----------------------------------------------------------------------------
SignInTypeOK ==
  /\ policy \in Policy /\ writes \in 0 .. MaxPolicies
  /\ factor \in [User -> [secret : BOOLEAN, on : BOOLEAN]]
  /\ journal \subseteq [user : User, machine : Machine,
        outcome : {"ok", "other"}]
  /\ login \in [Login -> [at : {"idle", "begun", "admitted", "enrolled", "bare", "asked",
                                "challenged", "issued", "done"},
                          user : User, machine : Machine \cup {NoId}, asks : Factors,
                          secret : BOOLEAN, kept : BOOLEAN]]
  /\ challenge \in [Login -> [live : BOOLEAN, attempts : Nat]]
  /\ doing \subseteq User \X Acts
  /\ DOMAIN session \subseteq Session
  /\ \A s \in DOMAIN session : session[s] \in [of : User, shown : BOOLEAN]
  /\ opened \subseteq User \X (Machine \cup {NoId})

(* A user who had a factor when the sign-in read their row, and ever since, *)
(* gets a session without a code only where the policy read asks none, or   *)
(* from a machine this user had signed in from before: other lines of the   *)
(* journal about it, refused passwords among them, do not make it known     *)
(* (security.rs 239-252, 305-317).  The rows are read one by one, so a      *)
(* factor set up or confirmed during the sign-in is not asked for, nor one  *)
(* the server could not read.  And "five wrong codes end the challenge"     *)
(* (security.rs 372-376): five, and at most one more for each other request *)
(* already past that check.                                                 *)
CodeAsked ==
  /\ \A o \in bare :
       \/ o.asked = "off"
       \/ o.asked = "new_device" /\ o.machine # NoId /\ o.again
  /\ \A l \in Login : wrong[l] <= WrongMax + Cardinality(Request) - 1
=============================================================================
