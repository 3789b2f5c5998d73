----------------------------- MODULE Enrolment -----------------------------
(* Accounts: invitations, the letter that confirms an address, enrolment    *)
(* and open sign-up (server/src/enroll.rs; api.rs create_invitation,        *)
(* enroll_email_send, enroll_email_verify, complete_enrollment, signup).    *)
(* Every handler of an invitation is a transaction that holds its row FOR   *)
(* UPDATE, so each is one action; a sign-up counts the organisations before *)
(* its transaction begins, so it is two.                                    *)
EXTENDS Naturals, FiniteSets

CONSTANTS Invitation,   \* codes ever issued, all to one address
          Stranger,     \* addresses that sign up without one
          LettersMax,   \* EMAIL_LETTERS_MAX
          AttemptsMax,  \* EMAIL_ATTEMPTS_MAX
          MaxOrgs,      \* FURY_MAX_ORGS
          MailOn        \* FURY_SMTP_URL is set

ASSUME EnrolAssumption ==
  /\ {LettersMax, AttemptsMax, MaxOrgs} \subseteq Nat \ {0}
  /\ MailOn \in BOOLEAN

VARIABLES
  inv,       \* rows of enrollments
  inbox,     \* letters delivered: invitation -> numbers of the letters
  proofs,    \* proofs handed to a client: invitation -> letters they stand for
  guesses,   \* history: wrong digits answered, per invitation
  account,   \* the invited address: "none" or the invitation it came by
  joining,   \* sign-ups on their way: "idle", "counted", "done", "refused"
  orgs       \* organisations that exist

enrolVars == <<inv, inbox, proofs, guesses, account, joining, orgs>>

Letter == 0 .. LettersMax
NotIssued == [at |-> "none", role |-> "member", sent |-> 0, wait |-> FALSE,
          code |-> 0, live |-> FALSE, attempts |-> 0, proof |-> 0]

EnrolInit ==
  /\ inv = [c \in Invitation |-> NotIssued]
  /\ inbox = [c \in Invitation |-> {}]
  /\ proofs = [c \in Invitation |-> {}]
  /\ guesses = [c \in Invitation |-> 0]
  /\ account = "none"
  /\ joining = [s \in Stranger |-> "idle"]
  /\ orgs = 1

Open(c) == inv[c].at = "open"
EmailCheckApplies(role) == MailOn /\ role # "owner"

(* The window invites members, the server's shell an owner too.  Only the   *)
(* window looks whether the address is already in the team.                 *)
Invites(c, role) ==
  /\ inv[c].at = "none"
  /\ role # "owner" => account = "none"
  /\ inv' = [inv EXCEPT ![c].at = "open", ![c].role = role]
  /\ UNCHANGED <<inbox, proofs, guesses, account, joining, orgs>>

(* Forty-eight hours, a minute, a quarter of an hour. *)
Expires(c) ==
  /\ Open(c)
  /\ inv' = [inv EXCEPT ![c].at = "expired"]
  /\ UNCHANGED <<inbox, proofs, guesses, account, joining, orgs>>

MinutePasses(c) ==
  /\ inv[c].wait
  /\ inv' = [inv EXCEPT ![c].wait = FALSE]
  /\ UNCHANGED <<inbox, proofs, guesses, account, joining, orgs>>

DigitsLapse(c) ==
  /\ inv[c].live
  /\ inv' = [inv EXCEPT ![c].live = FALSE]
  /\ UNCHANGED <<inbox, proofs, guesses, account, joining, orgs>>

(* The letter goes out before the commit: one that could not be sent leaves *)
(* the row as it was, so that case is no step.                              *)
PostedKeepingProof(r) ==    \* mutant: email_proof_hash not cleared
  [r EXCEPT !.sent = @ + 1, !.wait = TRUE, !.code = r.sent + 1,
            !.live = TRUE, !.attempts = 0]
Posted(r) == [r EXCEPT !.sent = @ + 1, !.wait = TRUE, !.code = r.sent + 1,
                       !.live = TRUE, !.attempts = 0, !.proof = 0]

SendsLetter(c) ==
  LET r == inv[c] IN
  /\ Open(c) /\ EmailCheckApplies(r.role)
  /\ ~ r.wait /\ r.sent < LettersMax
  /\ inv' = [inv EXCEPT ![c] = Posted(r)]
  /\ inbox' = [inbox EXCEPT ![c] = @ \cup {r.sent + 1}]
  /\ UNCHANGED <<proofs, guesses, account, joining, orgs>>

(* The digits somebody types: those of a letter they have, or a guess (0). *)
WrongUncounted(r) == r      \* mutant: the failed attempt rolled back
Wrong(r) == [r EXCEPT !.attempts = @ + 1]

TakenOnceMore(r) ==         \* mutant: off by one
  r.code # 0 /\ r.live /\ r.attempts <= AttemptsMax
TakesDigits(r) == r.code # 0 /\ r.live /\ r.attempts < AttemptsMax

Verifies(c, digits) ==
  LET r == inv[c] IN
  /\ Open(c) /\ TakesDigits(r)
  /\ digits \in inbox[c] \cup {0}
  /\ IF digits = r.code
     THEN /\ inv' = [inv EXCEPT ![c].proof = r.code, ![c].code = 0]
          /\ proofs' = [proofs EXCEPT ![c] = @ \cup {r.code}]
          /\ UNCHANGED guesses
     ELSE /\ inv' = [inv EXCEPT ![c] = Wrong(r)]
          /\ guesses' = [guesses EXCEPT ![c] =
                           IF @ > LettersMax * AttemptsMax THEN @ ELSE @ + 1]
          /\ UNCHANGED proofs
  /\ UNCHANGED <<inbox, account, joining, orgs>>

(* The address is unique among users: a second account for it is refused    *)
(* and the transaction leaves nothing.                                      *)
Completes(c, proof) ==
  LET r == inv[c] IN
  /\ Open(c) /\ account = "none"
  /\ proof \in proofs[c] \cup {0}
  /\ EmailCheckApplies(r.role) => proof # 0 /\ proof = r.proof
  /\ inv' = [inv EXCEPT ![c].at = "used"]
  /\ account' = c
  /\ orgs' = IF r.role = "owner" THEN orgs + 1 ELSE orgs
  /\ UNCHANGED <<inbox, proofs, guesses, joining>>

(* An open sign-up: the ceiling read, then the transaction. *)
SignupCounts(s) ==
  /\ joining[s] = "idle"
  /\ joining' = [joining EXCEPT ![s] = IF orgs >= MaxOrgs THEN "refused" ELSE "counted"]
  /\ UNCHANGED <<inv, inbox, proofs, guesses, account, orgs>>

SignupCreates(s) ==
  /\ joining[s] = "counted"
  /\ joining' = [joining EXCEPT ![s] = "done"]
  /\ orgs' = orgs + 1
  /\ UNCHANGED <<inv, inbox, proofs, guesses, account>>

EnrolNext ==
  \/ \E c \in Invitation, role \in {"owner", "member"} : Invites(c, role)
  \/ \E c \in Invitation : Expires(c)
  \/ \E c \in Invitation : MinutePasses(c)
  \/ \E c \in Invitation : DigitsLapse(c)
  \/ \E c \in Invitation : SendsLetter(c)
  \/ \E c \in Invitation, d \in Letter : Verifies(c, d)
  \/ \E c \in Invitation, p \in Letter : Completes(c, p)
  \/ \E s \in Stranger : SignupCounts(s)
  \/ \E s \in Stranger : SignupCreates(s)

EnrolSpec == EnrolInit /\ [][EnrolNext]_enrolVars

EnrolTypeOK ==
  /\ inv \in [Invitation -> [at : {"none", "open", "used", "expired"},
                             role : {"owner", "member"}, sent : Letter,
                             wait : BOOLEAN, code : Letter, live : BOOLEAN,
                             attempts : 0 .. AttemptsMax, proof : Letter]]
  /\ inbox \in [Invitation -> SUBSET (1 .. LettersMax)]
  /\ proofs \in [Invitation -> SUBSET (1 .. LettersMax)]
  /\ guesses \in [Invitation -> Nat]
  /\ account \in Invitation \cup {"none"}
  /\ joining \in [Stranger -> {"idle", "counted", "done", "refused"}]
  /\ orgs \in Nat

(* Whoever holds an invitation's code gets so many tries at the six digits  *)
(* and no more, however the letters, the wrong answers and the lapses       *)
(* follow each other (api.rs 377-382, 497-520); and an account whose        *)
(* address had to be confirmed was made by a proof of the last letter sent: *)
(* a newer letter takes back what an older one proved (api.rs 432-438,      *)
(* 800-818).                                                                *)
AddressProven ==
  /\ \A c \in Invitation : guesses[c] <= LettersMax * AttemptsMax
  /\ \A c \in Invitation : (inv[c].at = "used" /\ EmailCheckApplies(inv[c].role))
       => inv[c].sent > 0 /\ inv[c].proof = inv[c].sent
=============================================================================
