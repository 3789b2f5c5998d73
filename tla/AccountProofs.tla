---------------------------- MODULE AccountProofs ----------------------------
(* Theorems about who gets in and what they may do: Enrolment, SignIn and   *)
(* Access, each for every value of its constants.                           *)
EXTENDS Enrolment, SignIn, Access, Integers, FiniteSetTheorems, TLAPS

-----------------------------------------------------------------------------
(* Invitations, the letter and the account.                                 *)

(* The wrong answers so far: all of every letter but the last, and the last *)
(* one's; digits and proof, where there are any, are the last letter's.     *)
LetterInv == \A c \in Invitation :
  /\ inv[c].sent = 0 => guesses[c] = 0 /\ inv[c].code = 0
  /\ inv[c].sent > 0 => guesses[c] <= (inv[c].sent - 1) * AttemptsMax + inv[c].attempts
  /\ inv[c].code \in {0, inv[c].sent} /\ inv[c].proof \in {0, inv[c].sent}
  /\ inv[c].at = "used" /\ EmailCheckApplies(inv[c].role) => inv[c].proof # 0

EnrolInv == EnrolTypeOK /\ LetterInv

Row == [at : {"none", "open", "used", "expired"}, role : {"owner", "member"},
        sent : Letter, wait : BOOLEAN, code : Letter, live : BOOLEAN,
        attempts : 0 .. AttemptsMax, proof : Letter]

\* A product of naturals grows with its first factor.
LEMMA TimesOrder ==
  ASSUME NEW m \in Nat, NEW n \in Nat, NEW k \in Nat, m <= n PROVE m * k <= n * k
<1>1. PICK d \in Nat : n = m + d
  <2>1. n - m \in Nat /\ n = m + (n - m) OBVIOUS
  <2> QED BY <2>1
<1>2. n * k = m * k + d * k BY <1>1
<1>3. d * k \in Nat /\ m * k \in Nat OBVIOUS
<1> QED BY <1>2, <1>3

\* The tries of all letters but the last, and the last one's, are those of all.
LEMMA LastLetter ==
  ASSUME NEW n \in Nat, NEW k \in Nat, n > 0 PROVE (n - 1) * k + k = n * k
OBVIOUS

\* The limits of enroll.rs are numbers, and so is their product.
LEMMA EnrolNumbers == LettersMax \in Nat \ {0} /\ AttemptsMax \in Nat \ {0} /\ MaxOrgs \in Nat
                        /\ LettersMax * AttemptsMax \in Nat
BY EnrolAssumption

\* No invitation is issued yet.
LEMMA EnrolStart == EnrolInit => EnrolInv
<1> SUFFICES ASSUME EnrolInit PROVE EnrolInv
  OBVIOUS
<1>1. NotIssued \in Row BY EnrolNumbers DEF NotIssued, Row, Letter
<1>2. EnrolTypeOK BY <1>1 DEF EnrolInit, EnrolTypeOK, Row
<1>3. LetterInv BY DEF EnrolInit, LetterInv, NotIssued
<1> QED BY <1>2, <1>3 DEF EnrolInv

\* A handler of an invitation holds its row FOR UPDATE: to keep the invariant it
\* only has to keep it of that row.
LEMMA RowStep ==
  ASSUME EnrolInv, NEW c \in Invitation, NEW r \in Row, inv' = [inv EXCEPT ![c] = r],
         guesses' \in [Invitation -> Nat], \A d \in Invitation \ {c} : guesses'[d] = guesses[d],
         r.sent = 0 => guesses'[c] = 0 /\ r.code = 0,
         r.sent > 0 => guesses'[c] <= (r.sent - 1) * AttemptsMax + r.attempts,
         r.code \in {0, r.sent}, r.proof \in {0, r.sent},
         r.at = "used" /\ EmailCheckApplies(r.role) => r.proof # 0
  PROVE  LetterInv' /\ inv' \in [Invitation -> Row]
BY DEF EnrolInv, EnrolTypeOK, LetterInv, Row, EmailCheckApplies

\* One step per action: a letter starts the attempts again and takes the proof
\* back, a wrong answer is counted in the transaction that refuses it, and an
\* invitation that is used or expired changes no more (enroll.rs; api.rs
\* enroll_email_send to signup).
LEMMA EnrolStep == EnrolInv /\ [EnrolNext]_enrolVars => EnrolInv'
<1> SUFFICES ASSUME EnrolInv, [EnrolNext]_enrolVars PROVE EnrolInv'
  OBVIOUS
<1>0. inv \in [Invitation -> Row] /\ guesses \in [Invitation -> Nat]
  BY DEF EnrolInv, EnrolTypeOK, Row
<1>00. \A c \in Invitation :
         /\ inv[c].sent = 0 => guesses[c] = 0 /\ inv[c].code = 0
         /\ inv[c].sent > 0 => guesses[c] <= (inv[c].sent - 1) * AttemptsMax + inv[c].attempts
         /\ inv[c].code \in {0, inv[c].sent} /\ inv[c].proof \in {0, inv[c].sent}
         /\ inv[c].at = "used" /\ EmailCheckApplies(inv[c].role) => inv[c].proof # 0
  BY DEF EnrolInv, LetterInv
<1>1. CASE UNCHANGED enrolVars
  BY <1>1 DEF enrolVars, EnrolInv, EnrolTypeOK, LetterInv, EmailCheckApplies
<1>2. ASSUME NEW c \in Invitation, NEW kind \in {"owner", "member"}, Invites(c, kind) PROVE EnrolInv'
  <2> DEFINE r == [inv[c] EXCEPT !.at = "open", !.role = kind]
  <2>1. r \in Row /\ r.sent = inv[c].sent /\ r.code = inv[c].code /\ r.attempts = inv[c].attempts
        /\ r.proof = inv[c].proof /\ r.at = "open"
    BY <1>0 DEF Row
  <2>2. inv' = [inv EXCEPT ![c] = r] /\ UNCHANGED <<inbox, proofs, guesses, account, joining, orgs>>
    BY <1>0, <1>2 DEF Invites
  <2> HIDE DEF r
  <2>3. LetterInv' /\ inv' \in [Invitation -> Row] BY <1>0, <1>00, <2>1, <2>2, RowStep
  <2> QED BY <2>2, <2>3 DEF EnrolInv, EnrolTypeOK, Row
<1>3. ASSUME NEW c \in Invitation, Expires(c) \/ MinutePasses(c) \/ DigitsLapse(c) PROVE EnrolInv'
  <2>1. PICK r \in {[inv[c] EXCEPT !.at = "expired"], [inv[c] EXCEPT !.wait = FALSE],
                    [inv[c] EXCEPT !.live = FALSE]} :
          inv' = [inv EXCEPT ![c] = r] /\ UNCHANGED <<inbox, proofs, guesses, account, joining, orgs>>
    <3>1. CASE Expires(c) BY <1>0, <3>1 DEF Expires
    <3>2. CASE MinutePasses(c) BY <1>0, <3>2 DEF MinutePasses
    <3>3. CASE DigitsLapse(c) BY <1>0, <3>3 DEF DigitsLapse
    <3> QED BY <1>3, <3>1, <3>2, <3>3
  <2>2. r \in Row /\ r.sent = inv[c].sent /\ r.code = inv[c].code /\ r.attempts = inv[c].attempts
        /\ r.proof = inv[c].proof /\ r.role = inv[c].role /\ r.at \in {inv[c].at, "expired"}
    <3>1. inv[c] \in Row BY <1>0
    <3>2. CASE r = [inv[c] EXCEPT !.at = "expired"] BY <3>1, <3>2 DEF Row
    <3>3. CASE r = [inv[c] EXCEPT !.wait = FALSE] BY <3>1, <3>3 DEF Row
    <3>4. CASE r = [inv[c] EXCEPT !.live = FALSE] BY <3>1, <3>4 DEF Row
    <3> QED BY <2>1, <3>2, <3>3, <3>4
  <2>3. LetterInv' /\ inv' \in [Invitation -> Row] BY <1>0, <1>00, <2>1, <2>2, RowStep
  <2> QED BY <2>1, <2>3 DEF EnrolInv, EnrolTypeOK, Row
<1>4. ASSUME NEW c \in Invitation, SendsLetter(c) PROVE EnrolInv'
  <2> DEFINE r == Posted(inv[c])
  <2>1. inv[c] \in Row /\ inv[c].sent < LettersMax /\ inv[c].sent \in Nat /\ inv[c].attempts \in Nat
        /\ inv[c].attempts <= AttemptsMax
    BY <1>0, <1>4, EnrolNumbers DEF SendsLetter, Row, Letter
  <2>2. inv[c].sent + 1 \in Letter /\ 0 \in Letter /\ 0 \in 0 .. AttemptsMax
    BY <2>1, EnrolNumbers DEF Letter
  <2>3. r \in Row /\ r.sent = inv[c].sent + 1 /\ r.code = r.sent /\ r.proof = 0 /\ r.attempts = 0
        /\ r.at = inv[c].at
    BY <2>1, <2>2 DEF Posted, Row
  <2>4. inv' = [inv EXCEPT ![c] = r] /\ UNCHANGED <<proofs, guesses, account, joining, orgs>>
        /\ inbox' = [inbox EXCEPT ![c] = @ \cup {inv[c].sent + 1}] /\ inv[c].at = "open"
    BY <1>4 DEF SendsLetter, Open
  <2> HIDE DEF r
  <2>5. guesses[c] <= inv[c].sent * AttemptsMax
    <3>1. CASE inv[c].sent = 0 BY <3>1, <1>00, EnrolNumbers
    <3>2. CASE inv[c].sent > 0
      <4>1. (inv[c].sent - 1) * AttemptsMax + AttemptsMax = inv[c].sent * AttemptsMax
        BY <3>2, <2>1, EnrolNumbers, LastLetter
      <4>2. guesses[c] <= (inv[c].sent - 1) * AttemptsMax + inv[c].attempts BY <3>2, <1>00
      <4>3. (inv[c].sent - 1) * AttemptsMax \in Int /\ inv[c].sent * AttemptsMax \in Int
            /\ guesses[c] \in Int /\ AttemptsMax \in Int
        BY <1>0, <2>1, EnrolNumbers
      <4> QED BY <4>1, <4>2, <4>3, <2>1
    <3> QED BY <3>1, <3>2, <2>1
  <2>6. guesses[c] <= (r.sent - 1) * AttemptsMax + r.attempts
    <3>1. r.sent - 1 = inv[c].sent BY <2>1, <2>3
    <3>2. inv[c].sent * AttemptsMax \in Int BY <2>1, EnrolNumbers
    <3> QED BY <2>5, <3>1, <3>2, <2>3
  <2>7. LetterInv' /\ inv' \in [Invitation -> Row]
    <3>1. r.sent # 0 /\ r.at # "used" /\ r.code \in {0, r.sent} /\ r.proof \in {0, r.sent}
      BY <2>1, <2>3, <2>4
    <3>2. guesses' \in [Invitation -> Nat] /\ guesses'[c] = guesses[c]
          /\ \A d \in Invitation \ {c} : guesses'[d] = guesses[d]
      BY <1>0, <2>4
    <3> QED BY <2>3, <2>4, <2>6, <3>1, <3>2, RowStep
  <2>8. inbox' \in [Invitation -> SUBSET (1 .. LettersMax)]
    BY <2>1, <2>4, EnrolNumbers DEF EnrolInv, EnrolTypeOK
  <2> QED BY <2>4, <2>7, <2>8 DEF EnrolInv, EnrolTypeOK, Row
<1>5. ASSUME NEW c \in Invitation, NEW d \in Letter, Verifies(c, d) PROVE EnrolInv'
  <2>1. inv[c] \in Row /\ inv[c].code # 0 /\ inv[c].attempts < AttemptsMax /\ inv[c].at = "open"
        /\ inv[c].sent \in Nat /\ inv[c].attempts \in Nat /\ inv[c].code = inv[c].sent
        /\ inv[c].sent > 0
    BY <1>0, <1>00, <1>5, EnrolNumbers DEF Verifies, TakesDigits, Row, Letter, Open
  <2>2. CASE d = inv[c].code
    <3> DEFINE r == [inv[c] EXCEPT !.proof = inv[c].code, !.code = 0]
    <3>1. r \in Row /\ r.sent = inv[c].sent /\ r.code = 0 /\ r.proof = r.sent /\ r.at = "open"
          /\ r.attempts = inv[c].attempts
      <4>1. 0 \in Letter BY EnrolNumbers DEF Letter
      <4>2. inv[c].code \in Letter BY <2>1 DEF Row
      <4> QED BY <2>1, <4>1, <4>2 DEF Row
    <3>2. inv' = [inv EXCEPT ![c] = r] /\ UNCHANGED <<inbox, guesses, account, joining, orgs>>
          /\ proofs' = [proofs EXCEPT ![c] = @ \cup {inv[c].code}]
      BY <1>0, <1>5, <2>2 DEF Verifies
    <3> HIDE DEF r
    <3>3. LetterInv' /\ inv' \in [Invitation -> Row]
      BY <1>0, <1>00, <2>1, <3>1, <3>2, RowStep
    <3>4. proofs' \in [Invitation -> SUBSET (1 .. LettersMax)]
      <4>1. inv[c].code \in 1 .. LettersMax BY <2>1, EnrolNumbers DEF Row, Letter
      <4> QED BY <4>1, <3>2 DEF EnrolInv, EnrolTypeOK
    <3> QED BY <3>2, <3>3, <3>4 DEF EnrolInv, EnrolTypeOK, Row
  <2>3. CASE d # inv[c].code
    <3> DEFINE r == Wrong(inv[c])
    <3>1. r \in Row /\ r.sent = inv[c].sent /\ r.code = inv[c].code /\ r.proof = inv[c].proof
          /\ r.at = "open" /\ r.attempts = inv[c].attempts + 1
      <4>1. inv[c].attempts + 1 \in 0 .. AttemptsMax BY <2>1, EnrolNumbers
      <4> QED BY <2>1, <4>1 DEF Wrong, Row
    <3>2. /\ inv' = [inv EXCEPT ![c] = r] /\ UNCHANGED <<inbox, proofs, account, joining, orgs>>
          /\ guesses' = [guesses EXCEPT ![c] = IF @ > LettersMax * AttemptsMax THEN @ ELSE @ + 1]
      BY <1>5, <2>3 DEF Verifies
    <3> HIDE DEF r
    <3>3. /\ guesses'[c] \in Nat /\ guesses'[c] <= guesses[c] + 1
          /\ guesses' \in [Invitation -> Nat] /\ \A e \in Invitation \ {c} : guesses'[e] = guesses[e]
      BY <1>0, <3>2
    <3>4. guesses'[c] <= (r.sent - 1) * AttemptsMax + r.attempts
      <4>1. guesses[c] <= (inv[c].sent - 1) * AttemptsMax + inv[c].attempts BY <1>00, <2>1
      <4>2. (inv[c].sent - 1) * AttemptsMax \in Int /\ guesses[c] \in Int
        BY <1>0, <2>1, EnrolNumbers
      <4> QED BY <3>1, <3>3, <4>1, <4>2, <2>1
    <3>5. LetterInv' /\ inv' \in [Invitation -> Row]
      BY <1>0, <1>00, <2>1, <3>1, <3>2, <3>3, <3>4, RowStep
    <3> QED BY <3>2, <3>3, <3>5 DEF EnrolInv, EnrolTypeOK, Row
  <2> QED BY <2>2, <2>3
<1>6. ASSUME NEW c \in Invitation, NEW p \in Letter, Completes(c, p) PROVE EnrolInv'
  <2> DEFINE r == [inv[c] EXCEPT !.at = "used"]
  <2>1. r \in Row /\ r.sent = inv[c].sent /\ r.code = inv[c].code /\ r.attempts = inv[c].attempts
        /\ r.proof = inv[c].proof /\ r.role = inv[c].role
    BY <1>0 DEF Row
  <2>2. inv' = [inv EXCEPT ![c] = r] /\ UNCHANGED <<inbox, proofs, guesses, joining>>
        /\ account' = c /\ orgs' \in {orgs, orgs + 1}
        /\ (EmailCheckApplies(r.role) => r.proof # 0)
    BY <1>0, <1>6, <2>1 DEF Completes
  <2> HIDE DEF r
  <2>3. LetterInv' /\ inv' \in [Invitation -> Row]
    <3>1. guesses' \in [Invitation -> Nat] /\ guesses'[c] = guesses[c]
          /\ \A d \in Invitation \ {c} : guesses'[d] = guesses[d]
      BY <1>0, <2>2
    <3>2. /\ r.sent = 0 => guesses[c] = 0 /\ r.code = 0
          /\ r.sent > 0 => guesses[c] <= (r.sent - 1) * AttemptsMax + r.attempts
          /\ r.code \in {0, r.sent} /\ r.proof \in {0, r.sent}
      BY <1>00, <2>1
    <3> QED BY <2>1, <2>2, <3>1, <3>2, RowStep
  <2>4. orgs' \in Nat /\ account' \in Invitation BY <2>2 DEF EnrolInv, EnrolTypeOK
  <2> QED BY <2>2, <2>3, <2>4 DEF EnrolInv, EnrolTypeOK, Row
<1>7. ASSUME NEW s \in Stranger, SignupCounts(s) \/ SignupCreates(s) PROVE EnrolInv'
  <2>1. UNCHANGED <<inv, inbox, proofs, guesses, account>> BY <1>7 DEF SignupCounts, SignupCreates
  <2>2. LetterInv' BY <2>1 DEF EnrolInv, LetterInv, EmailCheckApplies
  <2>3. EnrolTypeOK' BY <1>7, <2>1 DEF EnrolInv, EnrolTypeOK, SignupCounts, SignupCreates
  <2> QED BY <2>2, <2>3 DEF EnrolInv
<1> QED BY <1>1, <1>2, <1>3, <1>4, <1>5, <1>6, <1>7 DEF EnrolNext

\* So many wrong answers a letter, so many letters an invitation: the product is
\* never passed, since only the last letter's attempts are still open.
LEMMA EnrolProven == EnrolInv => AddressProven
<1> SUFFICES ASSUME EnrolInv PROVE AddressProven
  OBVIOUS
<1>1. ASSUME NEW c \in Invitation PROVE guesses[c] <= LettersMax * AttemptsMax
  <2>1. inv[c].sent \in Nat /\ inv[c].sent <= LettersMax /\ inv[c].attempts \in Nat
        /\ inv[c].attempts <= AttemptsMax /\ guesses[c] \in Nat
    BY EnrolNumbers DEF EnrolInv, EnrolTypeOK, Letter
  <2>2. CASE inv[c].sent = 0 BY <2>2, EnrolNumbers DEF EnrolInv, LetterInv
  <2>3. CASE inv[c].sent > 0
    <3>1. guesses[c] <= (inv[c].sent - 1) * AttemptsMax + inv[c].attempts
      BY <2>3 DEF EnrolInv, LetterInv
    <3>2. (inv[c].sent - 1) * AttemptsMax + AttemptsMax = inv[c].sent * AttemptsMax
      BY <2>1, <2>3, EnrolNumbers, LastLetter
    <3>3. inv[c].sent * AttemptsMax <= LettersMax * AttemptsMax BY <2>1, EnrolNumbers, TimesOrder
    <3>4. (inv[c].sent - 1) * AttemptsMax \in Int /\ inv[c].sent * AttemptsMax \in Int
      BY <2>1, EnrolNumbers
    <3> QED BY <2>1, <3>1, <3>2, <3>3, <3>4, EnrolNumbers
  <2> QED BY <2>1, <2>2, <2>3
<1>2. ASSUME NEW c \in Invitation, inv[c].at = "used", EmailCheckApplies(inv[c].role)
      PROVE  inv[c].sent > 0 /\ inv[c].proof = inv[c].sent
  BY <1>2 DEF EnrolInv, LetterInv, EnrolTypeOK, Letter
<1> QED BY <1>1, <1>2 DEF AddressProven

\* Nobody gets more tries at the digits than letters times attempts, and an
\* account whose address had to be confirmed was made by a proof of the last
\* letter (api.rs 377-438, 497-520, 800-818).
THEOREM EnrolSafe == EnrolSpec => [](EnrolTypeOK /\ AddressProven)
<1>1. EnrolInv => EnrolTypeOK /\ AddressProven BY EnrolProven DEF EnrolInv
<1> QED BY <1>1, EnrolStart, EnrolStep, PTL DEF EnrolSpec

-----------------------------------------------------------------------------
(* The password, the code and the session.                                  *)

LoginRow == [at : {"idle", "begun", "admitted", "enrolled", "bare", "asked",
                   "challenged", "issued", "done"},
             user : User, machine : Machine \cup {NoId}, asks : Factors,
             secret : BOOLEAN, kept : BOOLEAN]
AskRow == [at : {"unsent", "read", "proved", "issued", "answered"},
           of : Login \cup {"none"}, read : Nat]
ChallengeRow == [live : BOOLEAN, attempts : Nat]
Lines == [user : User, machine : Machine, outcome : {"ok", "other"}]

SignInTypes ==
  /\ SignInTypeOK
  /\ asking \in [Request -> AskRow] /\ wrong \in [Login -> Nat]

(* A line of the journal that says "ok", and a sign-in or a request about   *)
(* to write one, come after the session.                                    *)
Who(l) == <<login[l].user, login[l].machine>>
KnownInv ==
  /\ \A u \in User, m \in Machine : Line(u, m, "ok") \in journal => <<u, m>> \in opened
  /\ \A l \in Login : login[l].at = "issued" => Who(l) \in opened
  /\ \A q \in Request : asking[q].at = "issued" => Who(asking[q].of) \in opened

(* What a sign-in without a code rests on, when its user has had a factor   *)
(* since it read the row: while the factor is not weighed, that it read a   *)
(* secret, and after that, the policy or the machine.                       *)
Grounds(asks, machine, again) ==
  asks = "off" \/ (asks = "new_device" /\ machine # NoId /\ again)
Founded(x) == x.kept =>
  /\ Enrolled(x.user)
  /\ x.at \in {"begun", "admitted"} => x.secret
  /\ x.at = "bare" => Grounds(x.asks, x.machine, <<x.user, x.machine>> \in opened)
BareInv ==
  /\ \A o \in bare : Grounds(o.asked, o.machine, o.again)
  /\ \A l \in Login : Founded(login[l])

(* The requests past the check of a challenge. *)
Readers(l) == {q \in Request : asking[q].at = "read" /\ asking[q].of = l}

Early == {"idle", "begun", "admitted", "enrolled", "bare", "asked"}
TriesInv == \A l \in Login :
  /\ login[l].at \in Early => wrong[l] = 0 /\ challenge[l] = NoChallenge
  /\ challenge[l].live => wrong[l] = challenge[l].attempts
  /\ wrong[l] + Cardinality(Readers(l)) <= WrongMax + Cardinality(Request) - 1

AskInv == \A q \in Request : asking[q].at \in {"read", "proved", "issued"} =>
  asking[q].of \in Login /\ login[asking[q].of].at = "challenged"

SignInInv == SignInTypes /\ KnownInv /\ BareInv /\ TriesInv /\ AskInv

\* The requests past a challenge's check are some of all the requests.
LEMMA ReadersCounted ==
  /\ Cardinality(Request) \in Nat
  /\ \A l : IsFiniteSet(Readers(l)) /\ Cardinality(Readers(l)) \in Nat
            /\ Cardinality(Readers(l)) <= Cardinality(Request)
<1>1. \A l : Readers(l) \subseteq Request BY DEF Readers
<1> QED BY <1>1, SignInAssumption, FS_Subset, FS_CardinalityType

\* The bounds of security.rs are numbers, and some wrong code is let through.
LEMMA SignInNumbers == WrongMax \in Nat /\ WrongMax > 0 /\ MaxPolicies \in Nat
<1>1. WrongMax \in Nat \ {0} /\ MaxPolicies \in Nat \ {0} BY SignInAssumption
<1> QED BY <1>1

\* What a sign-in, a code request and a challenge are before they begin.
LEMMA RowFacts ==
  /\ Idle \in LoginRow /\ Idle.at = "idle" /\ Idle.kept = FALSE
  /\ Ended \in LoginRow /\ Ended.at = "done" /\ Ended.kept = FALSE
  /\ NoAsk \in AskRow /\ NoAsk.at = "unsent"
  /\ NoChallenge \in ChallengeRow /\ NoChallenge.live = FALSE /\ NoChallenge.attempts = 0
<1>1. Idle \in LoginRow /\ Idle.at = "idle" /\ Idle.kept = FALSE
  BY SignInAssumption DEF Idle, LoginRow, Factors
<1>2. Ended \in LoginRow /\ Ended.at = "done" /\ Ended.kept = FALSE
  BY <1>1 DEF Ended, LoginRow
<1>3. NoAsk \in AskRow /\ NoAsk.at = "unsent" BY DEF NoAsk, AskRow
<1>4. NoChallenge \in ChallengeRow /\ NoChallenge.live = FALSE /\ NoChallenge.attempts = 0
  BY DEF NoChallenge, ChallengeRow
<1> QED BY <1>1, <1>2, <1>3, <1>4

\* The types, one variable at a time.
LEMMA SignInRows ==
  ASSUME SignInTypes
  PROVE  /\ login \in [Login -> LoginRow] /\ challenge \in [Login -> ChallengeRow]
         /\ asking \in [Request -> AskRow] /\ wrong \in [Login -> Nat]
         /\ policy \in Policy /\ writes \in 0 .. MaxPolicies
         /\ factor \in [User -> [secret : BOOLEAN, on : BOOLEAN]]
         /\ doing \subseteq User \X Acts /\ opened \subseteq User \X (Machine \cup {NoId})
         /\ journal \subseteq Lines
         /\ DOMAIN session \subseteq Session
         /\ \A s \in DOMAIN session : session[s] \in [of : User, shown : BOOLEAN]
BY DEF SignInTypes, SignInTypeOK, LoginRow, ChallengeRow, Lines

\* Nobody is signing in and no line is written.
LEMMA SignInStart == SignInInit => SignInInv
<1> SUFFICES ASSUME SignInInit PROVE SignInInv
  OBVIOUS
<1>1. SignInTypes
  <2>1. policy \in Policy BY SignInAssumption DEF SignInInit
  <2>2. session = [s \in {} |-> {}] BY DEF SignInInit
  <2>3. DOMAIN session = {} BY <2>2
  <2>4. login \in [Login -> LoginRow] /\ challenge \in [Login -> ChallengeRow]
        /\ asking \in [Request -> AskRow]
    BY RowFacts DEF SignInInit
  <2>5. writes \in 0 .. MaxPolicies BY SignInNumbers DEF SignInInit
  <2>6. wrong \in [Login -> Nat] /\ factor \in [User -> [secret : BOOLEAN, on : BOOLEAN]]
    BY DEF SignInInit
  <2> QED BY <2>1, <2>3, <2>4, <2>5, <2>6
    DEF SignInInit, SignInTypes, SignInTypeOK, LoginRow, ChallengeRow
<1>2. KnownInv /\ BareInv /\ AskInv
  BY RowFacts DEF SignInInit, KnownInv, BareInv, Founded, AskInv
<1>3. TriesInv
  <2>1. \A l : Readers(l) = {} BY RowFacts DEF SignInInit, Readers
  <2> QED BY <2>1, RowFacts, ReadersCounted, SignInNumbers, FS_EmptySet DEF SignInInit, TriesInv
<1> QED BY <1>1, <1>2, <1>3 DEF SignInInv

\* A request about sessions or the policy leaves the sign-ins, the challenges, the
\* factors and the journal alone, and so keeps the invariant.
LEMMA Elsewhere ==
  ASSUME SignInInv,
         UNCHANGED <<factor, journal, login, challenge, asking, opened, bare, wrong>>,
         policy' \in Policy, writes' \in 0 .. MaxPolicies,
         doing' \subseteq User \X Acts, DOMAIN session' \subseteq Session,
         \A s \in DOMAIN session' : session'[s] \in [of : User, shown : BOOLEAN]
  PROVE  SignInInv'
BY DEF SignInInv, SignInTypes, SignInTypeOK, KnownInv, Who, BareInv, Founded, Enrolled,
       TriesInv, AskInv, Readers

\* A line makes a machine known only if it says "ok" and names that machine.
LEMMA JournalGrows ==
  ASSUME SignInTypes, NEW u \in User, NEW m \in Machine \cup {NoId}, NEW o \in {"ok", "other"}
  PROVE  /\ Journal(u, m, o) \subseteq Lines
         /\ \A v \in User, n \in Machine : Line(v, n, "ok") \in Journal(u, m, o) =>
              Line(v, n, "ok") \in journal \/ (o = "ok" /\ v = u /\ n = m)
<1>1. journal \subseteq Lines BY SignInRows
<1>2. CASE m = NoId BY <1>1, <1>2 DEF Journal
<1>3. CASE m # NoId
  <2>1. Journal(u, m, o) = journal \cup {Line(u, m, o)} /\ m \in Machine BY <1>3 DEF Journal
  <2>2. Line(u, m, o) \in Lines BY <2>1 DEF Line, Lines
  <2>3. ASSUME NEW v \in User, NEW n \in Machine, Line(v, n, "ok") = Line(u, m, o)
        PROVE  o = "ok" /\ v = u /\ n = m
    <3>1. Line(v, n, "ok").user = Line(u, m, o).user /\ Line(v, n, "ok").machine = Line(u, m, o).machine
          /\ Line(v, n, "ok").outcome = Line(u, m, o).outcome
      BY <2>3
    <3> QED BY <3>1 DEF Line
  <2> QED BY <1>1, <2>1, <2>2, <2>3
<1> QED BY <1>2, <1>3

\* Lines that say something else make no machine known.
LEMMA Refusals ==
  ASSUME SignInTypes, NEW u \in User, NEW m \in Machine \cup {NoId}
  PROVE  /\ Journal(u, m, "other") \subseteq Lines
         /\ \A v \in User, n \in Machine : Line(v, n, "ok") \in Journal(u, m, "other") =>
              Line(v, n, "ok") \in journal
BY JournalGrows

\* A sign-in that has no challenge goes one step on, with grounds for what it holds.
LEMMA LoginMoves ==
  ASSUME SignInInv, NEW l \in Login, NEW r \in LoginRow, login' = [login EXCEPT ![l] = r],
         login[l].at # "challenged", r.at \in Early => login[l].at \in Early,
         Founded(r), r.at = "issued" => <<r.user, r.machine>> \in opened',
         journal' \subseteq Lines,
         \A v \in User, n \in Machine :
           Line(v, n, "ok") \in journal' => Line(v, n, "ok") \in journal \/ <<v, n>> \in opened,
         opened \subseteq opened', opened' \subseteq User \X (Machine \cup {NoId}),
         \A o \in bare' : o \in bare \/ Grounds(o.asked, o.machine, o.again),
         DOMAIN session' \subseteq Session,
         \A s \in DOMAIN session' : session'[s] \in [of : User, shown : BOOLEAN],
         UNCHANGED <<policy, factor, doing, challenge, asking, wrong, writes>>
  PROVE  SignInInv'
<1>0. SignInTypes /\ KnownInv /\ BareInv /\ TriesInv /\ AskInv BY DEF SignInInv
<1>1. login' \in [Login -> LoginRow] /\ login'[l] = r /\ \A k \in Login \ {l} : login'[k] = login[k]
  BY <1>0, SignInRows
<1>2. SignInTypes'
  BY <1>0, <1>1, SignInRows DEF SignInTypes, SignInTypeOK, LoginRow, Lines
<1>3. AskInv' BY <1>0, <1>1 DEF AskInv
<1>4. KnownInv'
  <2>1. \A v \in User, n \in Machine : Line(v, n, "ok") \in journal' => <<v, n>> \in opened'
    BY <1>0 DEF KnownInv
  <2>2. \A k \in Login : login'[k].at = "issued" => Who(k)' \in opened'
    BY <1>0, <1>1 DEF KnownInv, Who
  <2>3. \A q \in Request : asking[q].at = "issued" => Who(asking[q].of)' \in opened'
    BY <1>0, <1>1 DEF KnownInv, AskInv, Who
  <2> QED BY <2>1, <2>2, <2>3 DEF KnownInv, Line
<1>5. BareInv'
  <2>1. \A u : Enrolled(u)' = Enrolled(u) BY DEF Enrolled
  <2>2. \A x : Founded(x) => Founded(x)' BY <2>1 DEF Founded, Grounds
  <2>3. \A k \in Login : Founded(login[k]) /\ Founded(r) BY <1>0 DEF BareInv
  <2>4. \A k \in Login : Founded(login[k])' BY <1>1, <2>2, <2>3
  <2>5. \A o \in bare' : Grounds(o.asked, o.machine, o.again) BY <1>0 DEF BareInv
  <2> QED BY <2>4, <2>5 DEF BareInv, Grounds
<1>6. TriesInv' BY <1>0, <1>1 DEF TriesInv, Readers
<1> QED BY <1>2, <1>3, <1>4, <1>5, <1>6 DEF SignInInv

\* A request past a challenge's check goes one step on, and may end the challenge.
LEMMA AskMoves ==
  ASSUME SignInInv, NEW q \in Request, NEW l \in Login, login[l].at = "challenged",
         NEW r \in AskRow, asking' = [asking EXCEPT ![q] = r], r.at # "read",
         r.at \in {"proved", "issued"} => r.of = l,
         r.at = "issued" => Who(l) \in opened',
         challenge' \in {challenge, [challenge EXCEPT ![l] = NoChallenge]},
         journal' \subseteq Lines,
         \A v \in User, n \in Machine :
           Line(v, n, "ok") \in journal' => Line(v, n, "ok") \in journal \/ <<v, n>> \in opened,
         opened \subseteq opened', opened' \subseteq User \X (Machine \cup {NoId}),
         DOMAIN session' \subseteq Session,
         \A s \in DOMAIN session' : session'[s] \in [of : User, shown : BOOLEAN],
         UNCHANGED <<policy, factor, doing, login, bare, wrong, writes>>
  PROVE  SignInInv'
<1>0. SignInTypes /\ KnownInv /\ BareInv /\ TriesInv /\ AskInv BY DEF SignInInv
<1>rows. /\ asking \in [Request -> AskRow] /\ challenge \in [Login -> ChallengeRow]
         /\ wrong \in [Login -> Nat]
  BY <1>0, SignInRows
<1>1. /\ asking' \in [Request -> AskRow] /\ asking'[q] = r
      /\ \A p \in Request \ {q} : asking'[p] = asking[p]
  BY <1>rows
<1>2. challenge' \in [Login -> ChallengeRow]
      /\ \A k \in Login : challenge'[k] = challenge[k] \/ (k = l /\ challenge'[k] = NoChallenge)
  BY <1>rows, RowFacts
<1>3. SignInTypes'
  BY <1>0, <1>1, <1>2, SignInRows DEF SignInTypes, SignInTypeOK, ChallengeRow, Lines
<1>4. AskInv' BY <1>0, <1>1 DEF AskInv
<1>5. KnownInv'
  <2>1. \A v \in User, n \in Machine : Line(v, n, "ok") \in journal' => <<v, n>> \in opened'
    BY <1>0 DEF KnownInv
  <2>2. \A p \in Request : asking'[p].at = "issued" => Who(asking'[p].of) \in opened'
    BY <1>0, <1>1 DEF KnownInv
  <2> QED BY <1>0, <2>1, <2>2 DEF KnownInv, Line, Who
<1>6. BareInv' BY <1>0 DEF BareInv, Founded, Grounds, Enrolled
<1>7. TriesInv'
  <2>1. ASSUME NEW k \in Login
        PROVE  wrong[k] + Cardinality(Readers(k)') <= WrongMax + Cardinality(Request) - 1
    <3>1. Readers(k)' \subseteq Readers(k) BY <1>1 DEF Readers
    <3>2. Cardinality(Readers(k)') <= Cardinality(Readers(k)) /\ Cardinality(Readers(k)') \in Nat
      BY <3>1, ReadersCounted, FS_Subset, FS_CardinalityType
    <3>3. wrong[k] + Cardinality(Readers(k)) <= WrongMax + Cardinality(Request) - 1
      BY <1>0 DEF TriesInv
    <3> QED BY <1>rows, <3>2, <3>3, ReadersCounted, SignInNumbers
  <2> QED BY <1>0, <1>2, <2>1, RowFacts DEF TriesInv, Early
<1> QED BY <1>3, <1>4, <1>5, <1>6, <1>7 DEF SignInInv

\* One step per action: what a request read of a challenge may be old when it
\* answers, what it counts is counted on the row (security.rs 322-414; api.rs
\* login, issue_session).
LEMMA SignInStep == SignInInv /\ [SignInNext]_signInVars => SignInInv'
<1> SUFFICES ASSUME SignInInv, [SignInNext]_signInVars PROVE SignInInv'
  OBVIOUS
<1>0. /\ login \in [Login -> LoginRow] /\ challenge \in [Login -> ChallengeRow]
      /\ asking \in [Request -> AskRow] /\ wrong \in [Login -> Nat]
      /\ policy \in Policy /\ writes \in 0 .. MaxPolicies
      /\ factor \in [User -> [secret : BOOLEAN, on : BOOLEAN]]
      /\ doing \subseteq User \X Acts /\ opened \subseteq User \X (Machine \cup {NoId})
      /\ journal \subseteq Lines
      /\ DOMAIN session \subseteq Session
      /\ \A s \in DOMAIN session : session[s] \in [of : User, shown : BOOLEAN]
  BY SignInRows DEF SignInInv
<1>i. SignInTypes /\ KnownInv /\ BareInv /\ TriesInv /\ AskInv BY DEF SignInInv
<1>1. CASE UNCHANGED signInVars
  BY <1>0, <1>1, Elsewhere DEF signInVars
<1>row. ASSUME NEW l \in Login
        PROVE  /\ login[l] \in LoginRow /\ Founded(login[l])
               /\ login[l].user \in User /\ login[l].machine \in Machine \cup {NoId}
               /\ login[l].asks \in Factors /\ login[l].secret \in BOOLEAN /\ login[l].kept \in BOOLEAN
  BY <1>0, <1>i DEF LoginRow, BareInv
<1>refused. ASSUME NEW l \in Login
            PROVE  LET j == Journal(login[l].user, login[l].machine, "other") IN
                   /\ j \subseteq Lines
                   /\ \A v \in User, n \in Machine : Line(v, n, "ok") \in j => Line(v, n, "ok") \in journal
  BY <1>i, <1>row, Refusals
<1>ended. Ended \in LoginRow /\ Ended.at = "done" /\ Founded(Ended) BY RowFacts DEF Founded
<1>2. ASSUME NEW l \in Login, NEW u \in User, NEW m \in Machine \cup {NoId}, LogsIn(l, u, m)
      PROVE  SignInInv'
  <2> DEFINE r == [at |-> "begun", user |-> u, machine |-> m, asks |-> "off",
                   secret |-> factor[u].secret, kept |-> Enrolled(u)]
  <2>1. /\ login' = [login EXCEPT ![l] = r] /\ login[l].at = "idle"
        /\ UNCHANGED <<policy, factor, doing, journal, challenge, asking, session, opened, bare, wrong, writes>>
    BY <1>2 DEF LogsIn
  <2>2. factor[u].secret \in BOOLEAN /\ Enrolled(u) \in BOOLEAN BY <1>0 DEF Enrolled
  <2>3. r \in LoginRow /\ r.at = "begun" BY <2>2 DEF LoginRow, Factors
  <2>4. Founded(r) BY DEF Founded, Enrolled
  <2> HIDE DEF r
  <2> QED BY <1>0, <2>1, <2>3, <2>4, LoginMoves DEF Early
<1>3. ASSUME NEW l \in Login, NEW i \in BOOLEAN, IsAdmitted(l, i) PROVE SignInInv'
  <2> DEFINE r == [login[l] EXCEPT !.at = "admitted", !.asks = policy.factor]
  <2>1. /\ login[l].at = "begun"
        /\ UNCHANGED <<policy, factor, doing, challenge, asking, session, opened, bare, wrong, writes>>
    BY <1>3 DEF IsAdmitted
  <2>2. CASE Admits(policy, login[l].user, i)
    <3>1. login' = [login EXCEPT ![l] = r] /\ UNCHANGED journal BY <1>3, <2>2 DEF IsAdmitted
    <3>2. r \in LoginRow /\ r.at = "admitted" BY <1>0, <1>row DEF LoginRow, Policy
    <3>3. r.kept = login[l].kept /\ r.user = login[l].user /\ r.secret = login[l].secret
      BY <1>row DEF LoginRow
    <3> HIDE DEF r
    <3>4. Founded(r) BY <1>row, <2>1, <3>2, <3>3 DEF Founded
    <3> QED BY <1>0, <2>1, <3>1, <3>2, <3>4, LoginMoves DEF Early
  <2>3. CASE ~ Admits(policy, login[l].user, i)
    <3>1. /\ login' = [login EXCEPT ![l] = Ended]
          /\ journal' = Journal(login[l].user, login[l].machine, "other")
      BY <1>3, <2>3 DEF IsAdmitted
    <3> QED BY <1>0, <1>refused, <1>ended, <2>1, <3>1, LoginMoves DEF Early
  <2> QED BY <2>2, <2>3
<1>4. ASSUME NEW l \in Login, BadPassword(l) PROVE SignInInv'
  <2>1. /\ login' = [login EXCEPT ![l] = Ended] /\ login[l].at = "admitted"
        /\ journal' = Journal(login[l].user, login[l].machine, "other")
        /\ UNCHANGED <<policy, factor, doing, challenge, asking, session, opened, bare, wrong, writes>>
    BY <1>4 DEF BadPassword
  <2> QED BY <1>0, <1>refused, <1>ended, <2>1, LoginMoves DEF Early
<1>good. ASSUME NEW l \in Login, NEW b \in BOOLEAN, GoodPassword(l, b) PROVE SignInInv'
  <2> DEFINE x == login[l]
             on == x.secret /\ b /\ factor[x.user].on
             r == [x EXCEPT !.at = IF on THEN "enrolled" ELSE "bare", !.secret = FALSE,
                            !.kept = x.kept /\ b]
  <2>1. /\ login' = [login EXCEPT ![l] = r] /\ x.at = "admitted"
        /\ UNCHANGED <<policy, factor, doing, journal, challenge, asking, session, opened, bare, wrong, writes>>
    BY <1>good DEF GoodPassword
  <2>2. /\ r \in LoginRow /\ r.at = (IF on THEN "enrolled" ELSE "bare") /\ r.user = x.user
        /\ r.kept = (x.kept /\ b)
    <3> DEFINE y == [x EXCEPT !.at = IF on THEN "enrolled" ELSE "bare", !.secret = FALSE]
    <3>1. y \in LoginRow /\ y.at = (IF on THEN "enrolled" ELSE "bare") /\ y.user = x.user
      BY <1>row DEF LoginRow
    <3>2. r = [y EXCEPT !.kept = x.kept /\ b] BY <1>row DEF LoginRow
    <3>3. (x.kept /\ b) \in BOOLEAN OBVIOUS
    <3> HIDE DEF y, r, on
    <3>4. \A c \in BOOLEAN : LET z == [y EXCEPT !.kept = c] IN
            z \in LoginRow /\ z.at = y.at /\ z.user = y.user /\ z.kept = c
      BY <3>1 DEF LoginRow
    <3> QED BY <3>1, <3>2, <3>3, <3>4
  <2>3. Founded(r)
    <3>1. ASSUME r.kept PROVE Enrolled(x.user) /\ on
      BY <1>row, <2>1, <2>2, <3>1 DEF Founded, Enrolled
    <3> HIDE DEF r, on
    <3> QED BY <2>2, <3>1 DEF Founded
  <2> HIDE DEF r, on
  <2> QED BY <1>0, <2>1, <2>2, <2>3, LoginMoves DEF Early
<1>weigh. ASSUME NEW l \in Login, WeighsMachine(l) PROVE SignInInv'
  <2> DEFINE x == login[l]
  <2>1. x.at = "enrolled" /\ x \in LoginRow
        /\ UNCHANGED <<policy, factor, doing, journal, challenge, asking, session, opened, bare, wrong, writes>>
    BY <1>row, <1>weigh DEF WeighsMachine
  <2>2. CASE CodeRequired(x)
    <3> DEFINE r == Known(x, "asked")
    <3>1. login' = [login EXCEPT ![l] = r] BY <1>weigh, <2>2 DEF WeighsMachine
    <3>2. r \in LoginRow /\ r.at = "asked" /\ r.kept = FALSE BY <2>1 DEF Known, LoginRow, Factors
    <3> HIDE DEF r
    <3>3. Founded(r) BY <3>2 DEF Founded
    <3> QED BY <1>0, <2>1, <3>1, <3>2, <3>3, LoginMoves DEF Early
  <2>3. CASE ~ CodeRequired(x)
    <3> DEFINE r == [x EXCEPT !.at = "bare"]
    <3>1. login' = [login EXCEPT ![l] = r] BY <1>weigh, <2>3 DEF WeighsMachine
    <3>2. /\ r \in LoginRow /\ r.at = "bare" /\ r.kept = x.kept /\ r.user = x.user
          /\ r.machine = x.machine /\ r.asks = x.asks
      BY <2>1 DEF LoginRow
    <3> HIDE DEF r
    <3>3. Grounds(x.asks, x.machine, <<x.user, x.machine>> \in opened)
      <4>1. CASE x.asks = "off" BY <4>1 DEF Grounds
      <4>2. CASE x.asks # "off"
        <5>1. x.asks = "new_device" /\ KnownDevice(x.user, x.machine)
          BY <1>row, <2>3, <4>2 DEF CodeRequired, Factors
        <5> QED BY <1>i, <1>row, <5>1 DEF KnownDevice, KnownInv, Grounds
      <4> QED BY <4>1, <4>2
    <3>4. Founded(r) BY <1>row, <3>2, <3>3 DEF Founded
    <3> QED BY <1>0, <2>1, <3>1, <3>2, <3>4, LoginMoves DEF Early
  <2> QED BY <2>2, <2>3
<1>open. ASSUME NEW l \in Login, OpensChallenge(l) PROVE SignInInv'
  <2> DEFINE r == [login[l] EXCEPT !.at = "challenged"]
  <2>1. /\ login[l].at = "asked" /\ challenge' = [challenge EXCEPT ![l].live = TRUE]
        /\ login' = [login EXCEPT ![l] = r]
        /\ journal' = Journal(login[l].user, login[l].machine, "other")
        /\ UNCHANGED <<policy, factor, doing, asking, session, opened, bare, wrong, writes>>
    BY <1>open DEF OpensChallenge
  <2>2. r \in LoginRow /\ r.at = "challenged" /\ r.kept = login[l].kept /\ r.user = login[l].user
        /\ r.machine = login[l].machine
    BY <1>row DEF LoginRow
  <2> HIDE DEF r
  <2>3. /\ login' \in [Login -> LoginRow] /\ login'[l] = r
        /\ \A k \in Login \ {l} : login'[k] = login[k]
    BY <1>0, <2>1, <2>2
  <2>4. wrong[l] = 0 /\ challenge[l] = NoChallenge BY <1>i, <2>1 DEF TriesInv, Early
  <2>5. /\ challenge' \in [Login -> ChallengeRow] /\ challenge'[l].attempts = 0
        /\ \A k \in Login \ {l} : challenge'[k] = challenge[k]
    <3>1. [challenge[l] EXCEPT !.live = TRUE] \in ChallengeRow
          /\ [challenge[l] EXCEPT !.live = TRUE].attempts = 0
      BY <2>4, RowFacts DEF ChallengeRow
    <3> QED BY <1>0, <2>1, <3>1
  <2>6. SignInTypes'
    <3>1. journal' \subseteq Lines BY <1>refused, <2>1
    <3> QED BY <1>0, <1>i, <2>1, <2>3, <2>5, <3>1
      DEF SignInTypes, SignInTypeOK, LoginRow, ChallengeRow, Lines
  <2>7. KnownInv'
    <3>1. \A v \in User, n \in Machine : Line(v, n, "ok") \in journal' => Line(v, n, "ok") \in journal
      BY <1>refused, <2>1
    <3>2. \A k \in Login : Who(k)' = Who(k) BY <2>2, <2>3 DEF Who
    <3>3. \A v \in User, n \in Machine : Line(v, n, "ok") \in journal' => <<v, n>> \in opened
      BY <1>i, <3>1 DEF KnownInv
    <3>4. \A k \in Login : login'[k].at = "issued" => Who(k)' \in opened
      BY <1>i, <2>2, <2>3, <3>2 DEF KnownInv
    <3>5. \A q \in Request : asking[q].at = "issued" => Who(asking[q].of)' \in opened
      <4> SUFFICES ASSUME NEW q \in Request, asking[q].at = "issued"
                   PROVE  <<login'[asking[q].of].user, login'[asking[q].of].machine>> \in opened
        BY <2>1 DEF Who
      <4>1. asking[q].of \in Login /\ Who(asking[q].of) \in opened BY <1>i DEF KnownInv, AskInv
      <4> QED BY <3>2, <4>1 DEF Who
    <3> QED BY <2>1, <3>3, <3>4, <3>5 DEF KnownInv, Line
  <2>8. BareInv'
    <3>1. \A x : Founded(x) => Founded(x)' BY <2>1 DEF Founded, Grounds, Enrolled
    <3>2. Founded(r) BY <1>row, <2>2 DEF Founded
    <3>3. \A k \in Login : Founded(login[k])' BY <1>i, <2>3, <3>1, <3>2 DEF BareInv
    <3> QED BY <1>i, <2>1, <3>3 DEF BareInv, Grounds
  <2>9. TriesInv' BY <1>i, <2>1, <2>2, <2>3, <2>4, <2>5 DEF TriesInv, Readers, Early
  <2>10. AskInv' BY <1>i, <2>1, <2>2, <2>3 DEF AskInv
  <2> QED BY <2>6, <2>7, <2>8, <2>9, <2>10 DEF SignInInv
<1>opens. ASSUME NEW s \in Session, NEW l \in Login, Opens(s, l)
          PROVE  /\ opened \subseteq opened' /\ opened' \subseteq User \X (Machine \cup {NoId})
                 /\ Who(l) \in opened' /\ DOMAIN session' \subseteq Session
                 /\ \A t \in DOMAIN session' : session'[t] \in [of : User, shown : BOOLEAN]
  <2>1. /\ session' = [y \in DOMAIN session \cup {s} |->
                         IF y = s THEN [of |-> login[l].user, shown |-> FALSE] ELSE session[y]]
        /\ opened' = opened \cup {Who(l)}
    BY <1>opens DEF Opens, Who
  <2>2. Who(l) \in User \X (Machine \cup {NoId}) BY <1>row DEF Who
  <2>3. DOMAIN session' \subseteq Session BY <1>0, <2>1
  <2>4. \A t \in DOMAIN session' : session'[t] \in [of : User, shown : BOOLEAN] BY <1>0, <1>row, <2>1
  <2> QED BY <1>0, <2>1, <2>2, <2>3, <2>4
<1>bare. ASSUME NEW l \in Login, IssuesBare(l) PROVE SignInInv'
  <2> DEFINE x == login[l]
             r == Known(x, "issued")
             o == [asked |-> x.asks, machine |-> x.machine, again |-> <<x.user, x.machine>> \in opened]
  <2>1. /\ x.at = "bare" /\ Opens(l, l) /\ login' = [login EXCEPT ![l] = r]
        /\ bare' = IF ~ x.kept THEN bare ELSE bare \cup {o}
        /\ UNCHANGED <<policy, factor, doing, journal, challenge, asking, wrong, writes>>
    BY <1>bare DEF IssuesBare
  <2>2. /\ r \in LoginRow /\ r.at = "issued" /\ r.kept = FALSE
        /\ <<r.user, r.machine>> = Who(l)
    BY <1>row DEF Known, LoginRow, Factors, Who
  <2>3. x.kept => Grounds(o.asked, o.machine, o.again)
    BY <1>row, <2>1 DEF Founded, Grounds
  <2> HIDE DEF r, o
  <2>4. \A p \in bare' : p \in bare \/ Grounds(p.asked, p.machine, p.again) BY <2>1, <2>3
  <2>5. Founded(r) BY <2>2 DEF Founded
  <2>6. /\ opened \subseteq opened' /\ opened' \subseteq User \X (Machine \cup {NoId})
        /\ Who(l) \in opened' /\ DOMAIN session' \subseteq Session
        /\ \A t \in DOMAIN session' : session'[t] \in [of : User, shown : BOOLEAN]
    BY <1>opens, <2>1 DEF Session
  <2> QED BY <1>0, <2>1, <2>2, <2>4, <2>5, <2>6, LoginMoves DEF Early
<1>5. ASSUME NEW l \in Login, ChallengeLapses(l) PROVE SignInInv'
  <2>1. /\ challenge' = [challenge EXCEPT ![l] = NoChallenge]
        /\ UNCHANGED <<policy, factor, doing, journal, login, asking, session, opened, bare, wrong, writes>>
    BY <1>5 DEF ChallengeLapses
  <2>2. challenge' \in [Login -> ChallengeRow] BY <1>0, <2>1, RowFacts
  <2>3. SignInTypes' BY <1>0, <1>i, <2>1, <2>2 DEF SignInTypes, SignInTypeOK, LoginRow, ChallengeRow
  <2>4. KnownInv' /\ BareInv' /\ AskInv'
    BY <1>i, <2>1 DEF KnownInv, Who, BareInv, Founded, Enrolled, AskInv
  <2>5. TriesInv' BY <1>0, <1>i, <2>1, RowFacts DEF TriesInv, Readers
  <2> QED BY <2>3, <2>4, <2>5 DEF SignInInv
<1>6. ASSUME NEW l \in Login, NEW w \in BOOLEAN, Journals(l, w) PROVE SignInInv'
  <2>1. /\ login' = [login EXCEPT ![l] = Ended] /\ login[l].at = "issued"
        /\ journal' \in {journal, Journal(login[l].user, login[l].machine, "ok")}
        /\ UNCHANGED <<policy, factor, doing, challenge, asking, session, opened, bare, wrong, writes>>
    BY <1>6 DEF Journals
  <2>2. Who(l) \in opened BY <1>i, <2>1 DEF KnownInv
  <2>3. journal' \subseteq Lines /\ \A v \in User, n \in Machine :
          Line(v, n, "ok") \in journal' => Line(v, n, "ok") \in journal \/ <<v, n>> \in opened
    <3> DEFINE j == Journal(login[l].user, login[l].machine, "ok")
    <3>1. j \subseteq Lines /\ \A v \in User, n \in Machine : Line(v, n, "ok") \in j =>
            Line(v, n, "ok") \in journal \/ (v = login[l].user /\ n = login[l].machine)
      BY <1>i, <1>row, JournalGrows
    <3> HIDE DEF j
    <3> QED BY <1>0, <2>1, <2>2, <3>1 DEF Who, j
  <2> QED BY <1>0, <1>ended, <2>1, <2>3, LoginMoves DEF Early
<1>7. ASSUME NEW q \in Request, NEW l \in Login, PresentsCode(q, l) PROVE SignInInv'
  <2>1. /\ asking[q].at = "unsent" /\ login[l].at = "challenged" /\ challenge[l].live
        /\ UNCHANGED <<policy, factor, doing, journal, login, session, opened, bare, wrong, writes>>
    BY <1>7 DEF PresentsCode
  <2>2. BareInv' BY <1>i, <2>1 DEF BareInv, Founded, Enrolled
  <2>3. CASE challenge[l].attempts >= WrongMax
    <3>1. challenge' = [challenge EXCEPT ![l] = NoChallenge] /\ asking' = [asking EXCEPT ![q] = NoAsk]
      BY <1>7, <2>3 DEF PresentsCode
    <3>2. challenge' \in [Login -> ChallengeRow] /\ asking' \in [Request -> AskRow]
      BY <1>0, <3>1, RowFacts
    <3>3. SignInTypes' BY <1>0, <1>i, <2>1, <3>2 DEF SignInTypes, SignInTypeOK, LoginRow, ChallengeRow
    <3>4. \A k \in Login : Readers(k)' = Readers(k) BY <1>0, <2>1, <3>1, RowFacts DEF Readers
    <3>5. TriesInv' BY <1>0, <2>1, <3>1, <3>4, RowFacts DEF SignInInv, TriesInv
    <3>6. AskInv' BY <1>0, <2>1, <3>1, RowFacts DEF SignInInv, AskInv
    <3>7. KnownInv' BY <1>0, <1>i, <2>1, <3>1, RowFacts DEF KnownInv, Who
    <3> QED BY <2>2, <3>3, <3>5, <3>6, <3>7 DEF SignInInv
  <2>4. CASE ~ (challenge[l].attempts >= WrongMax)
    <3> DEFINE r == [at |-> "read", of |-> l, read |-> challenge[l].attempts]
    <3>1. challenge' = challenge /\ asking' = [asking EXCEPT ![q] = r]
      BY <1>7, <2>4 DEF PresentsCode
    <3>2. r \in AskRow /\ r.at = "read" /\ r.of = l BY <1>0 DEF AskRow, ChallengeRow
    <3> HIDE DEF r
    <3>3. asking' \in [Request -> AskRow] BY <1>0, <3>1, <3>2
    <3>4. SignInTypes' BY <1>0, <1>i, <2>1, <3>1, <3>3 DEF SignInTypes, SignInTypeOK, LoginRow, ChallengeRow
    <3>5. \A k \in Login \ {l} : Readers(k)' = Readers(k) BY <1>0, <2>1, <3>1, <3>2 DEF Readers
    <3>6. Cardinality(Readers(l)') <= Cardinality(Request) /\ Cardinality(Readers(l)') \in Nat
      <4>1. Readers(l)' \subseteq Request BY DEF Readers
      <4> QED BY <4>1, SignInAssumption, FS_Subset, FS_CardinalityType
    <3>7. wrong[l] \in Nat /\ wrong[l] < WrongMax
      BY <1>0, <2>1, <2>4, SignInNumbers DEF SignInInv, TriesInv, ChallengeRow
    <3>8. wrong[l] + Cardinality(Readers(l)') <= WrongMax + Cardinality(Request) - 1
      BY <3>6, <3>7, SignInNumbers, ReadersCounted
    <3>9. TriesInv' BY <2>1, <3>1, <3>5, <3>8 DEF SignInInv, TriesInv
    <3>10. AskInv' BY <1>0, <2>1, <3>1, <3>2 DEF SignInInv, AskInv
    <3>11. KnownInv' BY <1>0, <1>i, <2>1, <3>1, <3>2 DEF KnownInv, Who
    <3> QED BY <2>2, <3>4, <3>9, <3>10, <3>11 DEF SignInInv
  <2> QED BY <2>3, <2>4
<1>8. ASSUME NEW q \in Request, WrongCode(q) PROVE SignInInv'
  <2> DEFINE l == asking[q].of
  <2>1. asking[q].at = "read" /\ l \in Login /\ login[l].at = "challenged"
    BY <1>8 DEF WrongCode, Under, SignInInv, AskInv
  <2>2. /\ asking' = [asking EXCEPT ![q] = NoAsk] /\ wrong' = [wrong EXCEPT ![l] = @ + 1]
        /\ challenge' = [challenge EXCEPT ![l].attempts =
                           IF challenge[l].live THEN challenge[l].attempts + 1 ELSE @]
        /\ journal' = Journal(login[l].user, login[l].machine, "other")
        /\ UNCHANGED <<policy, factor, doing, login, session, opened, bare, writes>>
    BY <1>8 DEF WrongCode, Counted
  <2>3. q \in Readers(l) /\ \A k \in Login : Readers(k)' = Readers(k) \ (IF k = l THEN {q} ELSE {})
    BY <1>0, <2>1, <2>2, RowFacts DEF Readers
  <2> HIDE DEF l
  <2>4. login[l].user \in User /\ login[l].machine \in Machine \cup {NoId} BY <1>0, <2>1 DEF LoginRow
  <2>5. wrong' \in [Login -> Nat] /\ asking' \in [Request -> AskRow] BY <1>0, <2>1, <2>2, RowFacts
  <2>6. challenge' \in [Login -> ChallengeRow] BY <1>0, <2>1, <2>2 DEF ChallengeRow
  <2>7. SignInTypes'
    <3>1. journal' \subseteq Lines
      BY <2>2, <2>4, JournalGrows DEF SignInInv
    <3> QED BY <1>0, <1>i, <2>2, <2>5, <2>6, <3>1 DEF SignInTypes, SignInTypeOK, LoginRow, ChallengeRow, Lines
  <2>8. KnownInv'
    <3>1. \A v \in User, n \in Machine : Line(v, n, "ok") \in journal' => Line(v, n, "ok") \in journal
      BY <2>2, <2>4, JournalGrows DEF SignInInv
    <3>2. \A p \in Request : asking'[p].at = "issued" => asking'[p] = asking[p]
      BY <1>0, <2>2, RowFacts
    <3>3. \A v \in User, n \in Machine : Line(v, n, "ok") \in journal' => <<v, n>> \in opened
      BY <1>i, <3>1 DEF KnownInv
    <3> QED BY <1>i, <2>2, <3>2, <3>3 DEF KnownInv, Line, Who
  <2>9. BareInv' BY <1>i, <2>2 DEF BareInv, Founded, Enrolled
  <2>10. TriesInv'
    <3> SUFFICES ASSUME NEW k \in Login
          PROVE /\ login'[k].at \in Early => wrong'[k] = 0 /\ challenge'[k] = NoChallenge
                /\ challenge'[k].live => wrong'[k] = challenge'[k].attempts
                /\ wrong'[k] + Cardinality(Readers(k)') <= WrongMax + Cardinality(Request) - 1
      BY DEF TriesInv
    <3>1. CASE k = l
      <4>1. wrong'[k] = wrong[k] + 1 /\ wrong[k] \in Nat BY <1>0, <2>1, <2>2, <3>1
      <4>2. Cardinality(Readers(k)') = Cardinality(Readers(k)) - 1
        <5>1. Readers(k)' = Readers(k) \ {q} /\ q \in Readers(k) BY <2>3, <3>1
        <5>2. IsFiniteSet(Readers(k)) BY ReadersCounted
        <5>3. Cardinality(Readers(k) \ {q}) = Cardinality(Readers(k)) - 1
          BY <5>1, <5>2, FS_RemoveElement
        <5> QED BY <5>1, <5>3
      <4>3. wrong'[k] + Cardinality(Readers(k)') <= WrongMax + Cardinality(Request) - 1
        BY <4>1, <4>2, ReadersCounted, SignInNumbers DEF SignInInv, TriesInv
      <4>4. challenge'[k].live => challenge[k].live /\ challenge'[k].attempts = challenge[k].attempts + 1
        BY <1>0, <2>1, <2>2, <3>1 DEF ChallengeRow
      <4>5. challenge[k].live => wrong[k] = challenge[k].attempts BY DEF SignInInv, TriesInv
      <4>6. challenge'[k].live => wrong'[k] = challenge'[k].attempts BY <4>1, <4>4, <4>5
      <4>7. login'[k].at = "challenged" BY <2>1, <2>2, <3>1
      <4> QED BY <4>3, <4>6, <4>7 DEF Early
    <3>2. CASE k # l
      <4>1. Readers(k)' = Readers(k) BY <2>3, <3>2
      <4>2. wrong'[k] = wrong[k] /\ challenge'[k] = challenge[k] BY <1>0, <2>2, <3>2
      <4> QED BY <2>2, <4>1, <4>2 DEF SignInInv, TriesInv
    <3> QED BY <3>1, <3>2
  <2>11. AskInv' BY <1>0, <2>2, RowFacts DEF SignInInv, AskInv
  <2> QED BY <2>7, <2>8, <2>9, <2>10, <2>11 DEF SignInInv
<1>asked. ASSUME NEW q \in Request, asking[q].at \in {"read", "proved", "issued"}
          PROVE  asking[q].of \in Login /\ login[asking[q].of].at = "challenged"
  BY <1>i, <1>asked DEF AskInv
<1>9. ASSUME NEW q \in Request, RightCode(q) PROVE SignInInv'
  <2> DEFINE l == asking[q].of
             a == [at |-> "proved", of |-> l, read |-> 0]
  <2>1. l \in Login /\ login[l].at = "challenged" BY <1>9, <1>asked DEF RightCode, Under
  <2>2. /\ asking' = [asking EXCEPT ![q] = a] /\ challenge' = [challenge EXCEPT ![l] = NoChallenge]
        /\ UNCHANGED <<policy, factor, doing, journal, login, session, opened, bare, wrong, writes>>
    BY <1>9 DEF RightCode
  <2>3. a \in AskRow /\ a.at = "proved" /\ a.of = l BY <2>1 DEF AskRow
  <2> HIDE DEF l, a
  <2> QED BY <1>0, <2>1, <2>2, <2>3, AskMoves
<1>proved. ASSUME NEW q \in Request, IssuesProved(q) PROVE SignInInv'
  <2> DEFINE l == asking[q].of
             a == [asking[q] EXCEPT !.at = "issued"]
  <2>1. l \in Login /\ login[l].at = "challenged" BY <1>proved, <1>asked DEF IssuesProved
  <2>2. /\ asking' = [asking EXCEPT ![q] = a] /\ Opens(q, l)
        /\ UNCHANGED <<policy, factor, doing, journal, login, challenge, bare, wrong, writes>>
    BY <1>proved DEF IssuesProved
  <2>3. a \in AskRow /\ a.at = "issued" /\ a.of = l BY <1>0 DEF AskRow
  <2>4. /\ opened \subseteq opened' /\ opened' \subseteq User \X (Machine \cup {NoId})
        /\ Who(l) \in opened' /\ DOMAIN session' \subseteq Session
        /\ \A t \in DOMAIN session' : session'[t] \in [of : User, shown : BOOLEAN]
    BY <1>opens, <2>1, <2>2 DEF Session
  <2> HIDE DEF l, a
  <2> QED BY <1>0, <2>1, <2>2, <2>3, <2>4, AskMoves
<1>told. ASSUME NEW q \in Request, NEW w \in BOOLEAN, JournalsProved(q, w) PROVE SignInInv'
  <2> DEFINE l == asking[q].of
             a == [NoAsk EXCEPT !.at = "answered"]
  <2>1. asking[q].at = "issued" /\ l \in Login /\ login[l].at = "challenged"
    BY <1>told, <1>asked DEF JournalsProved
  <2>2. /\ asking' = [asking EXCEPT ![q] = a]
        /\ journal' \in {journal, Journal(login[l].user, login[l].machine, "ok")}
        /\ UNCHANGED <<policy, factor, doing, login, challenge, session, opened, bare, wrong, writes>>
    BY <1>told DEF JournalsProved
  <2>3. a \in AskRow /\ a.at = "answered" BY DEF AskRow, NoAsk
  <2>4. Who(l) \in opened BY <1>i, <2>1 DEF KnownInv
  <2> HIDE DEF l, a
  <2>5. journal' \subseteq Lines /\ \A v \in User, n \in Machine :
          Line(v, n, "ok") \in journal' => Line(v, n, "ok") \in journal \/ <<v, n>> \in opened
    BY <1>0, <1>i, <1>row, <2>1, <2>2, <2>4, JournalGrows DEF Who
  <2> QED BY <1>0, <2>1, <2>2, <2>3, <2>5, AskMoves
<1>10. ASSUME NEW q \in Request, NoFactor(q) PROVE SignInInv'
  <2> DEFINE l == asking[q].of
  <2>1. l \in Login /\ login[l].at = "challenged" BY <1>10, <1>asked DEF NoFactor, Under
  <2>2. /\ asking' = [asking EXCEPT ![q] = NoAsk]
        /\ UNCHANGED <<policy, factor, doing, journal, login, challenge, session, opened, bare, wrong, writes>>
    BY <1>10 DEF NoFactor
  <2> HIDE DEF l
  <2> QED BY <1>0, <2>1, <2>2, RowFacts, AskMoves
<1>11. ASSUME NEW s \in Session, NEW what \in Acts, ReadsFactor(s, what) PROVE SignInInv'
  <2>1. session[s].of \in User BY <1>0, <1>11 DEF ReadsFactor
  <2> QED BY <1>0, <1>11, <2>1, Elsewhere DEF ReadsFactor
<1>12. ASSUME NEW u \in User, NEW what \in Acts, WritesFactor(u, what) PROVE SignInInv'
  <2> DEFINE f == Done(what, factor[u])
             keeps(k) == login[k].kept /\ (login[k].user = u => Enrolled(u)')
  <2>1. f \in [secret : BOOLEAN, on : BOOLEAN]
    <3>1. factor[u] \in [secret : BOOLEAN, on : BOOLEAN] BY <1>0
    <3>2. CASE what = "setup" BY <3>1, <3>2 DEF Done
    <3>3. CASE what = "confirm" BY <3>1, <3>3 DEF Done
    <3>4. CASE what = "disable" BY <3>1, <3>4 DEF Done
    <3> QED BY <3>2, <3>3, <3>4 DEF Acts
  <2>2. /\ factor' = [factor EXCEPT ![u] = f] /\ doing' = doing \ {<<u, what>>}
        /\ login' = [k \in Login |-> [login[k] EXCEPT !.kept = keeps(k)]]
        /\ UNCHANGED <<policy, journal, challenge, asking, session, opened, bare, wrong, writes>>
    BY <1>12 DEF WritesFactor
  <2>3. \A k \in Login : keeps(k) \in BOOLEAN OBVIOUS
  <2>4. \A v \in User \ {u} : Enrolled(v)' = Enrolled(v) BY <1>0, <2>2 DEF Enrolled
  <2>5. \A k \in Login, v \in User : keeps(k) /\ login[k].user = v => login[k].kept /\ Enrolled(v)'
    <3> SUFFICES ASSUME NEW k \in Login, NEW v \in User, keeps(k), login[k].user = v, v # u
                 PROVE  Enrolled(v)'
      OBVIOUS
    <3>1. Enrolled(v) BY <1>row DEF Founded
    <3> QED BY <2>4, <3>1
  <2> HIDE DEF keeps, f
  <2>6. ASSUME NEW k \in Login
        PROVE  /\ login'[k] \in LoginRow /\ login'[k].at = login[k].at /\ login'[k].user = login[k].user
               /\ login'[k].machine = login[k].machine /\ login'[k].asks = login[k].asks
               /\ login'[k].secret = login[k].secret /\ login'[k].kept = keeps(k)
    BY <1>row, <2>2, <2>3 DEF LoginRow
  <2>7. login' \in [Login -> LoginRow] /\ factor' \in [User -> [secret : BOOLEAN, on : BOOLEAN]]
    BY <1>0, <2>1, <2>2, <2>6
  <2>8. SignInTypes' BY <1>0, <1>i, <2>2, <2>7 DEF SignInTypes, SignInTypeOK, LoginRow, Lines
  <2>9. \A k \in Login : Who(k)' = Who(k) BY <2>6 DEF Who
  <2>10. KnownInv'
    <3>1. ASSUME NEW q \in Request, asking[q].at = "issued"
          PROVE  <<login'[asking[q].of].user, login'[asking[q].of].machine>> \in opened
      <4>1. asking[q].of \in Login /\ Who(asking[q].of) \in opened BY <1>i, <3>1 DEF KnownInv, AskInv
      <4> QED BY <2>6, <4>1 DEF Who
    <3>2. \A k \in Login : login'[k].at = "issued" => Who(k)' \in opened
      BY <1>i, <2>6, <2>9 DEF KnownInv
    <3>3. \A v \in User, n \in Machine : Line(v, n, "ok") \in journal' => <<v, n>> \in opened'
      BY <1>i, <2>2 DEF KnownInv
    <3>4. \A k \in Login : login'[k].at = "issued" => <<login'[k].user, login'[k].machine>> \in opened'
      BY <2>2, <3>2 DEF Who
    <3>5. \A q \in Request : asking'[q].at = "issued" =>
            <<login'[asking'[q].of].user, login'[asking'[q].of].machine>> \in opened'
      BY <2>2, <3>1
    <3> QED BY <3>3, <3>4, <3>5 DEF KnownInv, Line, Who
  <2>11. BareInv'
    <3>1. ASSUME NEW k \in Login, login'[k].kept PROVE Founded(login[k])'
      <4>1. PICK v \in User : keeps(k) /\ login[k].user = v /\ login'[k].user = v
        BY <1>row, <2>6, <3>1
      <4>2. login[k].kept /\ Enrolled(v)' BY <2>5, <4>1
      <4>3. /\ login[k].at \in {"begun", "admitted"} => login[k].secret
            /\ login[k].at = "bare" => Grounds(login[k].asks, login[k].machine,
                                               <<login[k].user, login[k].machine>> \in opened)
        BY <1>row, <4>2 DEF Founded
      <4>4. factor'[login'[k].user].on /\ factor'[login'[k].user].secret
        BY <4>1, <4>2 DEF Enrolled
      <4>5. opened' = opened BY <2>2
      <4>6. /\ login'[k].at = login[k].at /\ login'[k].secret = login[k].secret
            /\ login'[k].user = login[k].user /\ login'[k].machine = login[k].machine
            /\ login'[k].asks = login[k].asks
        BY <2>6
      <4>7. login'[k].at \in {"begun", "admitted"} => login'[k].secret BY <4>3, <4>6
      <4>8. login'[k].at = "bare" =>
              \/ login'[k].asks = "off"
              \/ login'[k].asks = "new_device" /\ login'[k].machine # NoId
                 /\ <<login'[k].user, login'[k].machine>> \in opened'
        BY <4>3, <4>5, <4>6 DEF Grounds
      <4> QED BY <4>4, <4>7, <4>8 DEF Founded, Grounds, Enrolled
    <3>2. \A k \in Login : Founded(login[k])' BY <3>1 DEF Founded
    <3> QED BY <1>i, <2>2, <3>2 DEF BareInv, Grounds
  <2>12. TriesInv'
    <3>1. \A k \in Login : Readers(k)' = Readers(k) BY <2>2 DEF Readers
    <3> QED BY <1>i, <2>2, <2>6, <3>1 DEF TriesInv
  <2>13. AskInv' BY <1>i, <2>2, <2>6 DEF AskInv
  <2> QED BY <2>13, <2>8, <2>10, <2>11, <2>12 DEF SignInInv
<1>13. ASSUME NEW s \in Session, NEW p \in Drafts, NEW i \in BOOLEAN, PutsPolicy(s, p, i) PROVE SignInInv'
  <2>1. p \in Policy BY SignInAssumption
  <2> QED BY <1>0, <1>13, <2>1, SignInNumbers, Elsewhere DEF PutsPolicy
<1>14. ASSUME NEW s \in Session, ShowsCode(s) \/ WindowCloses(s) PROVE SignInInv'
  BY <1>0, <1>14, Elsewhere DEF ShowsCode, WindowCloses
<1>15. ASSUME NEW gone, session' = Left(gone),
              UNCHANGED <<policy, factor, doing, journal, login, challenge, asking, opened, bare, wrong, writes>>
       PROVE  SignInInv'
  BY <1>0, <1>15, Elsewhere DEF Left
<1>16. ASSUME NEW s \in Session, Lapses(s) PROVE SignInInv'
  BY <1>15, <1>16 DEF Lapses
<1>17. ASSUME NEW u \in User, LogsOut(u) PROVE SignInInv'
  BY <1>15, <1>17 DEF LogsOut
<1>18. ASSUME NEW s \in Session, NEW t \in Session, RevokesSession(s, t) PROVE SignInInv'
  BY <1>15, <1>18 DEF RevokesSession
<1>19. ASSUME NEW s \in Session, NEW u \in User, RevokesMember(s, u) PROVE SignInInv'
  BY <1>15, <1>19 DEF RevokesMember
<1> QED
  BY <1>1, <1>2, <1>3, <1>4, <1>good, <1>weigh, <1>open, <1>bare, <1>5, <1>6, <1>7, <1>8, <1>9,
     <1>proved, <1>told, <1>10, <1>11, <1>12, <1>13, <1>14, <1>16, <1>17, <1>18, <1>19
  DEF SignInNext

\* The wrong answers and the requests that may still give one are within the bound.
LEMMA CodeIsAsked == SignInInv => CodeAsked
<1> SUFFICES ASSUME SignInInv, NEW l \in Login
             PROVE  wrong[l] <= WrongMax + Cardinality(Request) - 1
  BY DEF SignInInv, BareInv, Grounds, CodeAsked
<1>1. wrong[l] \in Nat /\ wrong[l] + Cardinality(Readers(l)) <= WrongMax + Cardinality(Request) - 1
  BY DEF SignInInv, SignInTypes, TriesInv
<1> QED BY <1>1, ReadersCounted, SignInNumbers

\* However the statements of sign-ins, of requests about a factor and of the policy
\* fall between one another, a user who has had a factor since a sign-in read their
\* row gets a session from it without a code only where the policy it read asks none
\* or from a machine signed in from before; and a challenge takes five wrong codes
\* and at most one more for each other request past its check (api.rs 151-294;
\* security.rs 239-252, 305-317, 372-376).
THEOREM SignInSafe == SignInSpec => [](SignInTypeOK /\ CodeAsked)
<1>1. SignInInv => SignInTypeOK /\ CodeAsked BY CodeIsAsked DEF SignInInv, SignInTypes
<1> QED BY <1>1, SignInStart, SignInStep, PTL DEF SignInSpec

-----------------------------------------------------------------------------
(* Roles, grants and shares.                                                *)

Grant == [live : BOOLEAN, perms : SUBSET Perms, follows : BOOLEAN]
ParkedRow ==
  [what : {"none", "role", "relink", "removal", "grant", "revoke", "share", "unshare"},
   to : Person \cup {Nobody}, perms : SUBSET Perms, follows : BOOLEAN,
   role : Roles \cup {"none"}, as : Roles \cup {"none"}, handed : BOOLEAN]

(* What a handler checked is still so when it writes: of no use to a check   *)
(* of the role the target had, enough for these.                             *)
ParkedInv == \A c \in Person :
  /\ parked[c].what # "none" => parked[c].to \in Person
  /\ parked[c].what = "role" =>
       /\ parked[c].to # Founder /\ parked[c].role \notin {"owner", "none"}
       /\ parked[c].role = "admin" => parked[c].as = "owner"
  /\ parked[c].what = "grant" => parked[c].as # "member"
  /\ parked[c].what = "share" /\ parked[c].as = "member" => parked[c].handed

AccessInv ==
  AccessTypeOK /\ ParkedInv /\ RightsHold /\ doubtful = {} /\ upstarts \subseteq Person

\* A role's ceiling holds permissions.
LEMMA CeilingTyped == \A r : RoleCeiling(r) \subseteq Perms
BY DEF RoleCeiling

\* A request that passed its check keeps the invariant while it waits for its
\* write, if it is one that may be written whatever happens meanwhile.
LEMMA ParkKeeps ==
  ASSUME AccessInv, NEW c \in Person, NEW q \in ParkedRow, Parks(c, q),
         q.what # "none" => q.to \in Person,
         q.what = "role" => /\ q.to # Founder /\ q.role \notin {"owner", "none"}
                            /\ q.role = "admin" => q.as = "owner",
         q.what = "grant" => q.as # "member",
         q.what = "share" /\ q.as = "member" => q.handed
  PROVE  AccessInv'
<1>1. parked' = [parked EXCEPT ![c] = q] /\ UNCHANGED <<role, grant, ownRole, direct, upstarts, doubtful, lent>>
  BY DEF Parks
<1>2. AccessTypeOK' BY <1>1 DEF AccessInv, AccessTypeOK, ParkedRow
<1>3. ParkedInv' BY <1>1 DEF AccessInv, AccessTypeOK, ParkedInv
<1>4. RightsHold' /\ doubtful' = {} /\ upstarts' \subseteq Person BY <1>1 DEF AccessInv, RightsHold
<1> QED BY <1>2, <1>3, <1>4 DEF AccessInv

\* So do the others when one is done.
LEMMA UnparkKeeps ==
  ASSUME AccessInv, NEW c \in Person, NEW what, Unparks(c, what)
  PROVE  /\ ParkedInv'
         /\ parked' \in [Person -> ParkedRow]
<1>1. NoRequest \in ParkedRow /\ NoRequest.what = "none" BY DEF NoRequest, ParkedRow
<1>2. parked' = [parked EXCEPT ![c] = NoRequest] BY DEF Unparks
<1>3. parked \in [Person -> ParkedRow] BY DEF AccessInv, AccessTypeOK, ParkedRow
<1> QED BY <1>1, <1>2, <1>3 DEF AccessInv, ParkedInv

\* The owner alone is a member.
LEMMA AccessStart == AccessInit => AccessInv
<1> SUFFICES ASSUME AccessInit PROVE AccessInv
  OBVIOUS
<1>1. NoRequest \in ParkedRow /\ NoRequest.what = "none" BY DEF NoRequest, ParkedRow
<1>2. NoGrant \in Grant BY DEF NoGrant, Grant
<1>3. AccessTypeOK BY <1>1, <1>2 DEF AccessInit, AccessTypeOK, ParkedRow, Grant, Roles
<1>4. ParkedInv BY <1>1 DEF AccessInit, ParkedInv
<1>5. RightsHold /\ doubtful = {} /\ upstarts \subseteq Person BY DEF AccessInit, RightsHold
<1> QED BY <1>3, <1>4, <1>5 DEF AccessInv

\* One step per action: a role or a grant is written under what was read of the
\* caller before, and only a new role, a removal and an invitation write a role
\* (rbac_guard.rs; api.rs set_member_role, grant_access; shares.rs).
LEMMA AccessStep == AccessInv /\ [AccessNext]_accessVars => AccessInv'
<1> SUFFICES ASSUME AccessInv, [AccessNext]_accessVars PROVE AccessInv'
  OBVIOUS
<1>0. NoRequest \in ParkedRow /\ NoGrant \in Grant /\ parked \in [Person -> ParkedRow]
      /\ grant \in [Person -> Grant]
  BY DEF NoRequest, ParkedRow, NoGrant, Grant, AccessInv, AccessTypeOK
<1>00. /\ role \in [Person -> Roles \cup {"none"}] /\ ownRole \subseteq Perms
       /\ direct \in [Person -> SUBSET Perms]
       /\ \A p \in Person : role[p] = "owner" <=> p = Founder
  BY DEF AccessInv, AccessTypeOK, RightsHold
<1>1. CASE UNCHANGED accessVars
  BY <1>1 DEF accessVars, AccessInv, AccessTypeOK, ParkedInv, RightsHold
<1>2. ASSUME NEW p \in Person, NEW by \in Person, NEW r \in Roles, Joins(p, by, r) PROVE AccessInv'
  <2>1. p # Founder /\ r # "owner" /\ r \in Roles BY <1>2, <1>00 DEF Joins
  <2>2. AccessTypeOK' BY <1>2 DEF Joins, AccessInv, AccessTypeOK
  <2>3. ParkedInv' BY <1>2 DEF Joins, AccessInv, ParkedInv
  <2>4. upstarts' = upstarts \ {p} BY <1>2 DEF Joins, MadeBy
  <2>5. RightsHold' /\ doubtful' = {} /\ upstarts' \subseteq Person
    BY <1>2, <1>00, <2>1, <2>4 DEF Joins, AccessInv, RightsHold
  <2> QED BY <2>2, <2>3, <2>5 DEF AccessInv
<1>3. ASSUME NEW c \in Person, NEW t \in Person, NEW to \in Roles, AsksRole(c, t, to) PROVE AccessInv'
  <2> DEFINE q == [NoRequest EXCEPT !.what = "role", !.to = t, !.role = to, !.as = role[c]]
  <2>1. /\ q \in ParkedRow /\ q.what = "role" /\ q.to = t /\ q.role = to /\ q.as = role[c]
    BY <1>0, <1>00 DEF ParkedRow, NoRequest
  <2>2. Parks(c, q) /\ MayChange(role[c], role[t], to) BY <1>3 DEF AsksRole
  <2>3. t # Founder /\ to \notin {"owner", "none"} /\ (to = "admin" => role[c] = "owner")
    BY <2>2, <1>00 DEF MayChange, ManagesAll, Roles
  <2> HIDE DEF q
  <2> QED BY <2>1, <2>2, <2>3, ParkKeeps
<1>4. ASSUME NEW c \in Person, SetsRole(c) PROVE AccessInv'
  <2> DEFINE q == parked[c]
  <2>1. q.what = "role" /\ q.to \in Person /\ q.to # Founder /\ q.role \notin {"owner", "none"}
        /\ (q.role = "admin" => q.as = "owner") /\ q.role \in Roles
    BY <1>0, <1>4 DEF SetsRole, AccessInv, ParkedInv, ParkedRow
  <2>2. parked' = [parked EXCEPT ![c].what = "relink"] /\ UNCHANGED <<grant, ownRole, direct, doubtful, lent>>
    BY <1>4 DEF SetsRole
  <2>3. parked' \in [Person -> ParkedRow] BY <1>0, <2>2 DEF ParkedRow
  <2>4. ParkedInv' BY <1>0, <2>1, <2>2 DEF AccessInv, ParkedInv, ParkedRow
  <2>5. \/ UNCHANGED <<role, upstarts>>
        \/ role' = [role EXCEPT ![q.to] = q.role] /\ upstarts' = upstarts \ {q.to}
    BY <1>4, <2>1 DEF SetsRole, MadeBy
  <2>6. role' \in [Person -> Roles \cup {"none"}] BY <1>00, <2>1, <2>5
  <2>7. AccessTypeOK' BY <2>2, <2>3, <2>6 DEF AccessInv, AccessTypeOK, ParkedRow
  <2>8. RightsHold' /\ doubtful' = {} /\ upstarts' \subseteq Person
    <3>1. CASE UNCHANGED <<role, upstarts>> BY <2>2, <3>1 DEF AccessInv, RightsHold
    <3>2. CASE role' = [role EXCEPT ![q.to] = q.role] /\ upstarts' = upstarts \ {q.to}
      <4>1. \A p \in Person : role'[p] = IF p = q.to THEN q.role ELSE role[p] BY <1>00, <3>2
      <4> QED BY <1>00, <2>1, <2>2, <3>2, <4>1 DEF AccessInv, RightsHold
    <3> QED BY <2>5, <3>1, <3>2
  <2> QED BY <2>4, <2>7, <2>8 DEF AccessInv
<1>5. ASSUME NEW c \in Person, RelinksMember(c) PROVE AccessInv'
  <2>1. parked[c].to \in Person BY <1>5 DEF RelinksMember, Unparks, AccessInv, ParkedInv
  <2>2. Relinked(parked[c].to) \in Grant
    BY <1>0, <1>00, <2>1, CeilingTyped DEF Relinked, Grant
  <2>3. ParkedInv' /\ parked' \in [Person -> ParkedRow] BY <1>5, UnparkKeeps DEF RelinksMember
  <2>4. grant' \in [Person -> Grant] BY <1>0, <1>5, <2>1, <2>2 DEF RelinksMember
  <2>5. UNCHANGED <<role, ownRole, direct, upstarts, doubtful, lent>> BY <1>5 DEF RelinksMember
  <2>6. AccessTypeOK' BY <2>3, <2>4, <2>5 DEF AccessInv, AccessTypeOK, ParkedRow, Grant
  <2> QED BY <2>3, <2>5, <2>6 DEF AccessInv, RightsHold
<1>6. ASSUME NEW c \in Person, Removes(c) PROVE AccessInv'
  <2>1. parked[c].to \in Person BY <1>6 DEF Removes, Unparks, AccessInv, ParkedInv
  <2>2. ParkedInv' /\ parked' \in [Person -> ParkedRow] BY <1>6, UnparkKeeps DEF Removes
  <2>3. UNCHANGED <<ownRole, direct, upstarts, doubtful, lent>> BY <1>6 DEF Removes
  <2>4. \/ UNCHANGED <<role, grant>>
        \/ /\ parked[c].to # Founder
           /\ role' = [role EXCEPT ![parked[c].to] = "none"]
           /\ grant' = [grant EXCEPT ![parked[c].to] = NoGrant]
    BY <1>6, <1>00, <2>1 DEF Removes, MayRemove
  <2>5. role' \in [Person -> Roles \cup {"none"}] /\ grant' \in [Person -> Grant]
    BY <1>0, <1>00, <2>1, <2>4
  <2>6. AccessTypeOK' BY <2>2, <2>3, <2>5 DEF AccessInv, AccessTypeOK, ParkedRow, Grant
  <2>7. RightsHold' /\ upstarts' \subseteq Person
    <3>1. CASE UNCHANGED <<role, grant>> BY <2>3, <3>1 DEF AccessInv, RightsHold
    <3>2. CASE parked[c].to # Founder /\ role' = [role EXCEPT ![parked[c].to] = "none"]
      <4>1. \A p \in Person : role'[p] = IF p = parked[c].to THEN "none" ELSE role[p] BY <1>00, <3>2
      <4> QED BY <1>00, <2>3, <3>2, <4>1 DEF AccessInv, RightsHold
    <3> QED BY <2>4, <3>1, <3>2
  <2> QED BY <2>2, <2>3, <2>6, <2>7 DEF AccessInv
<1>7. ASSUME NEW c \in Person, NEW t \in Person, AsksRemoval(c, t) PROVE AccessInv'
  <2> DEFINE q == [NoRequest EXCEPT !.what = "removal", !.to = t, !.as = role[c]]
  <2>1. q \in ParkedRow /\ q.what = "removal" /\ q.to = t BY <1>0, <1>00 DEF ParkedRow, NoRequest
  <2>2. Parks(c, q) BY <1>7 DEF AsksRemoval
  <2> HIDE DEF q
  <2> QED BY <2>1, <2>2, ParkKeeps
<1>8. ASSUME NEW c \in Person, NEW t \in Receiver, NEW perms \in SUBSET Perms, NEW f \in BOOLEAN,
             AsksGrant(c, t, perms, f)
      PROVE AccessInv'
  <2> DEFINE q == [NoRequest EXCEPT !.what = "grant", !.to = t, !.as = role[c], !.follows = f,
                     !.perms = (IF f THEN ownRole ELSE perms) \cap RoleCeiling(role[t])]
  <2>1. t \in Person BY AccessAssumption
  <2>2. q \in ParkedRow /\ q.what = "grant" /\ q.to = t /\ q.as = role[c]
    BY <1>0, <1>00, <2>1 DEF ParkedRow, NoRequest
  <2>3. Parks(c, q) BY <1>8 DEF AsksGrant
  <2>4. role[c] # "member"
    <3>1. "manage" \in Effective(role[c], grant[c]) BY <1>8 DEF AsksGrant, PermissionsFor
    <3>2. "manage" \notin RoleCeiling("member") /\ ~ ManagesAll("member")
      BY DEF RoleCeiling, ManagesAll
    <3> QED BY <3>1, <3>2 DEF Effective
  <2> HIDE DEF q
  <2> QED BY <2>1, <2>2, <2>3, <2>4, ParkKeeps
<1>9. ASSUME NEW c \in Person, Grants(c) PROVE AccessInv'
  <2>1. parked[c].to \in Person /\ parked[c].as # "member"
    BY <1>9 DEF Grants, Unparks, AccessInv, ParkedInv
  <2>2. ParkedInv' /\ parked' \in [Person -> ParkedRow] BY <1>9, UnparkKeeps DEF Grants
  <2>3. UNCHANGED <<role, ownRole, direct, upstarts, lent>> /\ doubtful' = {}
    BY <1>9, <2>1 DEF Grants, AccessInv
  <2>4. [live |-> TRUE, perms |-> parked[c].perms, follows |-> parked[c].follows /\ ownRole # {}] \in Grant
    BY <1>0 DEF ParkedRow, Grant
  <2>5. grant' \in [Person -> Grant] BY <1>0, <1>9, <2>4 DEF Grants
  <2>6. AccessTypeOK' BY <2>2, <2>3, <2>5 DEF AccessInv, AccessTypeOK, ParkedRow, Grant
  <2>7. RightsHold' /\ upstarts' \subseteq Person BY <2>3 DEF AccessInv, RightsHold
  <2> QED BY <2>2, <2>3, <2>6, <2>7 DEF AccessInv
<1>10. ASSUME NEW c \in Person, Revokes(c) \/ Unshares(c) PROVE AccessInv'
  <2>1. PICK what \in {"revoke", "unshare"} : Unparks(c, what) BY <1>10 DEF Revokes, Unshares
  <2>2. ParkedInv' /\ parked' \in [Person -> ParkedRow] BY <2>1, UnparkKeeps
  <2>3. UNCHANGED <<role, ownRole, upstarts, doubtful, lent>> BY <1>10 DEF Revokes, Unshares
  <2>4. grant' \in [Person -> Grant] BY <1>0, <1>10 DEF Revokes, Unshares
  <2>5. direct' \in [Person -> SUBSET Perms] BY <1>00, <1>10 DEF Revokes, Unshares
  <2>6. AccessTypeOK' BY <2>2, <2>3, <2>4, <2>5 DEF AccessInv, AccessTypeOK, ParkedRow, Grant
  <2>7. RightsHold' /\ upstarts' \subseteq Person BY <2>3 DEF AccessInv, RightsHold
  <2> QED BY <2>2, <2>3, <2>6, <2>7 DEF AccessInv
<1>shares. ASSUME NEW c \in Person, Shares(c) PROVE AccessInv'
  <2> DEFINE q == parked[c]
  <2>1. /\ q \in ParkedRow /\ q.what = "share" /\ q.to \in Person
        /\ (q.as = "member" => q.handed)
    BY <1>0, <1>shares DEF Shares, Unparks, AccessInv, ParkedInv
  <2>2. ParkedInv' /\ parked' \in [Person -> ParkedRow] BY <1>shares, UnparkKeeps DEF Shares
  <2>3. /\ direct' = [direct EXCEPT ![q.to] = q.perms] /\ lent' = LentBy(q)
        /\ UNCHANGED <<role, grant, ownRole, upstarts, doubtful>>
    BY <1>shares DEF Shares
  <2>4. direct' \in [Person -> SUBSET Perms] BY <1>00, <2>1, <2>3 DEF ParkedRow
  <2>5. \A x \in LentBy(q) : x \in lent \/ (q.as = "member" /\ x = [to |-> q.to, handed |-> q.handed])
    BY DEF LentBy
  <2>6. q.handed \in BOOLEAN /\ q.to \in Person BY <2>1 DEF ParkedRow
  <2> HIDE DEF q
  <2>7. lent' \subseteq [to : Person, handed : BOOLEAN]
    BY <2>3, <2>5, <2>6 DEF AccessInv, AccessTypeOK
  <2>8. \A x \in lent' : x.handed BY <2>1, <2>3, <2>5 DEF AccessInv, RightsHold
  <2>9. AccessTypeOK' BY <2>2, <2>3, <2>4, <2>7 DEF AccessInv, AccessTypeOK, ParkedRow
  <2>10. RightsHold' BY <2>3, <2>8 DEF AccessInv, RightsHold
  <2> QED BY <2>2, <2>3, <2>9, <2>10 DEF AccessInv
<1>11. ASSUME NEW c \in Person, NEW t \in Receiver \cup Borrower, AsksRevocation(c, t) \/ AsksUnshare(c, t)
       PROVE  AccessInv'
  <2>1. t \in Person BY AccessAssumption
  <2>2. PICK what \in {"revoke", "unshare"} : Parks(c, [NoRequest EXCEPT !.what = what, !.to = t])
    BY <1>11 DEF AsksRevocation, AsksUnshare
  <2> DEFINE q == [NoRequest EXCEPT !.what = what, !.to = t]
  <2>3. q \in ParkedRow /\ q.what = what /\ q.to = t BY <1>0, <2>1 DEF ParkedRow, NoRequest
  <2> HIDE DEF q
  <2> QED BY <2>1, <2>2, <2>3, ParkKeeps DEF q
<1>12. ASSUME NEW p \in Person, GrantLapses(p) PROVE AccessInv'
  <2>1. grant' \in [Person -> Grant] /\ UNCHANGED <<role, ownRole, direct, parked, upstarts, doubtful, lent>>
    BY <1>0, <1>12 DEF GrantLapses
  <2> QED BY <2>1 DEF AccessInv, AccessTypeOK, ParkedInv, RightsHold, Grant
<1>13. ASSUME NEW c \in Person, NEW perms \in SUBSET Perms, SavesOwnRole(c, perms) PROVE AccessInv'
  <2>1. ownRole' \subseteq Perms /\ UNCHANGED <<role, direct, parked, upstarts, doubtful, lent>>
    BY <1>13 DEF SavesOwnRole, Perms
  <2>2. grant' \in [Person -> Grant]
    <3>1. \A p \in Person : [grant[p] EXCEPT !.perms = (perms \cup {"work"}) \cap RoleCeiling(role[p])] \in Grant
      BY <1>0, CeilingTyped DEF Grant
    <3> QED BY <1>0, <1>13, <3>1 DEF SavesOwnRole
  <2> QED BY <2>1, <2>2 DEF AccessInv, AccessTypeOK, ParkedInv, RightsHold, Grant
<1>14. ASSUME NEW c \in Person, DeletesOwnRole(c) PROVE AccessInv'
  <2>1. ownRole' \subseteq Perms /\ UNCHANGED <<role, direct, parked, upstarts, doubtful, lent>>
    BY <1>14 DEF DeletesOwnRole, Perms
  <2>2. grant' \in [Person -> Grant]
    <3>1. \A p \in Person : [grant[p] EXCEPT !.follows = FALSE] \in Grant
      BY <1>0 DEF Grant
    <3> QED BY <1>14, <3>1 DEF DeletesOwnRole
  <2> QED BY <2>1, <2>2 DEF AccessInv, AccessTypeOK, ParkedInv, RightsHold, Grant
<1>15. ASSUME NEW c \in Person, NEW t \in Borrower, NEW perms \in SUBSET Perms, AsksShare(c, t, perms)
       PROVE AccessInv'
  <2> DEFINE q == [NoRequest EXCEPT !.what = "share", !.to = t, !.as = role[c],
                                    !.handed = "manage" \in direct[c],
                                    !.perms = perms \cap PermissionsForProfile(c)]
  <2>1. t \in Person BY AccessAssumption
  <2>2. q \in ParkedRow /\ q.what = "share" /\ q.to = t /\ q.as = role[c]
        /\ q.handed = ("manage" \in direct[c])
    <3> DEFINE h == "manage" \in direct[c]
    <3>1. h \in BOOLEAN OBVIOUS
    <3> HIDE DEF h
    <3>2. \A b \in BOOLEAN : LET p == [NoRequest EXCEPT !.what = "share", !.to = t, !.as = role[c],
                                            !.handed = b, !.perms = perms \cap PermissionsForProfile(c)] IN
            /\ p \in ParkedRow /\ p.what = "share" /\ p.to = t /\ p.as = role[c] /\ p.handed = b
      BY <1>00, <2>1 DEF ParkedRow, NoRequest
    <3> QED BY <3>1, <3>2 DEF h
  <2>3. Parks(c, q) BY <1>15 DEF AsksShare
  <2>4. role[c] = "member" => "manage" \in direct[c]
    <3>1. "manage" \in PermissionsFor(c) \cup direct[c] BY <1>15 DEF AsksShare, PermissionsForProfile
    <3>2. "manage" \notin RoleCeiling("member") /\ ~ ManagesAll("member")
      BY DEF RoleCeiling, ManagesAll
    <3>3. role[c] = "member" => "manage" \notin PermissionsFor(c)
      BY <3>2 DEF PermissionsFor, Effective
    <3> QED BY <3>1, <3>3
  <2> HIDE DEF q
  <2> QED BY <2>1, <2>2, <2>3, <2>4, ParkKeeps
<1> QED
  BY <1>1, <1>2, <1>3, <1>4, <1>5, <1>6, <1>7, <1>8, <1>9, <1>10, <1>shares, <1>11, <1>12, <1>13,
     <1>14, <1>15
  DEF AccessNext

\* One owner, no admin whom the owner did not make one, no grant given by somebody
\* who was only a member, and no share of the profile by one to whom nobody had
\* handed it with "manage" (api.rs 3468-3480, 3803-3818; rbac.rs; rbac_guard.rs
\* 85-102; shares.rs 112-165).
THEOREM AccessSafe == AccessSpec => [](AccessTypeOK /\ RightsHold)
<1>1. AccessInv => AccessTypeOK /\ RightsHold BY DEF AccessInv
<1> QED BY <1>1, AccessStart, AccessStep, PTL DEF AccessSpec
=============================================================================
