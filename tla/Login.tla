-------------------------------- MODULE Login --------------------------------
(***************************************************************************)
(* Password login with its per-IP lockout, and two-factor enrollment       *)
(* (internal/auth/service.go, store/login_attempts.go, handlers_2fa.go,    *)
(* bgSweep), for one account and any number of clients.                    *)
(*                                                                         *)
(* As in PanelUsers, one action is one SQL statement with the Go code up   *)
(* to the next.  Stored times are modelled by the age of the row, which    *)
(* Tick advances; Lockout, SessionTTL and PurgeAge are in the same unit.   *)
(* A code is modelled by the secret it was computed from.                  *)
(***************************************************************************)
EXTENDS Naturals, Sequences, FiniteSets

CONSTANTS
  Handlers, Kinds,        \* goroutines and the requests each may serve
  IPs,                    \* client addresses
  Passwords,              \* the passwords clients present: TRUE is the right one
  Secrets, NoSecret,      \* TOTP secrets; NoSecret is also "no code"
  MaxLoginAttempts,       \* security.max_login_attempts; 0 means no lockout
  Require2FA,             \* security.require_2fa
  Lockout,                \* security.lockout_min
  SessionTTL,             \* security.session_ttl_min
  PurgeAge,               \* 24 h, the age at which bgSweep drops attempts
  CapAge,                 \* bound: ages above this one are not told apart
  MaxAttempts,            \* bounds: rows login_attempts holds at once, ...
  MaxSessions             \* ... and rows ever inserted into sessions

Kind == {"login", "enroll", "verify", "disable"}

ASSUME KindsAssumption == Kinds \in [Handlers -> SUBSET Kind]
ASSUME HandlersAssumption == IsFiniteSet(Handlers) /\ Cardinality(Handlers) > 0
ASSUME SecretAssumption == NoSecret \notin Secrets
ASSUME ClientAssumption == Passwords \subseteq BOOLEAN /\ IPs # {}
ASSUME LimitAssumption == MaxLoginAttempts \in Nat /\ Require2FA \in BOOLEAN
ASSUME AgeAssumption ==
  /\ Lockout \in Nat /\ SessionTTL \in Nat /\ PurgeAge \in Nat /\ CapAge \in Nat
  /\ Lockout < CapAge /\ SessionTTL < CapAge /\ PurgeAge < CapAge
ASSUME BoundsAssumption == MaxAttempts \in Nat /\ MaxSessions \in Nat

VARIABLES
  attempts,     \* table login_attempts: [ip, ok, age] of each row, oldest first
  sessions,     \* table sessions: id -> age
  lastSession,
  totp,         \* users.totp_secret: none, "pending:" + secret, or secret
  pc, req,      \* the requests in progress
  issued,       \* secrets generated so far
  verified,     \* history: secrets a right code has been presented for
  gated         \* history: the logins during all of which 2FA was active

tables == <<attempts, sessions, lastSession>>
factor == <<totp, issued, verified, gated>>
vars == <<attempts, sessions, lastSession, totp, pc, req, issued, verified, gated>>

Attempt == [ip : IPs, ok : BOOLEAN, age : 0..CapAge]
TOTP == [state : {"none"}, secret : {NoSecret}]
        \cup [state : {"pending", "active"}, secret : Secrets]
NoTOTP == [state |-> "none", secret |-> NoSecret]

PC == {"idle", "find", "fail", "open", "success", "caller", "handler"}

(* ip, good, code: a login's address, whether its password is right, and its
   code; seen: the account's secret in the request context. *)
Request == [kind : Kind \cup {"none"}, ip : IPs, good : BOOLEAN,
            code : Secrets \cup {NoSecret}, seen : TOTP]

AnyIP == CHOOSE ip \in IPs : TRUE
NoRequest == [kind |-> "none", ip |-> AnyIP, good |-> FALSE, code |-> NoSecret,
              seen |-> NoTOTP]

(* The tables, the account's secret and the requests have their types; attempts
   are in the order of their making, sessions numbered by ids handed out before. *)
TypeOK ==
  /\ attempts \in Seq(Attempt) /\ lastSession \in Nat
  /\ \A i, j \in DOMAIN attempts : i <= j => attempts[i].age >= attempts[j].age
  /\ sessions \in [DOMAIN sessions -> 0..CapAge] /\ DOMAIN sessions \subseteq 1..lastSession
  /\ totp \in TOTP
  /\ pc \in [Handlers -> PC] /\ req \in [Handlers -> Request]
  /\ issued \subseteq Secrets /\ verified \subseteq Secrets /\ gated \subseteq Handlers

Init ==
  /\ attempts = <<>>
  /\ sessions = [i \in {} |-> 0] /\ lastSession = 0
  /\ totp = NoTOTP
  /\ pc = [h \in Handlers |-> "idle"] /\ req = [h \in Handlers |-> NoRequest]
  /\ issued = {} /\ verified = {} /\ gated = {}

Become(h, step, record) == /\ pc' = [pc EXCEPT ![h] = step]
                           /\ req' = [req EXCEPT ![h] = record]
Reply(h) == Become(h, "idle", NoRequest)

------------------------------------------------------------------------------
(* Login attempts and the lockout. *)

(* The rows CountRecentFailures counts. *)
Recent(ip) == {i \in DOMAIN attempts : /\ attempts[i].ip = ip /\ ~attempts[i].ok
                                       /\ attempts[i].age <= Lockout}

(* Mutant: the threshold is passed before it locks. *)
LockedLate(ip) == MaxLoginAttempts > 0 /\ Cardinality(Recent(ip)) > MaxLoginAttempts

Locked(ip) == MaxLoginAttempts > 0 /\ Cardinality(Recent(ip)) >= MaxLoginAttempts

RecordLoginAttempt(ip, ok) ==
  /\ Len(attempts) < MaxAttempts
  /\ attempts' = Append(attempts, [ip |-> ip, ok |-> ok, age |-> 0])

------------------------------------------------------------------------------
(* Service.Login. *)

(* Mutant: a login that is refused is recorded as well. *)
LoginCheckRecording(h) ==
  /\ pc[h] = "idle" /\ "login" \in Kinds[h]
  /\ \E ip \in IPs, good \in Passwords, code \in Secrets \cup {NoSecret} :
       IF Locked(ip) THEN RecordLoginAttempt(ip, FALSE) /\ UNCHANGED <<pc, req, gated>>
       ELSE /\ Become(h, "find", [NoRequest EXCEPT !.kind = "login", !.ip = ip,
                                                   !.good = good, !.code = code])
            /\ gated' = IF totp.state = "active" THEN gated \cup {h} ELSE gated \ {h}
            /\ UNCHANGED attempts
  /\ UNCHANGED <<sessions, lastSession, totp, issued, verified>>

(* CountRecentFailures; a locked-out request is refused and not recorded. *)
LoginCheck(h) ==
  /\ pc[h] = "idle" /\ "login" \in Kinds[h]
  /\ \E ip \in IPs, good \in Passwords, code \in Secrets \cup {NoSecret} :
       /\ ~Locked(ip)
       /\ Become(h, "find", [NoRequest EXCEPT !.kind = "login", !.ip = ip,
                                              !.good = good, !.code = code])
  /\ gated' = IF totp.state = "active" THEN gated \cup {h} ELSE gated \ {h}
  /\ UNCHANGED <<tables, totp, issued, verified>>

(* Mutant: a login without a code passes if the account has a secret. *)
CodeMissingPasses(code) == totp.state = "active" /\ code \in {totp.secret, NoSecret}

(* ValidateTOTP: the stored text is the secret unless it is still "pending:". *)
CodeValid(code) == totp.state = "active" /\ code = totp.secret

(* GetUserByName, VerifyPassword, and the second factor.  An unknown user is a
   wrong password.  Asking for a code is neither a failure nor a success. *)
LoginFind(h) ==
  /\ pc[h] = "find"
  /\ LET r == req[h]
         needs == totp.state # "none" \/ Require2FA
     IN \/ ~r.good /\ Become(h, "fail", r)
        \/ r.good /\ ~needs /\ Become(h, "open", r)
        \/ /\ r.good /\ needs
           /\ \/ CodeValid(r.code) /\ Become(h, "open", r)
              \/ ~CodeValid(r.code) /\ IF totp.state = "none" \/ r.code = NoSecret
                                       THEN Reply(h) ELSE Become(h, "fail", r)
  /\ UNCHANGED <<tables, factor>>

LoginFail(h) ==
  /\ pc[h] = "fail"
  /\ RecordLoginAttempt(req[h].ip, FALSE)
  /\ Reply(h)
  /\ UNCHANGED <<sessions, lastSession, factor>>

OpenSession(h) ==
  /\ pc[h] = "open"
  /\ lastSession < MaxSessions
  /\ lastSession' = lastSession + 1
  /\ sessions' = [s \in DOMAIN sessions \cup {lastSession + 1} |->
                    IF s = lastSession + 1 THEN 0 ELSE sessions[s]]
  /\ Become(h, "success", req[h])
  /\ UNCHANGED <<attempts, factor>>

LoginSuccess(h) ==
  /\ pc[h] = "success"
  /\ RecordLoginAttempt(req[h].ip, TRUE)
  /\ Reply(h)
  /\ UNCHANGED <<sessions, lastSession, factor>>

------------------------------------------------------------------------------
(* Two-factor enrollment.  The handlers work on the account as requireAuth    *)
(* read it.                                                                   *)

(* GetSession, unexpired. *)
FindSession(h) ==
  /\ pc[h] = "idle"
  /\ \E kind \in Kinds[h] \ {"login"}, s \in DOMAIN sessions :
       /\ sessions[s] <= SessionTTL
       /\ Become(h, "caller", [NoRequest EXCEPT !.kind = kind])
  /\ UNCHANGED <<tables, factor>>

(* GetUser. *)
LoadCaller(h) ==
  /\ pc[h] = "caller"
  /\ Become(h, "handler", [req[h] EXCEPT !.seen = totp])
  /\ UNCHANGED <<tables, factor>>

Serving(h, kind) == pc[h] = "handler" /\ req[h].kind = kind

(* Mutant: disabling leaves the secret behind. *)
UpdateUserTOTPState(new) ==
  /\ totp' = [totp EXCEPT !.state = new.state]
  /\ UNCHANGED gated

(* UPDATE users SET totp_secret. *)
UpdateUserTOTP(new) ==
  /\ totp' = new
  /\ gated' = IF new.state = "active" THEN gated ELSE {}

Enroll(h) ==
  /\ Serving(h, "enroll")
  /\ \E s \in Secrets \ issued :
       /\ issued' = issued \cup {s}
       /\ UpdateUserTOTP([state |-> "pending", secret |-> s])
  /\ Reply(h)
  /\ UNCHANGED <<tables, verified>>

(* Mutant: activates whatever secret is pending by now. *)
VerifyCurrent(h) ==
  /\ Serving(h, "verify")
  /\ IF req[h].seen.state # "pending" THEN UNCHANGED factor
     ELSE /\ verified' = verified \cup {req[h].seen.secret}
          /\ UpdateUserTOTP(IF totp.state = "pending" THEN [totp EXCEPT !.state = "active"]
                                                      ELSE totp)
          /\ UNCHANGED issued
  /\ Reply(h)
  /\ UNCHANGED tables

(* A right code for the pending secret of the snapshot activates that secret;
   anything else is refused. *)
Verify(h) ==
  /\ Serving(h, "verify")
  /\ \/ UNCHANGED factor
     \/ /\ req[h].seen.state = "pending"
        /\ verified' = verified \cup {req[h].seen.secret}
        /\ UpdateUserTOTP([req[h].seen EXCEPT !.state = "active"])
        /\ UNCHANGED issued
  /\ Reply(h)
  /\ UNCHANGED tables

Disable(h) ==
  /\ Serving(h, "disable")
  /\ UpdateUserTOTP(NoTOTP)
  /\ Reply(h)
  /\ UNCHANGED <<tables, issued, verified>>

------------------------------------------------------------------------------
(* Time, and bgSweep. *)

Older(age) == IF age < CapAge THEN age + 1 ELSE age

Tick ==
  /\ attempts' = [i \in DOMAIN attempts |-> [attempts[i] EXCEPT !.age = Older(@)]]
  /\ sessions' = [s \in DOMAIN sessions |-> Older(sessions[s])]
  /\ UNCHANGED <<lastSession, pc, req, factor>>

(* Expired sessions go: by bgSweep, or by LookupSession when one is used. *)
DeleteExpiredSessions ==
  /\ \E gone \in SUBSET {s \in DOMAIN sessions : sessions[s] > SessionTTL} :
       /\ gone # {}
       /\ sessions' = [s \in DOMAIN sessions \ gone |-> sessions[s]]
  /\ UNCHANGED <<attempts, lastSession, pc, req, factor>>

(* Rows older than age go; they are the first ones. *)
DropOlderThan(age) ==
  \E n \in 0..Len(attempts) :
    /\ \A i \in DOMAIN attempts : attempts[i].age > age <=> i <= n
    /\ attempts' = SubSeq(attempts, n + 1, Len(attempts))

(* Mutant: attempts are kept no longer than a tick. *)
PurgeEarly == DropOlderThan(0) /\ UNCHANGED <<sessions, lastSession, pc, req, factor>>

PurgeOldLoginAttempts == DropOlderThan(PurgeAge) /\ UNCHANGED <<sessions, lastSession, pc, req, factor>>

Step(h) ==
  \/ LoginCheck(h) \/ LoginFind(h) \/ LoginFail(h) \/ OpenSession(h) \/ LoginSuccess(h)
  \/ FindSession(h) \/ LoadCaller(h) \/ Enroll(h) \/ Verify(h) \/ Disable(h)

Next == \/ \E h \in Handlers : Step(h)
        \/ Tick \/ DeleteExpiredSessions \/ PurgeOldLoginAttempts

Spec == Init /\ [][Next]_vars

(* Time passes. *)
TimedSpec == Spec /\ WF_vars(Tick)

(* Requests are served, and somebody who knows the password keeps signing in. *)
UserSpec ==
  /\ Spec
  /\ \A h \in Handlers : /\ WF_vars(Step(h))
                         /\ SF_vars(LoginCheck(h) /\ req'[h].good)

------------------------------------------------------------------------------
(* Properties. *)

(* The lockout is checked before a slow password check and recorded after it,
   so concurrent logins overshoot the threshold; but by no more than there are
   goroutines: an address never has more recent failures than that. *)
FailuresBounded ==
  MaxLoginAttempts > 0 =>
    \A ip \in IPs :
      Cardinality(Recent(ip)) <= MaxLoginAttempts - 1 + Cardinality(Handlers)

(* bgSweep never drops a failure that a lockout still counts. *)
LockoutKept ==
  [][\A ip \in IPs : PurgeOldLoginAttempts =>
                       Cardinality(Recent(ip))' = Cardinality(Recent(ip))]_vars

(* A lockout ends although the client keeps trying: what is refused is not
   recorded, and does not make the lockout longer. *)
LockoutEnds == \A ip \in IPs : Locked(ip) ~> ~Locked(ip)

(* The secret that guards the account is one its owner has shown a right code
   for, also when enrollments, verifications and disablings overlap. *)
ActiveWasVerified == totp.state = "active" => totp.secret \in verified

(* No session opens without a code if 2FA was active during the whole login. *)
TwoFactorHolds ==
  \A h \in gated : pc[h] = "open" => req[h].code \in verified

(* security.require_2fa, "Force TOTP enrollment for every user": who keeps
   signing in with the right password ends up enrolled. *)
EnrollmentForced == Require2FA => <>(totp.state = "active")
==============================================================================
