------------------------------ MODULE LoginProofs ------------------------------
(***************************************************************************)
(* What is proved of Login for any number of goroutines and addresses, any *)
(* threshold and any durations.                                            *)
(***************************************************************************)
EXTENDS Login, FiniteSetTheorems, FunctionTheorems, SequenceTheorems, TLAPS

------------------------------------------------------------------------------
(* Type correctness. *)

(* An account that never enrolled has a well-typed secret. *)
LEMMA NoTOTPType == NoTOTP \in TOTP
BY DEF NoTOTP, TOTP

(* An idle goroutine has a well-typed request. *)
LEMMA NoRequestType == NoRequest \in Request
<1>1. AnyIP \in IPs
  BY ClientAssumption DEF AnyIP
<1> QED
  BY <1>1, NoTOTPType DEF NoRequest, Request, NoTOTP

(* The empty tables and idle goroutines are well typed. *)
LEMMA InitType == Init => TypeOK
BY NoRequestType, NoTOTPType DEF Init, TypeOK, PC

(* A request that goes on with a well-typed record keeps the types. *)
LEMMA BecomeType ==
  ASSUME TypeOK, NEW h \in Handlers, NEW step \in PC, NEW r \in Request,
         Become(h, step, r)
  PROVE  pc' \in [Handlers -> PC] /\ req' \in [Handlers -> Request]
BY DEF TypeOK, Become

(* So does one that replies. *)
LEMMA ReplyType ==
  ASSUME TypeOK, NEW h \in Handlers, Reply(h)
  PROVE  pc' \in [Handlers -> PC] /\ req' \in [Handlers -> Request]
BY BecomeType, NoRequestType DEF Reply, PC

(* The table is a sequence of rows in the order of their making. *)
AttemptsOK == /\ attempts \in Seq(Attempt)
              /\ \A i, j \in DOMAIN attempts : i <= j => attempts[i].age >= attempts[j].age

(* What a row of the table is. *)
LEMMA Rows ==
  ASSUME attempts \in Seq(Attempt)
  PROVE  /\ Len(attempts) \in Nat /\ DOMAIN attempts = 1..Len(attempts)
         /\ \A i \in DOMAIN attempts : /\ attempts[i] \in Attempt
                                        /\ attempts[i].age \in 0..CapAge /\ attempts[i].age \in Nat
<1>1. \A a \in Attempt : a.age \in 0..CapAge /\ a.age \in Nat
  BY AgeAssumption DEF Attempt
<1>2. \A i \in DOMAIN attempts : attempts[i] \in Attempt
  OBVIOUS
<1> QED
  BY <1>1, <1>2, LenProperties

(* RecordLoginAttempt inserts a row of its table, the youngest. *)
LEMMA RecordType ==
  ASSUME TypeOK, NEW ip \in IPs, NEW ok \in BOOLEAN, RecordLoginAttempt(ip, ok)
  PROVE  AttemptsOK'
<1> DEFINE row == [ip |-> ip, ok |-> ok, age |-> 0]
<1>1. row \in Attempt /\ row.age = 0
  BY AgeAssumption DEF Attempt
<1> HIDE DEF row
<1>2. attempts \in Seq(Attempt) /\ attempts' = Append(attempts, row)
  BY DEF TypeOK, RecordLoginAttempt, row
<1>3. /\ attempts' \in Seq(Attempt) /\ DOMAIN attempts' = 1..(Len(attempts) + 1)
      /\ attempts'[Len(attempts) + 1] = row /\ Len(attempts) \in Nat
      /\ DOMAIN attempts = 1..Len(attempts)
      /\ \A i \in DOMAIN attempts : attempts'[i] = attempts[i]
  BY <1>1, <1>2
<1>4. \A i \in DOMAIN attempts : attempts[i].age \in Nat
  BY <1>2, Rows
<1>5. ASSUME NEW i \in DOMAIN attempts', NEW j \in DOMAIN attempts', i <= j
      PROVE  attempts'[i].age >= attempts'[j].age
  BY <1>1, <1>3, <1>4, <1>5 DEF TypeOK
<1> QED
  BY <1>3, <1>5 DEF AttemptsOK

(* What is left of a sequence without its first n members. *)
LEMMA AfterFirst ==
  ASSUME NEW S, NEW s \in Seq(S), NEW n \in 0..Len(s)
  PROVE  LET rest == SubSeq(s, n + 1, Len(s))
         IN  /\ rest \in Seq(S) /\ DOMAIN rest = 1..(Len(s) - n)
             /\ \A i \in DOMAIN rest : i + n \in DOMAIN s /\ rest[i] = s[i + n]
<1> DEFINE rest == SubSeq(s, n + 1, Len(s))
<1>1. Len(s) \in Nat /\ DOMAIN s = 1..Len(s) /\ n \in Nat /\ n <= Len(s)
  BY LenProperties
<1>2. \A i \in (n + 1)..Len(s) : s[i] \in S
  BY <1>1
<1>3. /\ rest \in Seq(S)
      /\ Len(rest) = IF n + 1 <= Len(s) THEN Len(s) - (n + 1) + 1 ELSE 0
      /\ \A i \in 1..(Len(s) - (n + 1) + 1) : rest[i] = s[n + 1 + i - 1]
  BY <1>1, <1>2, SubSeqProperties
<1> HIDE DEF rest
<1>4. Len(rest) = Len(s) - n /\ DOMAIN rest = 1..(Len(s) - n)
  <2>1. Len(rest) = Len(s) - n
    BY <1>1, <1>3
  <2>2. DOMAIN rest = 1..Len(rest)
    BY <1>3, LenProperties
  <2> QED
    BY <2>1, <2>2
<1>5. \A i \in DOMAIN rest : i + n \in DOMAIN s /\ n + 1 + i - 1 = i + n /\ i \in 1..(Len(s) - (n + 1) + 1)
  BY <1>1, <1>4
<1> QED
  BY <1>3, <1>4, <1>5 DEF rest

(* Whatever rows go first, what is left is in order. *)
LEMMA DropType == ASSUME TypeOK, NEW age, DropOlderThan(age) PROVE AttemptsOK'
<1>1. PICK n \in 0..Len(attempts) : attempts' = SubSeq(attempts, n + 1, Len(attempts))
  BY DEF DropOlderThan
<1>2. attempts \in Seq(Attempt) /\ Len(attempts) \in Nat /\ DOMAIN attempts = 1..Len(attempts)
  BY DEF TypeOK
<1>3. /\ attempts' \in Seq(Attempt) /\ DOMAIN attempts' = 1..(Len(attempts) - n)
      /\ \A i \in DOMAIN attempts' : i + n \in DOMAIN attempts /\ attempts'[i] = attempts[i + n]
  BY <1>1, <1>2, AfterFirst
<1>4. ASSUME NEW i \in DOMAIN attempts', NEW j \in DOMAIN attempts', i <= j
      PROVE  attempts'[i].age >= attempts'[j].age
  <2>1. i + n <= j + n
    BY <1>1, <1>3, <1>4
  <2> QED
    BY <1>3, <2>1 DEF TypeOK
<1> QED
  BY <1>3, <1>4 DEF AttemptsOK

(* UpdateUserTOTP takes any secret the table can hold. *)
LEMMA UpdateType ==
  ASSUME TypeOK, NEW new \in TOTP, UpdateUserTOTP(new)
  PROVE  totp' \in TOTP /\ gated' \subseteq Handlers
BY DEF TypeOK, UpdateUserTOTP

(* Every step keeps the types: one step of the proof per action. *)
LEMMA NextType == TypeOK /\ [Next]_vars => TypeOK'
<1> SUFFICES ASSUME TypeOK, [Next]_vars PROVE TypeOK'
  OBVIOUS
<1> USE DEF tables, factor
<1>1. CASE UNCHANGED vars
  BY <1>1 DEF vars, TypeOK
<1>2. ASSUME NEW h \in Handlers, LoginCheck(h) PROVE TypeOK'
  <2>1. PICK ip \in IPs, good \in Passwords, code \in Secrets \cup {NoSecret} :
          Become(h, "find", [NoRequest EXCEPT !.kind = "login", !.ip = ip,
                                              !.good = good, !.code = code])
    BY <1>2 DEF LoginCheck
  <2>2. [NoRequest EXCEPT !.kind = "login", !.ip = ip, !.good = good, !.code = code]
          \in Request
    BY NoRequestType, ClientAssumption DEF Request, Kind
  <2>3. pc' \in [Handlers -> PC] /\ req' \in [Handlers -> Request]
    BY <2>1, <2>2, BecomeType DEF PC
  <2> QED
    BY <1>2, <2>3 DEF LoginCheck, TypeOK
<1>3. ASSUME NEW h \in Handlers, LoginFind(h) PROVE TypeOK'
  <2>1. req[h] \in Request
    BY DEF TypeOK
  <2>2. Reply(h) \/ \E step \in {"fail", "open"} : Become(h, step, req[h])
    BY <1>3 DEF LoginFind
  <2>3. pc' \in [Handlers -> PC] /\ req' \in [Handlers -> Request]
    BY <2>1, <2>2, BecomeType, ReplyType DEF PC
  <2> QED
    BY <1>3, <2>3 DEF LoginFind, TypeOK
<1>4. ASSUME NEW h \in Handlers, LoginFail(h) \/ LoginSuccess(h) PROVE TypeOK'
  <2>1. req[h].ip \in IPs
    BY DEF TypeOK, Request
  <2>2. pc' \in [Handlers -> PC] /\ req' \in [Handlers -> Request]
    BY <1>4, ReplyType DEF LoginFail, LoginSuccess
  <2>3. \E ok \in BOOLEAN : RecordLoginAttempt(req[h].ip, ok)
    BY <1>4 DEF LoginFail, LoginSuccess
  <2>4. AttemptsOK'
    BY <2>1, <2>3, RecordType
  <2> QED
    BY <1>4, <2>2, <2>4 DEF LoginFail, LoginSuccess, TypeOK, AttemptsOK
<1>5. ASSUME NEW h \in Handlers, OpenSession(h) PROVE TypeOK'
  <2>1. pc' \in [Handlers -> PC] /\ req' \in [Handlers -> Request]
    BY <1>5, BecomeType DEF OpenSession, PC, TypeOK
  <2>2. /\ lastSession' \in Nat /\ DOMAIN sessions' \subseteq 1..lastSession'
        /\ sessions' \in [DOMAIN sessions' -> 0..CapAge]
    BY <1>5, AgeAssumption DEF OpenSession, TypeOK
  <2> QED
    BY <1>5, <2>1, <2>2 DEF OpenSession, TypeOK
<1>6. ASSUME NEW h \in Handlers, FindSession(h) PROVE TypeOK'
  <2>1. PICK kind \in Kinds[h] : Become(h, "caller", [NoRequest EXCEPT !.kind = kind])
    BY <1>6 DEF FindSession
  <2>2. [NoRequest EXCEPT !.kind = kind] \in Request
    BY NoRequestType, KindsAssumption DEF Request
  <2>3. pc' \in [Handlers -> PC] /\ req' \in [Handlers -> Request]
    BY <2>1, <2>2, BecomeType DEF PC
  <2> QED
    BY <1>6, <2>3 DEF FindSession, TypeOK
<1>7. ASSUME NEW h \in Handlers, LoadCaller(h) PROVE TypeOK'
  <2>1. [req[h] EXCEPT !.seen = totp] \in Request
    BY DEF TypeOK, Request
  <2>2. pc' \in [Handlers -> PC] /\ req' \in [Handlers -> Request]
    BY <1>7, <2>1, BecomeType DEF LoadCaller, PC
  <2> QED
    BY <1>7, <2>2 DEF LoadCaller, TypeOK
<1>8. ASSUME NEW h \in Handlers, Enroll(h) PROVE TypeOK'
  <2>1. PICK s \in Secrets : /\ issued' = issued \cup {s}
                             /\ UpdateUserTOTP([state |-> "pending", secret |-> s])
    BY <1>8 DEF Enroll
  <2>2. totp' \in TOTP /\ gated' \subseteq Handlers
    BY <2>1, UpdateType DEF TOTP
  <2>3. pc' \in [Handlers -> PC] /\ req' \in [Handlers -> Request]
    BY <1>8, ReplyType DEF Enroll
  <2> QED
    BY <1>8, <2>1, <2>2, <2>3 DEF Enroll, TypeOK
<1>9. ASSUME NEW h \in Handlers, Disable(h) PROVE TypeOK'
  <2>1. totp' \in TOTP /\ gated' \subseteq Handlers
    BY <1>9, NoTOTPType, UpdateType DEF Disable
  <2>2. pc' \in [Handlers -> PC] /\ req' \in [Handlers -> Request]
    BY <1>9, ReplyType DEF Disable
  <2> QED
    BY <1>9, <2>1, <2>2 DEF Disable, TypeOK
<1>10. CASE Tick
  <2>1. \A age \in 0..CapAge : Older(age) \in 0..CapAge
    BY AgeAssumption DEF Older
  <2>2. AttemptsOK'
    <3>1. attempts \in Seq(Attempt) /\ Len(attempts) \in Nat /\ DOMAIN attempts = 1..Len(attempts)
      BY DEF TypeOK
    <3>2. \A i \in DOMAIN attempts : attempts[i] \in Attempt
      BY <3>1
    <3>3. attempts' = [i \in 1..Len(attempts) |-> [attempts[i] EXCEPT !.age = Older(@)]]
      BY <1>10, <3>1 DEF Tick
    <3>4. \A i \in DOMAIN attempts :
            /\ attempts[i].age \in 0..CapAge
            /\ [attempts[i] EXCEPT !.age = Older(@)] \in Attempt
            /\ [attempts[i] EXCEPT !.age = Older(@)].age = Older(attempts[i].age)
      BY <2>1, <3>2 DEF Attempt
    <3>5. attempts' \in Seq(Attempt) /\ DOMAIN attempts' = DOMAIN attempts
      BY <3>1, <3>3, <3>4
    <3>6. \A i \in DOMAIN attempts : attempts'[i].age = Older(attempts[i].age)
      BY <3>1, <3>3, <3>4
    <3>7. \A a, b \in 0..CapAge : a >= b => Older(a) >= Older(b)
      BY AgeAssumption DEF Older
    <3>8. \A i, j \in DOMAIN attempts : i <= j => attempts[i].age >= attempts[j].age
      BY DEF TypeOK
    <3>9. ASSUME NEW i \in DOMAIN attempts', NEW j \in DOMAIN attempts', i <= j
          PROVE  attempts'[i].age >= attempts'[j].age
      <4>1. i \in DOMAIN attempts /\ j \in DOMAIN attempts /\ attempts[i].age >= attempts[j].age
        BY <3>5, <3>8, <3>9
      <4> QED
        BY <3>4, <3>6, <3>7, <4>1
    <3> QED
      BY <3>5, <3>9 DEF AttemptsOK
  <2>3. sessions' \in [DOMAIN sessions' -> 0..CapAge]
    BY <1>10, <2>1 DEF Tick, TypeOK
  <2> QED
    BY <1>10, <2>2, <2>3 DEF Tick, TypeOK, AttemptsOK
<1>11. CASE DeleteExpiredSessions
  BY <1>11 DEF DeleteExpiredSessions, TypeOK
<1>12. CASE PurgeOldLoginAttempts
  BY <1>12, DropType DEF PurgeOldLoginAttempts, TypeOK, AttemptsOK
<1>13. ASSUME NEW h \in Handlers, Verify(h) PROVE TypeOK'
  <2>1. pc' \in [Handlers -> PC] /\ req' \in [Handlers -> Request]
    BY <1>13, ReplyType DEF Verify
  <2>2. CASE UNCHANGED factor
    BY <1>13, <2>1, <2>2 DEF Verify, TypeOK
  <2>3. CASE /\ req[h].seen.state = "pending"
             /\ verified' = verified \cup {req[h].seen.secret}
             /\ UpdateUserTOTP([req[h].seen EXCEPT !.state = "active"])
             /\ UNCHANGED issued
    <3>1. req[h].seen \in [state : {"pending", "active"}, secret : Secrets]
      BY <2>3 DEF TypeOK, Request, TOTP
    <3>2. [req[h].seen EXCEPT !.state = "active"] \in TOTP /\ req[h].seen.secret \in Secrets
      BY <3>1 DEF TOTP
    <3>3. totp' \in TOTP /\ gated' \subseteq Handlers
      BY <2>3, <3>2, UpdateType
    <3> QED
      BY <1>13, <2>1, <2>3, <3>2, <3>3 DEF Verify, TypeOK
  <2> QED
    BY <1>13, <2>2, <2>3 DEF Verify
<1> QED
  BY <1>1, <1>2, <1>3, <1>4, <1>5, <1>6, <1>7, <1>8, <1>9, <1>10, <1>11, <1>12, <1>13
  DEF Next, Step

(* Every table, every request and the account keep their types. *)
THEOREM TypeCorrect == Spec => []TypeOK
BY InitType, NextType, PTL DEF Spec

------------------------------------------------------------------------------
(* The lockout. *)

(* The logins that have passed the check and may still fail. *)
Pending(ip) == {h \in Handlers : pc[h] \in {"find", "fail"} /\ req[h].ip = ip}

(* What is recorded and what may still be recorded stay below the bound; the
   rows alone would not be inductive, since many logins can be past the check. *)
Overshoot(ip) ==
  Cardinality(Recent(ip)) + Cardinality(Pending(ip))
    <= MaxLoginAttempts - 1 + Cardinality(Handlers)

LockoutInv == TypeOK /\ (MaxLoginAttempts > 0 => \A ip \in IPs : Overshoot(ip))

(* What the bound counts is finite. *)
LEMMA Finite ==
  ASSUME TypeOK, NEW ip \in IPs
  PROVE  /\ IsFiniteSet(Recent(ip)) /\ Cardinality(Recent(ip)) \in Nat
         /\ IsFiniteSet(Pending(ip)) /\ Cardinality(Pending(ip)) \in Nat
         /\ Cardinality(Pending(ip)) <= Cardinality(Handlers)
         /\ Cardinality(Handlers) \in Nat
<1>1. Len(attempts) \in Nat /\ DOMAIN attempts = 1..Len(attempts)
  BY DEF TypeOK
<1>2. IsFiniteSet(1..Len(attempts))
  BY <1>1, FS_Interval
<1>3. Recent(ip) \subseteq 1..Len(attempts) /\ Pending(ip) \subseteq Handlers
  BY <1>1 DEF Recent, Pending
<1> QED
  BY <1>2, <1>3, HandlersAssumption, FS_Subset, FS_CardinalityType

(* A step after which there are neither more failures nor more logins past the check. *)
LEMMA Shrinks ==
  ASSUME TypeOK, TypeOK', NEW ip \in IPs, Overshoot(ip), MaxLoginAttempts > 0,
         Cardinality(Recent(ip)') <= Cardinality(Recent(ip)), Pending(ip)' \subseteq Pending(ip)
  PROVE  Overshoot(ip)'
<1>1. /\ Cardinality(Pending(ip)') <= Cardinality(Pending(ip))
      /\ Cardinality(Pending(ip)') \in Nat
  BY Finite, FS_Subset, FS_CardinalityType
<1>2. Cardinality(Recent(ip)') \in Nat
  <2>1. Recent(ip)' \subseteq 1..Len(attempts') /\ Len(attempts') \in Nat
    BY DEF TypeOK, Recent
  <2>2. IsFiniteSet(1..Len(attempts'))
    <3>1. 1 \in Int /\ Len(attempts') \in Int
      BY <2>1
    <3> QED
      BY <3>1, FS_Interval
  <2> QED
    BY <2>1, <2>2, FS_Subset, FS_CardinalityType
<1> QED
  BY <1>1, <1>2, Finite, LimitAssumption DEF Overshoot

(* A part of what there was is no more. *)
LEMMA FewerRecent ==
  ASSUME TypeOK, NEW ip \in IPs, Recent(ip)' \subseteq Recent(ip)
  PROVE  Cardinality(Recent(ip)') <= Cardinality(Recent(ip))
BY Finite, FS_Subset, FS_CardinalityType

(* The failures that are left when rows go are as many as they were among the rest. *)
LEMMA Shifted ==
  ASSUME TypeOK, NEW ip \in IPs, NEW n \in 0..Len(attempts),
         attempts' = SubSeq(attempts, n + 1, Len(attempts))
  PROVE  Cardinality(Recent(ip)') = Cardinality({i \in Recent(ip) : i > n})
<1> DEFINE Rest == {i \in Recent(ip) : i > n}
           shift == [i \in Recent(ip)' |-> i + n]
<1>1. Len(attempts) \in Nat /\ DOMAIN attempts = 1..Len(attempts) /\ n \in Nat
  BY DEF TypeOK
<1>2. /\ DOMAIN attempts' = 1..(Len(attempts) - n)
      /\ \A i \in DOMAIN attempts' : i + n \in DOMAIN attempts /\ attempts'[i] = attempts[i + n]
  BY AfterFirst DEF TypeOK
<1>3. \A i \in Recent(ip)' : i \in Nat /\ i + n \in Rest
  BY <1>1, <1>2 DEF Recent
<1>4. \A k \in Rest : k - n \in Recent(ip)' /\ k = (k - n) + n
  <2> SUFFICES ASSUME NEW k \in Rest PROVE k - n \in Recent(ip)' /\ k = (k - n) + n
    OBVIOUS
  <2>1. k \in 1..Len(attempts) /\ k > n
    BY <1>1 DEF Recent
  <2>2. k - n \in DOMAIN attempts' /\ k = (k - n) + n
    BY <1>1, <1>2, <2>1
  <2>3. attempts'[k - n] = attempts[k]
    BY <1>2, <2>2
  <2> QED
    BY <2>2, <2>3 DEF Recent
<1> HIDE DEF Rest
<1>5. shift \in Injection(Recent(ip)', Rest) /\ shift \in Surjection(Recent(ip)', Rest)
  <2>1. shift \in [Recent(ip)' -> Rest]
    BY <1>3
  <2>2. \A i, j \in Recent(ip)' : shift[i] = shift[j] => i = j
    BY <1>1, <1>3
  <2>3. \A k \in Rest : \E i \in Recent(ip)' : shift[i] = k
    BY <1>4
  <2> QED
    BY <2>1, <2>2, <2>3 DEF Injection, IsInjective, Surjection
<1>6. IsFiniteSet(Recent(ip)) /\ Rest \subseteq Recent(ip)
  BY Finite DEF Rest
<1>7. IsFiniteSet(Rest)
  BY <1>6, FS_Subset
<1> HIDE DEF shift
<1> QED
  BY <1>5, <1>7, FS_Injection DEF Rest

(* A request that leaves the check behind, or never was a login, adds nothing. *)
LEMMA PendingShrinks ==
  ASSUME TypeOK, NEW ip \in IPs, NEW h \in Handlers, NEW step, NEW r,
         Become(h, step, r),
         step \in {"find", "fail"} => pc[h] \in {"find", "fail"} /\ r.ip = req[h].ip
  PROVE  Pending(ip)' \subseteq Pending(ip)
BY DEF TypeOK, Become, Pending

(* A login past the check finds fewer failures than the threshold recorded,
   and so at most one login per goroutine comes on top of them. *)
LEMMA CheckKeeps ==
  ASSUME TypeOK, NEW h \in Handlers, LoginCheck(h), MaxLoginAttempts > 0,
         NEW ip \in IPs, Overshoot(ip), TypeOK'
  PROVE  Overshoot(ip)'
<1>1. PICK addr \in IPs, good \in Passwords, code \in Secrets \cup {NoSecret} :
        /\ ~Locked(addr)
        /\ Become(h, "find", [NoRequest EXCEPT !.kind = "login", !.ip = addr,
                                              !.good = good, !.code = code])
  BY DEF LoginCheck
<1>2. Recent(ip)' = Recent(ip)
  BY DEF LoginCheck, tables, Recent
<1>3. CASE addr = ip
  <2>1. Cardinality(Recent(ip)) < MaxLoginAttempts
    BY <1>1, <1>3, Finite, LimitAssumption DEF Locked
  <2>2. /\ Cardinality(Pending(ip)') <= Cardinality(Handlers)
        /\ Cardinality(Pending(ip)') \in Nat
    <3>1. Pending(ip)' \subseteq Handlers
      BY DEF Pending
    <3> QED
      BY <3>1, HandlersAssumption, FS_Subset, FS_CardinalityType
  <2> QED
    BY <1>2, <2>1, <2>2, Finite, LimitAssumption DEF Overshoot
<1>4. CASE addr # ip
  <2>1. [NoRequest EXCEPT !.kind = "login", !.ip = addr, !.good = good, !.code = code].ip = addr
    BY DEF NoRequest
  <2>2. Pending(ip)' \subseteq Pending(ip)
    BY <1>1, <1>4, <2>1 DEF TypeOK, Become, Pending
  <2>3. Cardinality(Recent(ip)') <= Cardinality(Recent(ip))
    BY <1>2, FewerRecent
  <2> QED
    BY <2>2, <2>3, Shrinks
<1> QED
  BY <1>3, <1>4

(* A recorded failure is one row more and one pending login less. *)
LEMMA FailKeeps ==
  ASSUME TypeOK, NEW h \in Handlers, LoginFail(h), MaxLoginAttempts > 0,
         NEW ip \in IPs, Overshoot(ip), TypeOK'
  PROVE  Overshoot(ip)'
<1>1. /\ Become(h, "idle", NoRequest) /\ pc[h] = "fail"
      /\ RecordLoginAttempt(req[h].ip, FALSE)
  BY DEF LoginFail, Reply
<1>2. /\ attempts' = Append(attempts, [ip |-> req[h].ip, ok |-> FALSE, age |-> 0])
      /\ attempts \in Seq(Attempt)
  BY <1>1 DEF RecordLoginAttempt, TypeOK
<1>5. /\ Len(attempts) \in Nat /\ DOMAIN attempts = 1..Len(attempts)
      /\ DOMAIN attempts' = 1..(Len(attempts) + 1)
      /\ attempts'[Len(attempts) + 1] = [ip |-> req[h].ip, ok |-> FALSE, age |-> 0]
      /\ \A i \in DOMAIN attempts : attempts'[i] = attempts[i]
  BY <1>2
<1>3. CASE req[h].ip = ip
  <2>1. Recent(ip)' = Recent(ip) \cup {Len(attempts) + 1}
    BY <1>3, <1>5, AgeAssumption DEF Recent
  <2>2. Len(attempts) + 1 \notin Recent(ip)
    BY <1>5 DEF Recent
  <2>3. Pending(ip)' = Pending(ip) \ {h} /\ h \in Pending(ip)
    BY <1>1, <1>3 DEF TypeOK, Become, Pending
  <2>4. Cardinality(Recent(ip)') = Cardinality(Recent(ip)) + 1
    BY <2>1, <2>2, Finite, FS_AddElement
  <2>5. Cardinality(Pending(ip)') = Cardinality(Pending(ip)) - 1
    BY <2>3, Finite, FS_RemoveElement
  <2> QED
    BY <2>4, <2>5, Finite, LimitAssumption DEF Overshoot
<1>4. CASE req[h].ip # ip
  <2>1. Cardinality(Recent(ip)') <= Cardinality(Recent(ip))
    <3>1. Recent(ip)' \subseteq Recent(ip)
      BY <1>4, <1>5 DEF Recent
    <3> QED
      BY <3>1, FewerRecent
  <2>2. Pending(ip)' \subseteq Pending(ip)
    BY <1>1 DEF TypeOK, Become, Pending
  <2> QED
    BY <2>1, <2>2, Shrinks
<1> QED
  BY <1>3, <1>4

(* A step of a request other than the check and the recorded failure. *)
LEMMA OtherStepKeeps ==
  ASSUME TypeOK, TypeOK', NEW h \in Handlers, MaxLoginAttempts > 0, NEW ip \in IPs, Overshoot(ip),
         \/ LoginFind(h) \/ OpenSession(h) \/ LoginSuccess(h) \/ FindSession(h)
         \/ LoadCaller(h) \/ Enroll(h) \/ Verify(h) \/ Disable(h)
  PROVE  Overshoot(ip)'
<1>1. Recent(ip)' \subseteq Recent(ip)
  <2>1. CASE LoginSuccess(h)
    <3>1. /\ attempts' = Append(attempts, [ip |-> req[h].ip, ok |-> TRUE, age |-> 0])
          /\ attempts \in Seq(Attempt)
      BY <2>1 DEF LoginSuccess, RecordLoginAttempt, TypeOK
    <3>2. /\ Len(attempts) \in Nat /\ DOMAIN attempts = 1..Len(attempts)
          /\ DOMAIN attempts' = 1..(Len(attempts) + 1)
          /\ attempts'[Len(attempts) + 1].ok = TRUE
          /\ \A i \in DOMAIN attempts : attempts'[i] = attempts[i]
      BY <3>1
    <3> QED
      BY <3>2 DEF Recent
  <2>2. CASE UNCHANGED attempts
    BY <2>2 DEF Recent
  <2> QED
    BY <2>1, <2>2 DEF LoginFind, OpenSession, FindSession, LoadCaller, Enroll, Verify,
       Disable, tables
<1>2. \/ LoginFind(h) /\ Become(h, "fail", req[h])
      \/ \E step \in PC \ {"find", "fail"} : \E r : Become(h, step, r)
  BY DEF LoginFind, OpenSession, LoginSuccess, FindSession, LoadCaller, Enroll, Verify,
     Disable, Reply, PC
<1>3. Pending(ip)' \subseteq Pending(ip)
  BY <1>2, PendingShrinks DEF LoginFind
<1> QED
  BY <1>1, <1>3, FewerRecent, Shrinks

(* Every step keeps the sum of recorded and pending failures bounded. *)
LEMMA NextLockout == LockoutInv /\ [Next]_vars => LockoutInv'
<1> SUFFICES ASSUME LockoutInv, [Next]_vars, MaxLoginAttempts > 0, NEW ip \in IPs
             PROVE  Overshoot(ip)'
  BY NextType DEF LockoutInv
<1>1. TypeOK /\ TypeOK' /\ Overshoot(ip)
  BY NextType DEF LockoutInv
<1>2. CASE UNCHANGED vars
  BY <1>1, <1>2 DEF vars, Overshoot, Recent, Pending
<1>3. ASSUME NEW h \in Handlers, Step(h) PROVE Overshoot(ip)'
  BY <1>1, <1>3, CheckKeeps, FailKeeps, OtherStepKeeps DEF Step
<1>4. CASE Tick \/ DeleteExpiredSessions \/ PurgeOldLoginAttempts
  <2>1. Pending(ip)' = Pending(ip)
    BY <1>4 DEF Tick, DeleteExpiredSessions, PurgeOldLoginAttempts, Pending
  <2>2. \A age \in 0..CapAge : age <= Older(age)
    BY AgeAssumption DEF Older
  <2>3. CASE Tick
    <3>1. \A i \in DOMAIN attempts : /\ attempts'[i].ip = attempts[i].ip
                                     /\ attempts'[i].ok = attempts[i].ok
                                     /\ attempts'[i].age = Older(attempts[i].age)
                                     /\ attempts[i].age \in 0..CapAge
      <4>1. /\ attempts \in Seq(Attempt)
            /\ attempts' = [i \in DOMAIN attempts |-> [attempts[i] EXCEPT !.age = Older(@)]]
        BY <1>1, <2>3 DEF Tick, TypeOK
      <4>2. \A a \in Attempt : LET b == [a EXCEPT !.age = Older(@)]
                               IN  b.ip = a.ip /\ b.ok = a.ok /\ b.age = Older(a.age)
        BY DEF Attempt
      <4> QED
        BY <4>1, <4>2, Rows
    <3>2. DOMAIN attempts' = DOMAIN attempts
      BY <2>3 DEF Tick
    <3>3. \A i \in DOMAIN attempts : attempts'[i].age <= Lockout => attempts[i].age <= Lockout
      <4> SUFFICES ASSUME NEW i \in DOMAIN attempts, Older(attempts[i].age) <= Lockout
                   PROVE  attempts[i].age <= Lockout
        BY <3>1
      <4> QED
        BY <3>1, AgeAssumption DEF Older
    <3>4. Recent(ip)' \subseteq Recent(ip)
      BY <3>1, <3>2, <3>3 DEF Recent
    <3> QED
      BY <1>1, <2>1, <3>4, FewerRecent, Shrinks
  <2>4. CASE DeleteExpiredSessions
    <3>1. Recent(ip)' \subseteq Recent(ip)
      BY <2>4 DEF DeleteExpiredSessions, Recent
    <3> QED
      BY <1>1, <2>1, <3>1, FewerRecent, Shrinks
  <2>5. CASE PurgeOldLoginAttempts
    <3>1. PICK n \in 0..Len(attempts) : attempts' = SubSeq(attempts, n + 1, Len(attempts))
      BY <2>5 DEF PurgeOldLoginAttempts, DropOlderThan
    <3>2. Cardinality(Recent(ip)') = Cardinality({i \in Recent(ip) : i > n})
      BY <1>1, <3>1, Shifted
    <3>3. Cardinality({i \in Recent(ip) : i > n}) <= Cardinality(Recent(ip))
      BY <1>1, Finite, FS_Subset, FS_CardinalityType
    <3> QED
      BY <1>1, <2>1, <3>2, <3>3, Shrinks
  <2> QED
    BY <1>4, <2>3, <2>4, <2>5
<1> QED
  BY <1>2, <1>3, <1>4 DEF Next

(* At the start nothing is recorded and nothing pending. *)
LEMMA InitLockout == Init => LockoutInv
<1> SUFFICES ASSUME Init, MaxLoginAttempts > 0, NEW ip \in IPs PROVE Overshoot(ip)
  BY InitType DEF LockoutInv
<1>1. Recent(ip) = {} /\ Pending(ip) = {}
  BY DEF Init, Recent, Pending
<1>2. Cardinality(Handlers) \in Nat
  BY HandlersAssumption, FS_CardinalityType
<1> QED
  BY <1>1, <1>2, FS_EmptySet, HandlersAssumption, LimitAssumption DEF Overshoot

(* However many logins are in flight, an address never has more recent failures
   than the threshold and one per goroutine but one. *)
THEOREM FailuresStayBounded == Spec => []FailuresBounded
<1>1. LockoutInv => FailuresBounded
  <2> SUFFICES ASSUME LockoutInv, MaxLoginAttempts > 0, NEW ip \in IPs
               PROVE  Cardinality(Recent(ip)) <= MaxLoginAttempts - 1 + Cardinality(Handlers)
    BY DEF FailuresBounded
  <2> QED
    BY Finite, LimitAssumption DEF LockoutInv, Overshoot
<1> QED
  BY <1>1, InitLockout, NextLockout, PTL DEF Spec

(* The sweep leaves a lockout alone as long as it keeps attempts for the length
   of a lockout. *)
THEOREM SweepKeepsLockout == ASSUME Lockout <= PurgeAge PROVE Spec => LockoutKept
<1>1. TypeOK /\ [Next]_vars => [\A ip \in IPs : PurgeOldLoginAttempts =>
                                   Cardinality(Recent(ip))' = Cardinality(Recent(ip))]_vars
  <2> SUFFICES ASSUME TypeOK, NEW ip \in IPs, PurgeOldLoginAttempts
               PROVE  Cardinality(Recent(ip)') = Cardinality(Recent(ip))
    OBVIOUS
  <2>1. PICK n \in 0..Len(attempts) :
          /\ \A i \in DOMAIN attempts : attempts[i].age > PurgeAge <=> i <= n
          /\ attempts' = SubSeq(attempts, n + 1, Len(attempts))
    BY DEF PurgeOldLoginAttempts, DropOlderThan
  <2>2. \A i \in DOMAIN attempts : i \in Nat /\ attempts[i].age \in Nat
    BY Rows DEF TypeOK
  <2>3. {i \in Recent(ip) : i > n} = Recent(ip)
    BY <2>1, <2>2, AgeAssumption DEF Recent
  <2> QED
    BY <2>1, <2>3, Shifted
<1> QED
  BY <1>1, TypeCorrect, PTL DEF Spec, LockoutKept

------------------------------------------------------------------------------
(* The second factor. *)

(* A login counts as gated only while 2FA is active, and the active secret is a
   verified one. *)
FactorInv ==
  /\ TypeOK
  /\ ActiveWasVerified
  /\ TwoFactorHolds
  /\ gated # {} => totp.state = "active"

(* Every step keeps the invariant of the second factor: an enrolment or a
   disabling un-gates the logins in flight, a verification verifies first. *)
LEMMA NextFactor == FactorInv /\ [Next]_vars => FactorInv'
<1> SUFFICES ASSUME FactorInv, [Next]_vars
             PROVE  ActiveWasVerified' /\ TwoFactorHolds'
                    /\ (gated' # {} => totp'.state = "active")
  BY NextType DEF FactorInv
<1> DEFINE Kept == ActiveWasVerified' /\ TwoFactorHolds'
                   /\ (gated' # {} => totp'.state = "active")
<1>1. /\ TypeOK /\ TypeOK' /\ ActiveWasVerified /\ TwoFactorHolds
      /\ gated # {} => totp.state = "active"
      /\ gated \subseteq Handlers /\ gated' \subseteq Handlers
  BY NextType DEF FactorInv, TypeOK
<1> USE DEF ActiveWasVerified, TwoFactorHolds
<1>2. ASSUME UNCHANGED vars \/ Tick \/ DeleteExpiredSessions \/ PurgeOldLoginAttempts
      PROVE  Kept
  BY <1>1, <1>2 DEF vars, Tick, DeleteExpiredSessions, PurgeOldLoginAttempts, factor
<1>3. ASSUME NEW h \in Handlers, LoginCheck(h)
      PROVE  Kept
  <2>1. PICK r : Become(h, "find", r)
    BY <1>3 DEF LoginCheck
  <2>2. \A g \in Handlers : pc'[g] = "open" => pc[g] = "open" /\ req'[g] = req[g] /\ g # h
    BY <1>1, <2>1 DEF Become, TypeOK
  <2> QED
    BY <1>1, <1>3, <2>2 DEF LoginCheck, TypeOK
<1>4. ASSUME NEW h \in Handlers, LoginFind(h)
      PROVE  Kept
  <2>1. \E step \in PC : \E r : Become(h, step, r) /\ (step = "open" => r = req[h])
    BY <1>4 DEF LoginFind, Reply, PC
  <2>2. \A g \in Handlers \ {h} : pc'[g] = pc[g] /\ req'[g] = req[g]
    BY <1>1, <2>1 DEF Become, TypeOK
  <2>3. ASSUME h \in gated, pc'[h] = "open" PROVE req'[h].code \in verified
    <3>1. totp.state = "active"
      BY <1>1, <2>3
    <3>2. ~Become(h, "fail", req[h]) /\ ~Reply(h)
      BY <1>1, <2>3 DEF Become, Reply, TypeOK
    <3>3. CodeValid(req[h].code) /\ Become(h, "open", req[h])
      BY <1>4, <3>1, <3>2 DEF LoginFind
    <3>4. req'[h] = req[h]
      BY <1>1, <3>3 DEF Become, TypeOK
    <3> QED
      BY <1>1, <3>1, <3>3, <3>4 DEF CodeValid
  <2>4. UNCHANGED <<totp, verified, gated>>
    BY <1>4 DEF LoginFind, factor
  <2> QED
    BY <1>1, <2>2, <2>3, <2>4
<1>5. ASSUME NEW h \in Handlers,
             \/ LoginFail(h) \/ OpenSession(h) \/ LoginSuccess(h) \/ FindSession(h)
             \/ LoadCaller(h) \/ (Verify(h) /\ UNCHANGED factor)
      PROVE  Kept
  <2>1. UNCHANGED factor
    BY <1>5 DEF LoginFail, OpenSession, LoginSuccess, FindSession, LoadCaller, factor
  <2>2. \E step \in PC \ {"open"} : \E r : Become(h, step, r)
    BY <1>5 DEF LoginFail, OpenSession, LoginSuccess, FindSession, LoadCaller, Verify, Reply, PC
  <2>3. \A g \in Handlers : pc'[g] = "open" => pc[g] = "open" /\ req'[g] = req[g]
    BY <1>1, <2>2 DEF Become, TypeOK
  <2> QED
    BY <1>1, <2>1, <2>3 DEF factor
<1>6. ASSUME NEW h \in Handlers,
             \/ Enroll(h) \/ Disable(h)
             \/ /\ Verify(h) /\ verified' = verified \cup {req[h].seen.secret}
                /\ UpdateUserTOTP([req[h].seen EXCEPT !.state = "active"])
      PROVE  Kept
  <2>1. Reply(h)
    BY <1>6 DEF Enroll, Disable, Verify
  <2>2. \A g \in Handlers : pc'[g] = "open" => pc[g] = "open" /\ req'[g] = req[g]
    BY <1>1, <2>1 DEF Reply, Become, TypeOK
  <2>3. verified \subseteq verified' /\ gated' \subseteq gated
    BY <1>6 DEF Enroll, Disable, UpdateUserTOTP
  <2>4. /\ totp'.state = "active" => totp'.secret \in verified'
        /\ gated' # {} => totp'.state = "active"
    <3>1. CASE Enroll(h) \/ Disable(h)
      BY <3>1 DEF Enroll, Disable, UpdateUserTOTP, NoTOTP
    <3>2. CASE /\ verified' = verified \cup {req[h].seen.secret}
               /\ UpdateUserTOTP([req[h].seen EXCEPT !.state = "active"])
      <4>1. req[h].seen \in TOTP
        BY <1>1 DEF TypeOK, Request
      <4>2. /\ [req[h].seen EXCEPT !.state = "active"].state = "active"
            /\ [req[h].seen EXCEPT !.state = "active"].secret = req[h].seen.secret
        BY <4>1 DEF TOTP
      <4> QED
        BY <3>2, <4>2 DEF UpdateUserTOTP
    <3> QED
      BY <1>6, <3>1, <3>2
  <2> QED
    BY <1>1, <2>2, <2>3, <2>4
<1>7. ASSUME NEW h \in Handlers, Verify(h)
      PROVE  \/ (Verify(h) /\ UNCHANGED factor)
             \/ /\ Verify(h) /\ verified' = verified \cup {req[h].seen.secret}
                /\ UpdateUserTOTP([req[h].seen EXCEPT !.state = "active"])
  BY <1>7 DEF Verify
<1>8. Kept
  <2> HIDE DEF Kept
  <2>1. ASSUME NEW h \in Handlers, Step(h) PROVE Kept
    BY <1>3, <1>4, <1>5, <1>6, <1>7, <2>1 DEF Step
  <2> QED
    BY <1>2, <2>1 DEF Next
<1> QED
  BY <1>8

(* The invariant of the second factor holds in every reachable state. *)
LEMMA FactorInvariance == Spec => []FactorInv
<1>1. Init => FactorInv
  BY InitType DEF Init, FactorInv, ActiveWasVerified, TwoFactorHolds, NoTOTP
<1> QED
  BY <1>1, NextFactor, PTL DEF Spec

(* The secret in force is always one its owner has shown a code for. *)
THEOREM ActiveIsVerified == Spec => []ActiveWasVerified
BY FactorInvariance, PTL DEF FactorInv

(* Two-factor authentication that is on during a login is not skipped. *)
THEOREM SecondFactorHolds == Spec => []TwoFactorHolds
BY FactorInvariance, PTL DEF FactorInv
==============================================================================
