------------------------------ MODULE OTPProofs ------------------------------
(***************************************************************************)
(* The promises of the login codes, for every number of senders and codes  *)
(* and for all times to live in which the code is the first to expire.     *)
(*                                                                         *)
(* The argument.  The wrong codes compared with the stored one have all    *)
(* been counted, because the counter cannot expire before the code; and    *)
(* when there are MaxAttempts of them, the lock outlives the code          *)
(* (Counted).  An issuance belongs to one request, and a request that      *)
(* cleans up never reported success (Owned).                               *)
(***************************************************************************)
EXTENDS OTP, TLAPS

Counted ==
    /\ guesses <= attempts
    /\ guesses <= MaxAttempts
    /\ guesses > 0 => otpTime <= attemptsTime
    /\ guesses >= MaxAttempts => otpTime <= lockTime
    /\ otp = None => guesses = 0

Unused ==
    /\ UsedOnce
    /\ otp # None => otp.id <= issued /\ uses[otp.id] = 0
    /\ \A i \in Issuances : i > issued => uses[i] = 0

Owned ==
    /\ \A i \in mailed : i <= issued
    /\ \A s \in Senders : pc[s] # "idle" => mine[s].id <= issued /\ mine[s].id \notin mailed
    /\ \A s, t \in Senders : s # t /\ pc[s] # "idle" /\ pc[t] # "idle" => mine[s].id # mine[t].id

IInv == TypeOK /\ Counted /\ Unused /\ Owned

-----------------------------------------------------------------------------
(* The variables keep their types. *)
LEMMA TypePreserved ==
  TypeOK /\ [Next]_vars => TypeOK'
<1> SUFFICES ASSUME TypeOK, [Next]_vars PROVE TypeOK'
  OBVIOUS
<1> USE TimesAssumption, NoneAssumption DEF TypeOK, Issuances
<1>1. ASSUME NEW s \in Senders, NEW c \in Codes, Issue(s, c) PROVE TypeOK'
  BY <1>1 DEF Issue, Issuances, Locked
<1>2. ASSUME NEW s \in Senders, Enqueued(s) PROVE TypeOK'
  BY <1>2 DEF Enqueued, keys
<1>3. ASSUME NEW s \in Senders, EnqueueFails(s) PROVE TypeOK'
  BY <1>3 DEF EnqueueFails, keys
<1>4. ASSUME NEW s \in Senders, Clear(s) PROVE TypeOK'
  <2>1. (otp \in [code : Codes, id : Issuances] \cup {None} /\ otpTime \in 0..OtpTTL)'
    BY <1>4 DEF Clear, NoOtp
  <2>2. (otp = None <=> otpTime = 0)'
    BY <1>4 DEF Clear, NoOtp
  <2>3. (attempts \in Nat /\ attemptsTime \in 0..AttemptsTTL /\ (attempts = 0 <=> attemptsTime = 0))'
    BY <1>4 DEF Clear, NoOtp
  <2>4. (lockTime \in 0..LockTTL)'
    BY <1>4 DEF Clear, NoOtp
  <2>5. (resend \in Issuances \cup {None} /\ resendTime \in 0..ResendTTL /\ (resend = None <=> resendTime = 0))'
    BY <1>4 DEF Clear, NoOtp
  <2>6. (pc \in [Senders -> {"idle", "enqueue", "clear"}])'
    BY <1>4 DEF Clear, NoOtp
  <2>7. UNCHANGED <<mine, issued, mailed>> /\ (\A t \in Senders : pc[t] # "idle" => mine[t] # None)'
    BY <1>4 DEF Clear, NoOtp
  <2>8. (uses \in [Issuances -> Nat])'
    BY <1>4 DEF Clear, NoOtp
  <2>9. (guesses \in Nat)'
    BY <1>4 DEF Clear, NoOtp
  <2> QED
    BY <2>1, <2>2, <2>3, <2>4, <2>5, <2>6, <2>7, <2>8, <2>9
<1>5. ASSUME NEW s \in Senders, GiveUp(s) PROVE TypeOK'
  BY <1>5 DEF GiveUp, keys
<1>6. ASSUME NEW c \in Codes, Accept(c) PROVE TypeOK'
  <2>1. (otp \in [code : Codes, id : Issuances] \cup {None} /\ otpTime \in 0..OtpTTL)'
    BY <1>6 DEF Accept, NoOtp, requests
  <2>2. (otp = None <=> otpTime = 0)'
    BY <1>6 DEF Accept, NoOtp, requests
  <2>3. (attempts \in Nat /\ attemptsTime \in 0..AttemptsTTL /\ (attempts = 0 <=> attemptsTime = 0))'
    BY <1>6 DEF Accept, NoOtp, requests
  <2>4. (lockTime \in 0..LockTTL)'
    BY <1>6 DEF Accept, NoOtp, requests
  <2>5. (resend \in Issuances \cup {None} /\ resendTime \in 0..ResendTTL /\ (resend = None <=> resendTime = 0))'
    BY <1>6 DEF Accept, NoOtp, requests
  <2>6. (pc \in [Senders -> {"idle", "enqueue", "clear"}])'
    BY <1>6 DEF Accept, NoOtp, requests
  <2>7. UNCHANGED <<mine, issued, mailed>> /\ (\A s \in Senders : pc[s] # "idle" => mine[s] # None)'
    BY <1>6 DEF Accept, NoOtp, requests
  <2>8. (uses \in [Issuances -> Nat])'
    BY <1>6 DEF Accept, NoOtp, requests
  <2>9. (guesses \in Nat)'
    BY <1>6 DEF Accept, NoOtp, requests
  <2> QED
    BY <2>1, <2>2, <2>3, <2>4, <2>5, <2>6, <2>7, <2>8, <2>9
<1>7. ASSUME NEW c \in Codes, Reject(c) PROVE TypeOK'
  <2>1. (otp \in [code : Codes, id : Issuances] \cup {None} /\ otpTime \in 0..OtpTTL)'
    BY <1>7 DEF Reject, requests, Locked
  <2>2. (otp = None <=> otpTime = 0)'
    BY <1>7 DEF Reject, requests, Locked
  <2>3. (attempts \in Nat /\ attemptsTime \in 0..AttemptsTTL /\ (attempts = 0 <=> attemptsTime = 0))'
    BY <1>7 DEF Reject, requests, Locked
  <2>4. (lockTime \in 0..LockTTL)'
    BY <1>7 DEF Reject, requests, Locked
  <2>5. (resend \in Issuances \cup {None} /\ resendTime \in 0..ResendTTL /\ (resend = None <=> resendTime = 0))'
    BY <1>7 DEF Reject, requests, Locked
  <2>6. (pc \in [Senders -> {"idle", "enqueue", "clear"}])'
    BY <1>7 DEF Reject, requests, Locked
  <2>7. UNCHANGED <<mine, issued, mailed>> /\ (\A s \in Senders : pc[s] # "idle" => mine[s] # None)'
    BY <1>7 DEF Reject, requests, Locked
  <2>8. (uses \in [Issuances -> Nat])'
    BY <1>7 DEF Reject, requests, Locked
  <2>9. (guesses \in Nat)'
    BY <1>7 DEF Reject, requests, Locked
  <2> QED
    BY <2>1, <2>2, <2>3, <2>4, <2>5, <2>6, <2>7, <2>8, <2>9
<1>8. ASSUME Tick PROVE TypeOK'
  <2>1. (otp \in [code : Codes, id : Issuances] \cup {None} /\ otpTime \in 0..OtpTTL)'
    BY <1>8 DEF Tick, Less, requests
  <2>2. (otp = None <=> otpTime = 0)'
    BY <1>8 DEF Tick, Less, requests
  <2>3. (attempts \in Nat /\ attemptsTime \in 0..AttemptsTTL /\ (attempts = 0 <=> attemptsTime = 0))'
    BY <1>8 DEF Tick, Less, requests
  <2>4. (lockTime \in 0..LockTTL)'
    BY <1>8 DEF Tick, Less, requests
  <2>5. (resend \in Issuances \cup {None} /\ resendTime \in 0..ResendTTL /\ (resend = None <=> resendTime = 0))'
    BY <1>8 DEF Tick, Less, requests
  <2>6. (pc \in [Senders -> {"idle", "enqueue", "clear"}])'
    BY <1>8 DEF Tick, Less, requests
  <2>7. UNCHANGED <<mine, issued, mailed>> /\ (\A s \in Senders : pc[s] # "idle" => mine[s] # None)'
    BY <1>8 DEF Tick, Less, requests
  <2>8. (uses \in [Issuances -> Nat])'
    BY <1>8 DEF Tick, Less, requests
  <2>9. (guesses \in Nat)'
    BY <1>8 DEF Tick, Less, requests
  <2> QED
    BY <2>1, <2>2, <2>3, <2>4, <2>5, <2>6, <2>7, <2>8, <2>9
<1>9. CASE UNCHANGED vars
  BY <1>9 DEF vars, keys, requests
<1> QED
  BY <1>1, <1>2, <1>3, <1>4, <1>5, <1>6, <1>7, <1>8, <1>9 DEF Next

(* Every wrong code is counted as long as the code lasts. *)
LEMMA CountedPreserved ==
  TypeOK /\ Counted /\ [Next]_vars => Counted'
<1> SUFFICES ASSUME TypeOK, Counted, [Next]_vars PROVE Counted'
  OBVIOUS
<1> USE TimesAssumption, NoneAssumption DEF TypeOK, Counted, Issuances
<1>1. ASSUME NEW s \in Senders, NEW c \in Codes, Issue(s, c) PROVE Counted'
  BY <1>1 DEF Issue, Issuances, Locked
<1>2. ASSUME NEW s \in Senders, Enqueued(s) PROVE Counted'
  BY <1>2 DEF Enqueued, keys
<1>3. ASSUME NEW s \in Senders, EnqueueFails(s) PROVE Counted'
  BY <1>3 DEF EnqueueFails, keys
<1>4. ASSUME NEW s \in Senders, Clear(s) PROVE Counted'
  BY <1>4 DEF Clear, NoOtp
<1>5. ASSUME NEW s \in Senders, GiveUp(s) PROVE Counted'
  BY <1>5 DEF GiveUp, keys
<1>6. ASSUME NEW c \in Codes, Accept(c) PROVE Counted'
  BY <1>6 DEF Accept, NoOtp, requests
<1>7. ASSUME NEW c \in Codes, Reject(c) PROVE Counted'
  BY <1>7 DEF Reject, requests, Locked
<1>8. ASSUME Tick PROVE Counted'
  BY <1>8 DEF Tick, Less, requests
<1>9. CASE UNCHANGED vars
  BY <1>9 DEF vars, keys, requests
<1> QED
  BY <1>1, <1>2, <1>3, <1>4, <1>5, <1>6, <1>7, <1>8, <1>9 DEF Next

(* A stored code has not been used yet. *)
LEMMA UnusedPreserved ==
  TypeOK /\ Unused /\ [Next]_vars => Unused'
<1> SUFFICES ASSUME TypeOK, Unused, [Next]_vars PROVE Unused'
  OBVIOUS
<1> USE TimesAssumption, NoneAssumption DEF TypeOK, Unused, UsedOnce, Issuances
<1>1. ASSUME NEW s \in Senders, NEW c \in Codes, Issue(s, c) PROVE Unused'
  BY <1>1 DEF Issue, Issuances, Locked
<1>2. ASSUME NEW s \in Senders, Enqueued(s) PROVE Unused'
  BY <1>2 DEF Enqueued, keys
<1>3. ASSUME NEW s \in Senders, EnqueueFails(s) PROVE Unused'
  BY <1>3 DEF EnqueueFails, keys
<1>4. ASSUME NEW s \in Senders, Clear(s) PROVE Unused'
  BY <1>4 DEF Clear, NoOtp
<1>5. ASSUME NEW s \in Senders, GiveUp(s) PROVE Unused'
  BY <1>5 DEF GiveUp, keys
<1>6. ASSUME NEW c \in Codes, Accept(c) PROVE Unused'
  BY <1>6 DEF Accept, NoOtp, requests
<1>7. ASSUME NEW c \in Codes, Reject(c) PROVE Unused'
  BY <1>7 DEF Reject, requests, Locked
<1>8. ASSUME Tick PROVE Unused'
  BY <1>8 DEF Tick, Less, requests
<1>9. CASE UNCHANGED vars
  BY <1>9 DEF vars, keys, requests
<1> QED
  BY <1>1, <1>2, <1>3, <1>4, <1>5, <1>6, <1>7, <1>8, <1>9 DEF Next

(* A request that may still clean up has not reported success. *)
LEMMA OwnedPreserved ==
  TypeOK /\ Owned /\ [Next]_vars => Owned'
<1> SUFFICES ASSUME TypeOK, Owned, [Next]_vars PROVE Owned'
  OBVIOUS
<1> USE TimesAssumption, NoneAssumption DEF TypeOK, Owned, Issuances
<1>1. ASSUME NEW s \in Senders, NEW c \in Codes, Issue(s, c) PROVE Owned'
  BY <1>1 DEF Issue, Issuances, Locked
<1>2. ASSUME NEW s \in Senders, Enqueued(s) PROVE Owned'
  BY <1>2 DEF Enqueued, keys
<1>3. ASSUME NEW s \in Senders, EnqueueFails(s) PROVE Owned'
  BY <1>3 DEF EnqueueFails, keys
<1>4. ASSUME NEW s \in Senders, Clear(s) PROVE Owned'
  BY <1>4 DEF Clear, NoOtp
<1>5. ASSUME NEW s \in Senders, GiveUp(s) PROVE Owned'
  BY <1>5 DEF GiveUp, keys
<1>6. ASSUME NEW c \in Codes, Accept(c) PROVE Owned'
  BY <1>6 DEF Accept, NoOtp, requests
<1>7. ASSUME NEW c \in Codes, Reject(c) PROVE Owned'
  BY <1>7 DEF Reject, requests, Locked
<1>8. ASSUME Tick PROVE Owned'
  BY <1>8 DEF Tick, Less, requests
<1>9. CASE UNCHANGED vars
  BY <1>9 DEF vars, keys, requests
<1> QED
  BY <1>1, <1>2, <1>3, <1>4, <1>5, <1>6, <1>7, <1>8, <1>9 DEF Next

(* The strengthened invariant is inductive. *)
THEOREM Invariance == Spec => []IInv
<1>1. Init => IInv
  BY TimesAssumption, NoneAssumption DEF Init, IInv, TypeOK, Counted, Unused, UsedOnce, Owned, Issuances
<1>2. IInv /\ [Next]_vars => IInv'
  BY TypePreserved, CountedPreserved, UnusedPreserved, OwnedPreserved DEF IInv
<1> QED
  BY <1>1, <1>2, PTL DEF Spec

(* Every variable keeps its type, and a key exists while it has time left. *)
THEOREM Types == Spec => []TypeOK
<1>1. IInv => TypeOK
  BY DEF IInv
<1> QED
  BY <1>1, Invariance, PTL

(* No stored code is compared with more than MaxAttempts wrong ones, for   *)
(* all times to live in which counter and lock outlive the code. *)
THEOREM Bounded == Spec => []GuessesBounded
<1>1. IInv => GuessesBounded
  BY DEF IInv, Counted, GuessesBounded
<1> QED
  BY <1>1, Invariance, PTL

(* A code is good for one login. *)
THEOREM OneLogin == Spec => []UsedOnce
<1>1. IInv => UsedOnce
  BY DEF IInv, Unused
<1> QED
  BY <1>1, Invariance, PTL

(* One step never takes a mailed code away before its time. *)
LEMMA StepKeepsSentCode ==
  IInv /\ [Next]_vars =>
      (otp # None /\ otp' = None =>
           otp.id \notin mailed \/ uses'[otp.id] > uses[otp.id] \/ otpTime = 1)
<1> DEFINE Stands == otp.id \notin mailed \/ uses'[otp.id] > uses[otp.id] \/ otpTime = 1
<1> SUFFICES ASSUME IInv, [Next]_vars, otp # None, otp' = None PROVE Stands
  OBVIOUS
<1> USE TimesAssumption, NoneAssumption DEF IInv, TypeOK, Issuances
<1>1. ASSUME NEW s \in Senders, NEW c \in Codes, Issue(s, c) PROVE Stands
  BY <1>1 DEF Issue, Issuances, Locked
<1>2. ASSUME NEW s \in Senders, Enqueued(s) PROVE Stands
  BY <1>2 DEF Enqueued, keys
<1>3. ASSUME NEW s \in Senders, EnqueueFails(s) PROVE Stands
  BY <1>3 DEF EnqueueFails, keys
<1>4. ASSUME NEW s \in Senders, Clear(s) PROVE Stands
  BY <1>4 DEF Clear, Owned
<1>5. ASSUME NEW s \in Senders, GiveUp(s) PROVE Stands
  BY <1>5 DEF GiveUp, keys
<1>6. ASSUME NEW c \in Codes, Accept(c) PROVE Stands
  BY <1>6 DEF Accept, NoOtp, requests
<1>7. ASSUME NEW c \in Codes, Reject(c) PROVE Stands
  BY <1>7 DEF Reject, requests, Locked
<1>8. ASSUME Tick PROVE Stands
  BY <1>8 DEF Tick, Less, requests
<1>9. CASE UNCHANGED vars
  BY <1>9 DEF vars, keys, requests
<1> QED
  BY <1>1, <1>2, <1>3, <1>4, <1>5, <1>6, <1>7, <1>8, <1>9 DEF Next

(* A code whose mail is on its way is only used, replaced or too old. *)
THEOREM SentCodes == Spec => SentCodeStands
<1>1. IInv /\ [Next]_vars =>
          [otp # None /\ otp' = None =>
               otp.id \notin mailed \/ uses'[otp.id] > uses[otp.id] \/ otpTime = 1]_vars
  BY StepKeepsSentCode
<1> QED
  BY <1>1, Invariance, PTL DEF Spec, SentCodeStands
=============================================================================
