--------------------------------- MODULE OTP ---------------------------------
(***************************************************************************)
(* One-time login codes of one e-mail address: the Redis keys of OTPStore, *)
(* the requests of SendOTP that issue codes and take them back when the    *)
(* mail cannot be queued, and the checks of VerifyOTP.  Each Lua script is *)
(* one step.  otp:<email> and otp:issuance:<email> are written, deleted    *)
(* and expire together: they are one variable here.  Time is counted in    *)
(* ticks of any length, and a key expires when its time to live runs out.  *)
(***************************************************************************)
EXTENDS Naturals

CONSTANTS Senders,     \* SendOTP requests in progress at the same time
          Codes,       \* a code can repeat on a later send
          OtpTTL, AttemptsTTL, LockTTL, ResendTTL,
          MaxAttempts,
          MaxIssues,   \* bound: codes issued
          None

ASSUME TimesAssumption ==
    /\ OtpTTL \in Nat \ {0} /\ AttemptsTTL \in Nat \ {0} /\ LockTTL \in Nat \ {0}
    /\ ResendTTL \in Nat \ {0} /\ MaxAttempts \in Nat \ {0} /\ MaxIssues \in Nat
    /\ OtpTTL <= AttemptsTTL /\ OtpTTL <= LockTTL

ASSUME NoneAssumption == None \notin Nat /\ None \notin [code : Codes, id : Nat]

VARIABLES
    otp,         \* the stored code and its issuance, or None
    otpTime,     \* time left of otp; likewise for the other keys
    attempts,    \* otp:attempts, 0 when the key is missing
    attemptsTime,
    lockTime,    \* otp:lock exists while this is not 0
    resend,      \* the issuance otp:resend was set for, or None
    resendTime,
    pc,          \* what each SendOTP is doing: "idle", "enqueue" or "clear"
    mine,        \* the code it issued
    issued,      \* codes issued so far, which name the issuances
    mailed,      \* issuances whose SendOTP reported success
    uses,        \* logins each issuance was good for
    guesses      \* wrong codes compared with the stored one

keys == <<otp, otpTime, attempts, attemptsTime, lockTime, resend, resendTime>>
requests == <<pc, mine, issued, mailed>>
vars == <<otp, otpTime, attempts, attemptsTime, lockTime, resend, resendTime,
          pc, mine, issued, mailed, uses, guesses>>

Issuances == 1..MaxIssues
Locked == lockTime > 0

Init ==
    /\ otp = None /\ otpTime = 0
    /\ attempts = 0 /\ attemptsTime = 0 /\ lockTime = 0
    /\ resend = None /\ resendTime = 0
    /\ pc = [s \in Senders |-> "idle"]
    /\ mine = [s \in Senders |-> None]
    /\ issued = 0 /\ mailed = {}
    /\ uses = [i \in Issuances |-> 0]
    /\ guesses = 0

NoOtp == otp' = None /\ otpTime' = 0 /\ guesses' = 0

-----------------------------------------------------------------------------
(* SendOTP.                                                                *)

(* issueOTPScript; locked or cooling down, it changes nothing.             *)
Issue(s, c) ==
    /\ pc[s] = "idle" /\ issued < MaxIssues
    /\ ~Locked /\ resend = None
    /\ LET code == [code |-> c, id |-> issued + 1]
       IN /\ otp' = code /\ otpTime' = OtpTTL /\ guesses' = 0
          /\ resend' = code.id /\ resendTime' = ResendTTL
          /\ mine' = [mine EXCEPT ![s] = code]
    /\ issued' = issued + 1
    /\ pc' = [pc EXCEPT ![s] = "enqueue"]
    /\ UNCHANGED <<attempts, attemptsTime, lockTime, mailed, uses>>

Enqueued(s) ==
    /\ pc[s] = "enqueue"
    /\ mailed' = mailed \cup {mine[s].id}
    /\ pc' = [pc EXCEPT ![s] = "idle"]
    /\ UNCHANGED <<keys, mine, issued, uses, guesses>>

(* EnqueueJob failed, or there is no stream.                               *)
EnqueueFails(s) ==
    /\ pc[s] = "enqueue"
    /\ pc' = [pc EXCEPT ![s] = "clear"]
    /\ UNCHANGED <<keys, mine, issued, mailed, uses, guesses>>

(* Variant: the script compares the code.                                  *)
ClearByCode(s) ==
    /\ pc[s] = "clear"
    /\ pc' = [pc EXCEPT ![s] = "idle"]
    /\ IF otp # None /\ otp.code = mine[s].code THEN NoOtp
       ELSE UNCHANGED <<otp, otpTime, guesses>>
    /\ IF resend = mine[s].id THEN resend' = None /\ resendTime' = 0
       ELSE UNCHANGED <<resend, resendTime>>
    /\ UNCHANGED <<attempts, attemptsTime, lockTime, mine, issued, mailed, uses>>

(* clearOTPScript: only what this issuance set.                            *)
Clear(s) ==
    /\ pc[s] = "clear"
    /\ pc' = [pc EXCEPT ![s] = "idle"]
    /\ IF otp # None /\ otp.id = mine[s].id THEN NoOtp
       ELSE UNCHANGED <<otp, otpTime, guesses>>
    /\ IF resend = mine[s].id THEN resend' = None /\ resendTime' = 0
       ELSE UNCHANGED <<resend, resendTime>>
    /\ UNCHANGED <<attempts, attemptsTime, lockTime, mine, issued, mailed, uses>>

(* The request ends early: its process dies, or Redis refuses the script.  *)
GiveUp(s) ==
    /\ pc[s] # "idle"
    /\ pc' = [pc EXCEPT ![s] = "idle"]
    /\ UNCHANGED <<keys, mine, issued, mailed, uses, guesses>>

-----------------------------------------------------------------------------
(* VerifyOTP: verifyOTPScript; locked or without a code, it changes        *)
(* nothing.                                                                *)

(* Variant: the code stays.                                                *)
AcceptKeepingCode(c) ==
    /\ ~Locked /\ otp # None /\ otp.code = c
    /\ uses' = [uses EXCEPT ![otp.id] = @ + 1]
    /\ attempts' = 0 /\ attemptsTime' = 0
    /\ UNCHANGED <<otp, otpTime, guesses, lockTime, resend, resendTime, requests>>

Accept(c) ==
    /\ ~Locked /\ otp # None /\ otp.code = c
    /\ uses' = [uses EXCEPT ![otp.id] = @ + 1]
    /\ NoOtp
    /\ attempts' = 0 /\ attemptsTime' = 0
    /\ UNCHANGED <<lockTime, resend, resendTime, requests>>

(* Variant: the lock comes one failure late.                               *)
RejectLate(c) ==
    /\ ~Locked /\ otp # None /\ otp.code # c
    /\ guesses' = guesses + 1
    /\ attempts' = attempts + 1 /\ attemptsTime' = AttemptsTTL
    /\ lockTime' = IF attempts + 1 > MaxAttempts THEN LockTTL ELSE lockTime
    /\ UNCHANGED <<otp, otpTime, resend, resendTime, requests, uses>>

Reject(c) ==
    /\ ~Locked /\ otp # None /\ otp.code # c
    /\ guesses' = guesses + 1
    /\ attempts' = attempts + 1 /\ attemptsTime' = AttemptsTTL
    /\ lockTime' = IF attempts + 1 >= MaxAttempts THEN LockTTL ELSE lockTime
    /\ UNCHANGED <<otp, otpTime, resend, resendTime, requests, uses>>

-----------------------------------------------------------------------------
Less(t) == IF t = 0 THEN 0 ELSE t - 1

(* Variant: a key at the end of its time stays.                            *)
TickKeepingKeys ==
    /\ otpTime' = Less(otpTime) /\ attemptsTime' = Less(attemptsTime)
    /\ lockTime' = Less(lockTime) /\ resendTime' = Less(resendTime)
    /\ UNCHANGED <<otp, guesses, attempts, resend, requests, uses>>

Tick ==
    /\ otpTime' = Less(otpTime) /\ attemptsTime' = Less(attemptsTime)
    /\ lockTime' = Less(lockTime) /\ resendTime' = Less(resendTime)
    /\ IF otpTime <= 1 THEN otp' = None /\ guesses' = 0 ELSE UNCHANGED <<otp, guesses>>
    /\ attempts' = IF attemptsTime <= 1 THEN 0 ELSE attempts
    /\ resend' = IF resendTime <= 1 THEN None ELSE resend
    /\ UNCHANGED <<requests, uses>>

Next ==
    \/ \E s \in Senders : (\E c \in Codes : Issue(s, c)) \/ Enqueued(s) \/ EnqueueFails(s)
                          \/ Clear(s) \/ GiveUp(s)
    \/ \E c \in Codes : Accept(c) \/ Reject(c)
    \/ Tick

Spec == Init /\ [][Next]_vars

-----------------------------------------------------------------------------
(* Type invariant: a key exists exactly while it has time left.            *)
TypeOK ==
    /\ otp \in [code : Codes, id : Issuances] \cup {None} /\ otpTime \in 0..OtpTTL
    /\ otp = None <=> otpTime = 0
    /\ attempts \in Nat /\ attemptsTime \in 0..AttemptsTTL
    /\ attempts = 0 <=> attemptsTime = 0
    /\ lockTime \in 0..LockTTL
    /\ resend \in Issuances \cup {None} /\ resendTime \in 0..ResendTTL
    /\ resend = None <=> resendTime = 0
    /\ pc \in [Senders -> {"idle", "enqueue", "clear"}]
    /\ mine \in [Senders -> [code : Codes, id : Issuances] \cup {None}]
    /\ \A s \in Senders : pc[s] # "idle" => mine[s] # None
    /\ issued \in 0..MaxIssues /\ mailed \subseteq Issuances
    /\ uses \in [Issuances -> Nat]
    /\ guesses \in Nat

(* No code is ever compared with more than MaxAttempts wrong ones, however *)
(* cooldowns, new codes, cleanups and expiries interleave with the         *)
(* guessing: the counter and the lock outlive the code (otp.go:47).        *)
GuessesBounded == guesses <= MaxAttempts

(* A code is good for one login, although a code can repeat.               *)
(* auth_service.go:174, otp.go:47                                          *)
UsedOnce == \A i \in Issuances : uses[i] <= 1

(* A code whose mail is on its way stays until it is used, replaced or too *)
(* old: the late cleanup of another request does not take it (otp.go:76).  *)
SentCodeStands ==
    [][otp # None /\ otp' = None =>
           otp.id \notin mailed \/ uses'[otp.id] > uses[otp.id] \/ otpTime = 1]_vars
=============================================================================
