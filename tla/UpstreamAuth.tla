----------------------------- MODULE UpstreamAuth -----------------------------
(***************************************************************************)
(* The client of one upstream (upstreamauth.Client): a bearer token that   *)
(* all requests to the upstream share, fetched by logging in, and fetched  *)
(* again when a request is answered with 401.  tokenMu is held during a    *)
(* login, not during a request.                                            *)
(***************************************************************************)
EXTENDS Naturals

CONSTANTS
    Callers,      \* the goroutines that use the client
    NoCaller,
    MaxFaults     \* bound on failures, and on tokens that end

ASSUME AuthAssumption == NoCaller \notin Callers /\ MaxFaults \in Nat

VARIABLES
    token,        \* bearerToken: 0 when it is empty
    tokenMu,      \* who holds the lock
    phase,        \* caller -> where its DoWithAuth is
    held,         \* caller -> the token it has been given
    issued,       \* the upstream: tokens it has issued
    valid,        \* the upstream: the tokens it accepts
    refused,      \* the tokens a first request was refused with
    faults

authVars == <<token, tokenMu, phase, held, issued, valid, refused, faults>>

NoToken == 0
Fault == faults < MaxFaults /\ faults' = faults + 1
To(c, label) == phase' = [phase EXCEPT ![c] = label]

\* NewClient
AuthInit ==
    /\ token = NoToken
    /\ tokenMu = NoCaller
    /\ phase = [c \in Callers |-> "idle"]
    /\ held = [c \in Callers |-> NoToken]
    /\ issued = 0
    /\ valid = {}
    /\ refused = {}
    /\ faults = 0

DoWithAuth(c) ==
    /\ phase[c] = "idle"
    /\ To(c, "get")
    /\ UNCHANGED <<token, tokenMu, held, issued, valid, refused, faults>>

\* getToken finds a token, ...
GetCached(c) ==
    /\ phase[c] = "get"
    /\ tokenMu = NoCaller
    /\ token # NoToken
    /\ held' = [held EXCEPT ![c] = token]
    /\ To(c, "send")
    /\ UNCHANGED <<token, tokenMu, issued, valid, refused, faults>>

\* ... or logs in, with the lock held, ...
LockForLogin(c) ==
    /\ phase[c] = "get"
    /\ tokenMu = NoCaller
    /\ token = NoToken
    /\ tokenMu' = c
    /\ To(c, "login")
    /\ UNCHANGED <<token, held, issued, valid, refused, faults>>

\* Mutant: the old token stays until there is a new one.
ForceRefresh_Keeps == token

\* getToken with forceRefresh clears the token, whichever it is by now, ...
ForceRefresh == NoToken

LockForRefresh(c) ==
    /\ phase[c] = "refresh"
    /\ tokenMu = NoCaller
    /\ token' = ForceRefresh
    /\ tokenMu' = c
    /\ To(c, "relogin")
    /\ UNCHANGED <<held, issued, valid, refused, faults>>

\* Mutant: the return on an error leaves the lock.
UnlockOnError_Leaked(c) == c

\* The lock is given up on every return, errors included.
UnlockOnError(c) == NoCaller

LoginSucceeds(c) ==
    /\ tokenMu = c
    /\ issued' = issued + 1
    /\ valid' = valid \cup {issued'}
    /\ token' = issued'
    /\ held' = [held EXCEPT ![c] = issued']
    /\ tokenMu' = NoCaller
    /\ To(c, IF phase[c] = "login" THEN "send" ELSE "resend")
    /\ UNCHANGED <<refused, faults>>

\* ... and an error, a refusal or the time-out of the login is the caller's.
LoginFails(c) ==
    /\ tokenMu = c
    /\ Fault
    /\ tokenMu' = UnlockOnError(c)
    /\ To(c, "failed")
    /\ UNCHANGED <<token, held, issued, valid, refused>>

\* The request, with the token: 401 the first time leads to a new login.
\* The upstream also says 401 to a user without permission for the camera.
Send(c) ==
    /\ phase[c] = "send"
    /\ \/ held[c] \in valid /\ To(c, "answered") /\ UNCHANGED <<refused, faults>>
       \/ held[c] \notin valid /\ To(c, "refresh") /\ UNCHANGED faults
          /\ refused' = refused \cup {held[c]}
       \/ held[c] \in valid /\ Fault /\ To(c, "refresh")
          /\ refused' = refused \cup {held[c]}
       \/ Fault /\ To(c, "failed") /\ UNCHANGED refused
    /\ UNCHANGED <<token, tokenMu, held, issued, valid>>

\* The second answer is the caller's, whatever it is.
Resend(c) ==
    /\ phase[c] = "resend"
    /\ \/ To(c, IF held[c] \in valid THEN "answered" ELSE "failed") /\ UNCHANGED faults
       \/ Fault /\ To(c, "failed")
    /\ UNCHANGED <<token, tokenMu, held, issued, valid, refused>>

\* DoWithAuth has returned.
Returned(c) == phase[c] \in {"answered", "failed"}

TakeAnswer(c) ==
    /\ Returned(c)
    /\ To(c, "idle")
    /\ held' = [held EXCEPT ![c] = NoToken]
    /\ UNCHANGED <<token, tokenMu, issued, valid, refused, faults>>

\* The tokens expire, or the upstream has a new key.
Expire ==
    /\ valid # {}
    /\ Fault
    /\ valid' = {}
    /\ UNCHANGED <<token, tokenMu, phase, held, issued, refused>>

AuthStep(c) ==
    \/ GetCached(c)
    \/ LockForLogin(c) \/ LockForRefresh(c)
    \/ LoginSucceeds(c) \/ LoginFails(c)
    \/ Send(c) \/ Resend(c)

-----------------------------------------------------------------------------
AuthTypeOK ==
    /\ token \in 0..issued
    /\ tokenMu \in Callers \cup {NoCaller}
    /\ phase \in [Callers -> {"idle", "get", "login", "send", "refresh", "relogin",
                              "resend", "answered", "failed"}]
    /\ held \in [Callers -> 0..issued]
    /\ issued \in Nat
    /\ valid \subseteq 1..issued
    /\ refused \subseteq 1..issued
    /\ faults \in 0..MaxFaults

\* A token that was refused does not stay: whoever was refused with it is
\* about to clear it, or it is gone, also when the new login fails.  A later
\* request never starts with it over and over again.
RefusedTokenGoes ==
    token \in refused => \E c \in Callers : phase[c] = "refresh" /\ held[c] = token
=============================================================================
