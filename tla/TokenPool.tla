------------------------------ MODULE TokenPool ------------------------------
(***************************************************************************)
(* The clients of SchedulerCfsClientPool: a session per thread and one     *)
(* token between them (afl_json/client.py, SynchronizedWMCTokenProvider in *)
(* scheduler/player_stat_polling.py).  A request that is refused drops the *)
(* shared token, whoever put it there, takes the next one and tries once   *)
(* more.  The provider's lock is held while a token is acquired.           *)
(*                                                                         *)
(* Upstream, a token is good until everything issued so far expires; it is *)
(* known here by the epoch it was issued in.                               *)
(***************************************************************************)
EXTENDS Integers

CONSTANTS Callers,      \* threads of the polling executor
          MaxAttempts,  \* HttpPolicy.max_attempts
          MaxRequests,  \* bound: requests of a caller
          MaxEpoch,     \* bound: expiries
          MaxOutages    \* bound: failures worth another try

ASSUME TokenAssumption == MaxAttempts \in Nat \ {0} /\ MaxEpoch \in Nat

VARIABLES provider,     \* [token, holder] of the shared provider
          caller,       \* the request each thread is in
          epoch,        \* upstream: the epoch of the tokens that are good
          outages

tokenVars == <<provider, caller, epoch, outages>>

NoToken == -1
Nobody == "nobody"
ASSUME NobodyAssumption == Nobody \notin Callers

(* at: idle, wanting (a token), acquiring (request sent under the lock),   *)
(* acquired (answer in hand, not stored yet), sending, refused, and the    *)
(* ways to end: answered, failed, given up as unauthenticated.  refused    *)
(* and again: the epoch at which it was refused for the first and for the  *)
(* second time; denied: the endpoint that issues tokens gave it none.      *)
Never == -1
Fresh(at, requests) == [at |-> at, token |-> NoToken, attempt |-> 1,
                        refused |-> Never, again |-> Never, denied |-> FALSE,
                        requests |-> requests]

TokenInit ==
    /\ provider = [token |-> NoToken, holder |-> Nobody]
    /\ caller = [c \in Callers |-> Fresh("idle", 0)]
    /\ epoch = 0 /\ outages = 0

Free == provider.holder = Nobody
Sent(c, step) == caller' = [caller EXCEPT ![c].at = step, ![c].attempt = 1]

Request(c) ==
    /\ caller[c].at \in {"idle", "answered", "failed", "given up"}
    /\ caller[c].requests < MaxRequests
    /\ caller' = [caller EXCEPT ![c] = Fresh("wanting", caller[c].requests + 1)]
    /\ UNCHANGED <<provider, epoch, outages>>

(* get_token(): what is stored, or an acquisition under the lock.          *)
TakeStored(c) ==
    /\ caller[c].at = "wanting" /\ Free /\ provider.token # NoToken
    /\ caller' = [caller EXCEPT ![c].at = "sending", ![c].attempt = 1,
                                ![c].token = provider.token]
    /\ UNCHANGED <<provider, epoch, outages>>

BeginAcquire(c) ==
    /\ caller[c].at = "wanting" /\ Free /\ provider.token = NoToken
    /\ provider' = [provider EXCEPT !.holder = c]
    /\ Sent(c, "acquiring")
    /\ UNCHANGED <<epoch, outages>>

AnswerAcquire(c) ==
    /\ caller[c].at = "acquiring"
    /\ caller' = [caller EXCEPT ![c].at = "acquired", ![c].token = epoch]
    /\ UNCHANGED <<provider, epoch, outages>>

StoreAcquired(c) ==
    /\ caller[c].at = "acquired"
    /\ provider' = [token |-> caller[c].token, holder |-> Nobody]
    /\ Sent(c, "sending")
    /\ UNCHANGED <<epoch, outages>>

(* The request proper.                                                     *)
Accepted(c) ==
    /\ caller[c].at = "sending" /\ caller[c].token = epoch
    /\ Sent(c, "answered")
    /\ UNCHANGED <<provider, epoch, outages>>

(* Refused for the token: once is a reason to take another one, twice an   *)
(* authentication failure.                                                 *)
Refused(c) ==
    /\ caller[c].at = "sending" /\ caller[c].token # epoch
    /\ caller' = IF caller[c].refused = Never
                 THEN [caller EXCEPT ![c].at = "refused", ![c].refused = epoch]
                 ELSE [caller EXCEPT ![c].at = "given up", ![c].again = epoch]
    /\ UNCHANGED <<provider, epoch, outages>>

(* Mutant of MayInvalidate: the token is dropped without the lock.         *)
MayInvalidateUnlocked == TRUE

MayInvalidate == Free

Invalidate(c) ==
    /\ caller[c].at = "refused" /\ MayInvalidate
    /\ provider' = [provider EXCEPT !.token = NoToken]
    /\ Sent(c, "wanting")
    /\ UNCHANGED <<epoch, outages>>

(* How a request may end without a usable answer.  An acquisition that is  *)
(* answered with another status than success is an authentication failure, *)
(* also when it is the last of several tries; one that meets no answer, or *)
(* one that cannot be read or has no token, fails like any request.        *)
EndsOf(c) == IF caller[c].at = "acquiring" THEN {"failed", "given up"} ELSE {"failed"}

(* A failed acquisition leaves no token and gives the lock back.           *)
EndsAs(c, how) ==
    /\ caller' = [caller EXCEPT ![c].at = how, ![c].attempt = 1,
                                ![c].denied = (how = "given up")]
    /\ provider' = IF provider.holder = c THEN [provider EXCEPT !.holder = Nobody]
                                          ELSE provider

(* An answer that is final and of no use.                                  *)
Unusable(c) ==
    /\ caller[c].at \in {"acquiring", "sending"}
    /\ \E how \in EndsOf(c) : EndsAs(c, how)
    /\ UNCHANGED <<epoch, outages>>

(* A connection error, a timeout or a retryable status: tried again a      *)
(* bounded number of times.                                                *)
Outage(c) ==
    /\ caller[c].at \in {"acquiring", "sending"} /\ outages < MaxOutages
    /\ outages' = outages + 1
    /\ \/ /\ caller[c].attempt < MaxAttempts
          /\ caller' = [caller EXCEPT ![c].attempt = @ + 1]
          /\ UNCHANGED provider
       \/ /\ caller[c].attempt >= MaxAttempts
          /\ \E how \in EndsOf(c) : EndsAs(c, how)
    /\ UNCHANGED epoch

(* Upstream: what was issued so far is good no longer.                     *)
Expire ==
    /\ epoch < MaxEpoch
    /\ epoch' = epoch + 1
    /\ UNCHANGED <<provider, caller, outages>>

TokenNext ==
    \/ Expire
    \/ \E c \in Callers : \/ Request(c) \/ TakeStored(c) \/ BeginAcquire(c)
                          \/ AnswerAcquire(c) \/ StoreAcquired(c) \/ Accepted(c)
                          \/ Refused(c) \/ Invalidate(c) \/ Unusable(c) \/ Outage(c)

TokenSpec == TokenInit /\ [][TokenNext]_tokenVars

----------------------------------------------------------------------------
(* A request is given up as unauthenticated, for which the worker pauses,  *)
(* only for one of two reasons: it was denied a token, or it was refused   *)
(* twice and the tokens expired again in between.  The token it takes for  *)
(* the second try is never one that was already stale at the first, not    *)
(* even one another thread was about to store.                             *)
GivesUpForCause ==
    \A c \in Callers : caller[c].at = "given up" =>
        \/ caller[c].denied
        \/ caller[c].refused # Never /\ caller[c].again > caller[c].refused
=============================================================================
