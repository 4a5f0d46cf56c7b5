---------------------------- MODULE ServiceToken ----------------------------
(***************************************************************************)
(* ServiceTokenService: one cached bearer token and one shared exchange per  *)
(* process.  Every await of getAccessToken and fetchToken separates two      *)
(* steps, so callers, identity's answers and refusals downstream interleave. *)
(*                                                                         *)
(* A token is the era it was minted in (a granted permission or a new        *)
(* signing key starts another era, and tokens of earlier ones are refused)   *)
(* and what is left of its life.  Times are in ticks and saturate at 0.      *)
(***************************************************************************)
EXTENDS Integers, FiniteSets

CONSTANTS
  Caller,       \* the pieces of work that need a token
  Exch,         \* names for the promises of fetchToken in memory at one time
  Null,
  Lifetimes,    \* the expiresInSeconds identity may grant
  Skew,         \* refreshSkewSeconds
  Timeout,      \* timeoutMs: no exchange is awaited longer
  MaxEra,       \* bound: changes of permissions or keys
  MaxFaults     \* bound: exchanges that fail

ASSUME TokenAssumption ==
  /\ {Skew, Timeout, MaxEra, MaxFaults} \subseteq Nat
  /\ Lifetimes \subseteq Nat \ {0}      \* narrowToken: expiresInSeconds > 0
  /\ Timeout <= Skew                    \* 5 s and 30 s in the fleet
  /\ Null \notin Exch

VARIABLES
  era,          \* identity and downstream: the current era
  configured,   \* an identity URL and a key are set
  cached,       \* Null, or the token as the service remembers it
  inFlight,     \* the shared exchange
  stage,        \* where each exchange stands
  minted,       \* the token identity made for the exchange
  age,          \* ticks since the request was sent
  pc, waitingOn, token, refusedAt, raced,
                \* each caller: its await, the token in its hand, the era in
                \* which its first token was refused (Null: not yet), and
                \* whether an exchange was out at that moment
  faults

exchange == <<inFlight, stage, minted, age>>
caller   == <<pc, waitingOn, token, refusedAt, raced>>
vars     == <<era, configured, cached, exchange, caller, faults>>

Era      == 0..MaxEra
\* left is the truth; in a cached token, believed is expiresAt - Date.now().
Minted   == [era : Era, life : Nat, left : Nat]
InHand   == [era : Era, left : Nat]
Cached   == [era : Era, believed : Nat, left : Nat]
\* A record is not the model value Null.
ASSUME NullAssumption == Null \notin Minted \union InHand \union Cached \union Era
\* asked: the request is out; minted: the reply is on its way; resolved and
\* rejected: fetchToken has settled, finally() has not run; answered and failed:
\* it has, and the callers are yet to resume.
Stage    == {"free", "asked", "minted", "resolved", "rejected", "answered", "failed"}
Outstanding == {e \in Exch : stage[e] \in {"asked", "minted"}}

TypeOK ==
  /\ era \in Era
  /\ configured \in BOOLEAN
  /\ cached \in Cached \union {Null}
  /\ inFlight \in Exch \union {Null}
  /\ stage \in [Exch -> Stage]
  /\ minted \in [Exch -> Minted \union {Null}]
  /\ age \in [Exch -> 0..Timeout]
  /\ pc \in [Caller -> {"idle", "waiting", "holding"}]
  /\ waitingOn \in [Caller -> Exch \union {Null}]
  /\ token \in [Caller -> InHand \union {Null}]
  /\ refusedAt \in [Caller -> Era \union {Null}]
  /\ raced \in [Caller -> BOOLEAN]
  /\ faults \in 0..MaxFaults

Init ==
  /\ era = 0
  /\ configured \in BOOLEAN
  /\ cached = Null
  /\ inFlight = Null
  /\ stage = [e \in Exch |-> "free"]
  /\ minted = [e \in Exch |-> Null]
  /\ age = [e \in Exch |-> 0]
  /\ pc = [c \in Caller |-> "idle"]
  /\ waitingOn = [c \in Caller |-> Null]
  /\ token = [c \in Caller |-> Null]
  /\ refusedAt = [c \in Caller |-> Null]
  /\ raced = [c \in Caller |-> FALSE]
  /\ faults = 0

-----------------------------------------------------------------------------
(* Time and the world outside                                               *)

Less(n) == IF n > 0 THEN n - 1 ELSE 0

Aged(t) == IF t = Null THEN Null ELSE [t EXCEPT !.left = Less(@)]

\* A tick of the clock; an exchange at its timeout has to settle first.
Tick ==
  /\ \A e \in Outstanding : age[e] < Timeout
  /\ cached' = IF cached = Null THEN Null
               ELSE [era |-> cached.era, believed |-> Less(cached.believed), left |-> Less(cached.left)]
  /\ minted' = [e \in Exch |-> Aged(minted[e])]
  /\ token' = [c \in Caller |-> Aged(token[c])]
  /\ age' = [e \in Exch |-> IF e \in Outstanding THEN age[e] + 1 ELSE age[e]]
  /\ UNCHANGED <<era, configured, inFlight, stage, pc, waitingOn, refusedAt, raced, faults>>

\* A permission is granted, or identity restarts with another signing key.
NewEra ==
  /\ era < MaxEra
  /\ era' = era + 1
  /\ UNCHANGED <<configured, cached, exchange, caller, faults>>

\* Replies are callbacks of the event loop: every promise callback runs first.
PromisesRun == \A e \in Exch : stage[e] \in {"free", "asked", "minted"}

-----------------------------------------------------------------------------
(* getAccessToken                                                           *)

\* Slip: a cached token is good until it expires.
Slip_NoSkew == cached # Null /\ cached.believed > 0

Reusable == cached # Null /\ cached.believed > Skew

FromCache(c) ==
  /\ Reusable
  /\ pc' = [pc EXCEPT ![c] = "holding"]
  /\ token' = [token EXCEPT ![c] = [era |-> cached.era, left |-> cached.left]]
  /\ UNCHANGED <<exchange, waitingOn>>

\* Await exchange e, this caller's own or another's.
Await(c, e) ==
  /\ pc' = [pc EXCEPT ![c] = "waiting"]
  /\ waitingOn' = [waitingOn EXCEPT ![c] = e]
  /\ UNCHANGED token

Join(c) ==
  /\ ~Reusable /\ inFlight # Null
  /\ Await(c, inFlight)
  /\ UNCHANGED exchange

\* fetchToken up to its first await; without a credential it has thrown by then.
StartExchange(c) ==
  /\ ~Reusable /\ inFlight = Null
  /\ \E e \in Exch :
       /\ stage[e] = "free"
       /\ inFlight' = e
       /\ stage' = [stage EXCEPT ![e] = IF configured THEN "asked" ELSE "rejected"]
       /\ Await(c, e)
  /\ UNCHANGED <<minted, age>>

getAccessToken(c) ==
  /\ pc[c] = "idle"
  /\ FromCache(c) \/ Join(c) \/ StartExchange(c)
  /\ UNCHANGED <<era, configured, cached, refusedAt, raced, faults>>

-----------------------------------------------------------------------------
(* fetchToken                                                               *)

\* Identity makes a token: its life begins here, before the reply is read.
Mint(e) ==
  /\ stage[e] = "asked"
  /\ \E life \in Lifetimes :
       minted' = [minted EXCEPT ![e] = [era |-> era, life |-> life, left |-> life]]
  /\ stage' = [stage EXCEPT ![e] = "minted"]
  /\ UNCHANGED <<era, configured, cached, inFlight, age, caller, faults>>

\* Settled one way or the other, the request's age no longer matters.
Settle(e, how) ==
  /\ stage' = [stage EXCEPT ![e] = how]
  /\ age' = [age EXCEPT ![e] = 0]

\* A usable reply: expiresAt counts from now, not from the minting.
Responds(e) ==
  /\ stage[e] = "minted" /\ PromisesRun
  /\ cached' = [era |-> minted[e].era, believed |-> minted[e].life, left |-> minted[e].left]
  /\ Settle(e, "resolved")
  /\ UNCHANGED <<era, configured, inFlight, minted, caller, faults>>

\* Whatever is thrown, the cached token stays as it is.
Throw(e) ==
  /\ Settle(e, "rejected")
  /\ minted' = [minted EXCEPT ![e] = Null]
  /\ UNCHANGED cached

\* Unreachable, timed out, refused, or a reply narrowToken rejects.
Fails(e) ==
  /\ e \in Outstanding /\ PromisesRun
  /\ faults < MaxFaults
  /\ faults' = faults + 1
  /\ Throw(e)
  /\ UNCHANGED <<era, configured, inFlight, caller>>

\* Slip: cleared on success only.
Slip_NotOnFailure(e) == inFlight' = IF stage[e] = "resolved" THEN Null ELSE inFlight

ClearInFlight(e) == inFlight' = Null

\* finally(): the promise the callers await settles after it.
Finally(e) ==
  /\ stage[e] \in {"resolved", "rejected"}
  /\ ClearInFlight(e)
  /\ stage' = [stage EXCEPT ![e] = IF @ = "resolved" THEN "answered" ELSE "failed"]
  /\ UNCHANGED <<era, configured, cached, minted, age, caller, faults>>

\* The exchange a caller awaited has settled; the last to resume leaves it to
\* the garbage collector.  A rejected call is an error for the caller's work,
\* which comes back for a token some other time.
Resume(c) ==
  LET e == waitingOn[c]
      last == \A d \in Caller \ {c} : waitingOn[d] # e
  IN
  /\ pc[c] = "waiting" /\ stage[e] \in {"answered", "failed"}
  /\ waitingOn' = [waitingOn EXCEPT ![c] = Null]
  /\ \/ /\ stage[e] = "answered"
        /\ pc' = [pc EXCEPT ![c] = "holding"]
        /\ token' = [token EXCEPT ![c] = [era |-> minted[e].era, left |-> minted[e].left]]
        /\ UNCHANGED <<refusedAt, raced>>
     \/ /\ stage[e] = "failed"
        /\ pc' = [pc EXCEPT ![c] = "idle"]
        /\ refusedAt' = [refusedAt EXCEPT ![c] = Null]
        /\ raced' = [raced EXCEPT ![c] = FALSE]
        /\ UNCHANGED token
  /\ stage' = IF last THEN [stage EXCEPT ![e] = "free"] ELSE stage
  /\ minted' = IF last THEN [minted EXCEPT ![e] = Null] ELSE minted
  /\ UNCHANGED <<era, configured, cached, inFlight, age, faults>>

-----------------------------------------------------------------------------
(* The caller's side of the contract                                        *)

Accepted(c) == token[c].era = era /\ token[c].left > 0

\* The work is done with the token, or given up after the second refusal.
Finish(c) ==
  /\ pc[c] = "holding" /\ PromisesRun
  /\ Accepted(c) \/ refusedAt[c] # Null
  /\ pc' = [pc EXCEPT ![c] = "idle"]
  /\ token' = [token EXCEPT ![c] = Null]
  /\ refusedAt' = [refusedAt EXCEPT ![c] = Null]
  /\ raced' = [raced EXCEPT ![c] = FALSE]
  /\ UNCHANGED <<era, configured, cached, exchange, waitingOn, faults>>

\* Slip: the exchange is forgotten along with the token.
Slip_ForgetExchange == cached' = Null /\ inFlight' = Null

\* Slip: the cache is left to the clock.
Slip_WaitOut == UNCHANGED <<cached, inFlight>>

invalidate == cached' = Null /\ UNCHANGED inFlight

\* A 401 from downstream: the caller discards the token and will ask once more.
Refused(c) ==
  /\ pc[c] = "holding" /\ PromisesRun
  /\ ~Accepted(c) /\ refusedAt[c] = Null
  /\ invalidate
  /\ pc' = [pc EXCEPT ![c] = "idle"]
  /\ token' = [token EXCEPT ![c] = Null]
  /\ refusedAt' = [refusedAt EXCEPT ![c] = era]
  /\ raced' = [raced EXCEPT ![c] = inFlight # Null]
  /\ UNCHANGED <<era, configured, stage, minted, age, waitingOn, faults>>

-----------------------------------------------------------------------------

Exchange(e) == Mint(e) \/ Responds(e) \/ Finally(e)

Work(c) == getAccessToken(c) \/ Resume(c) \/ Finish(c) \/ Refused(c)

Next ==
  \/ Tick \/ NewEra
  \/ \E e \in Exch : Exchange(e) \/ Fails(e)
  \/ \E c \in Caller : Work(c)

Spec == Init /\ [][Next]_vars

\* Promises settle and run their callbacks; identity answers unless it fails,
\* which it need not; callers go on with their work.
Fairness ==
  /\ \A e \in Exch : WF_vars(Exchange(e))
  /\ \A c \in Caller : WF_vars(Work(c))

FairSpec == Spec /\ Fairness

-----------------------------------------------------------------------------
(* Properties                                                               *)

\* At most one request is out to identity, however many callers, refusals and
\* failures overlap; while one is out it is the one every caller joins; and
\* without a credential none is ever sent (the ??= and finally of
\* getAccessToken, the first check of fetchToken).
OneExchange ==
  /\ \A e \in Outstanding : inFlight = e
  /\ ~configured => Outstanding = {}

\* A token handed out from the cache has not expired at identity, although its
\* expiry is computed when the reply arrives and not when it was minted: the
\* skew has to cover the time the exchange took (expiresAt in fetchToken, the
\* comparison in getAccessToken).
CachedTokenIsLive ==
  [][\A c \in Caller :
       (pc[c] = "idle" /\ pc'[c] = "holding") => token'[c].left > 0]_vars

\* With a credential and finitely many failures every caller gets a token again
\* and again: no failed exchange is remembered and nobody waits for ever
\* (finally() in getAccessToken, "retries after a failure rather than caching it").
TokenAgain == configured => \A c \in Caller : []<>(pc[c] = "holding")

\* The token of the one retry is no older than the refusal that led to it
\* ("Discards the cached token.  A caller that gets a 401 ... calls this and
\* retries once"), unless an exchange was out at that moment: invalidate leaves
\* that one alone, and its reply may be older than the refusal.
RetryIsFresh ==
  \A c \in Caller : (pc[c] = "holding" /\ refusedAt[c] # Null /\ ~raced[c]) =>
    token[c].era >= refusedAt[c]
=============================================================================
