------------------------- MODULE ServiceTokenProofs -------------------------
(***************************************************************************)
(* Proofs about ServiceToken, for any number of callers and exchanges, any   *)
(* lifetimes, skew and timeout with Timeout <= Skew, and any number of       *)
(* failures.                                                                 *)
(***************************************************************************)
EXTENDS ServiceToken, TLAPS

\* fetchToken has not been settled and finally() has not run.
Live(e) == stage[e] \in {"asked", "minted", "resolved", "rejected"}

\* The live exchange is the shared one, and none is asked for without a credential.
SharedInv ==
  /\ \A e \in Exch : Live(e) => inFlight = e
  /\ \A e \in Exch : stage[e] \in {"asked", "minted"} => configured

\* An exchange past its minting has a token, no older than the request.
MintedInv ==
  \A e \in Exch :
    /\ stage[e] \in {"minted", "resolved", "answered"} => minted[e] # Null
    /\ stage[e] = "minted" => minted[e].left + age[e] >= minted[e].life

\* The cached token is believed to live at most Timeout longer than it does.
CachedInv == cached # Null => cached.left + Timeout >= cached.believed

CallerInv ==
  \A c \in Caller :
    /\ pc[c] = "waiting" => waitingOn[c] # Null
    /\ pc[c] = "holding" => token[c] # Null

IInv == TypeOK /\ SharedInv /\ MintedInv /\ CachedInv /\ CallerInv

-----------------------------------------------------------------------------

LEMMA InitIInv == Init => IInv
BY TokenAssumption DEF Init, IInv, TypeOK, SharedInv, MintedInv, CachedInv, CallerInv,
   Live, Stage, Era

\* Less counts down within Nat.
LEMMA LessNat == \A n \in Nat : Less(n) \in Nat /\ Less(n) <= n /\ n - 1 <= Less(n)
BY DEF Less

LEMMA TickIInv == IInv /\ Tick => IInv'
<1> SUFFICES ASSUME IInv, Tick PROVE IInv'
  OBVIOUS
<1> USE DEF IInv
<1>1. \A e \in Exch : minted'[e] = Null <=> minted[e] = Null
  BY NullAssumption, LessNat DEF Tick, Aged, TypeOK, Minted
<1>2. \A e \in Exch : minted[e] # Null =>
        minted'[e] \in Minted /\ minted'[e].life = minted[e].life
        /\ minted'[e].left + 1 >= minted[e].left
  BY NullAssumption, LessNat DEF Tick, Aged, TypeOK, Minted
<1>3. \A c \in Caller : token'[c] \in InHand \union {Null} /\ (token'[c] = Null <=> token[c] = Null)
  BY NullAssumption, LessNat DEF Tick, Aged, TypeOK, InHand
<1>4. cached' \in Cached \union {Null} /\ (cached' = Null <=> cached = Null)
  BY NullAssumption, LessNat DEF Tick, TypeOK, Cached
<1>5. \A e \in Exch : age'[e] \in 0..Timeout /\ (e \in Outstanding => age'[e] = age[e] + 1)
  BY TokenAssumption DEF Tick, TypeOK, Outstanding
<1>6. TypeOK'
  BY <1>1, <1>2, <1>3, <1>4, <1>5 DEF Tick, TypeOK
<1>7. SharedInv'
  BY DEF Tick, SharedInv, Live
<1>8. MintedInv'
  BY <1>1, <1>2, <1>5 DEF Tick, MintedInv, Outstanding, TypeOK, Minted
<1>9. CachedInv'
  BY <1>4, LessNat, TokenAssumption DEF Tick, CachedInv, TypeOK, Cached, Less
<1>10. CallerInv'
  BY <1>3 DEF Tick, CallerInv
<1> QED BY <1>6, <1>7, <1>8, <1>9, <1>10

LEMMA AskIInv ==
  ASSUME IInv, NEW c \in Caller, getAccessToken(c)  PROVE IInv'
<1> USE DEF IInv
<1>1. CASE FromCache(c)
  BY <1>1, NullAssumption DEF getAccessToken, FromCache, Reusable, exchange, TypeOK, SharedInv,
     MintedInv, CachedInv, CallerInv, Live, Cached, InHand, Outstanding
<1>2. CASE Join(c)
  BY <1>2 DEF getAccessToken, Join, Await, exchange, TypeOK, SharedInv,
     MintedInv, CachedInv, CallerInv, Live, Outstanding
<1>3. CASE StartExchange(c)
  <2>1. PICK e \in Exch :
          /\ stage[e] = "free"
          /\ inFlight' = e
          /\ stage' = [stage EXCEPT ![e] = IF configured THEN "asked" ELSE "rejected"]
          /\ Await(c, e)
    BY <1>3 DEF StartExchange
  <2>2. UNCHANGED <<era, configured, cached, minted, age, token, refusedAt, raced, faults>>
    BY <1>3, <2>1 DEF StartExchange, Await, getAccessToken
  <2>3. inFlight = Null /\ pc[c] = "idle"
    BY <1>3 DEF StartExchange, getAccessToken
  <2>4. stage' \in [Exch -> Stage] /\ stage'[e] = IF configured THEN "asked" ELSE "rejected"
    BY <2>1 DEF TypeOK, Stage
  <2>5. \A d \in Exch \ {e} : stage'[d] = stage[d]
    BY <2>1 DEF TypeOK
  <2>6. TypeOK'
    BY <2>1, <2>2, <2>4 DEF TypeOK, Await
  <2>7. SharedInv'
    BY <2>1, <2>2, <2>3, <2>4, <2>5, TokenAssumption DEF SharedInv, Live
  <2>8. MintedInv'
    BY <2>2, <2>4, <2>5 DEF MintedInv
  <2>9. CachedInv' /\ CallerInv'
    BY <2>1, <2>2, TokenAssumption DEF CachedInv, CallerInv, Await, TypeOK
  <2> QED BY <2>6, <2>7, <2>8, <2>9
<1> QED BY <1>1, <1>2, <1>3 DEF getAccessToken

LEMMA MintIInv ==
  ASSUME IInv, NEW e \in Exch, Mint(e)  PROVE IInv'
<1> USE DEF IInv
<1>1. PICK life \in Lifetimes :
        minted' = [minted EXCEPT ![e] = [era |-> era, life |-> life, left |-> life]]
  BY DEF Mint
<1>2. life \in Nat /\ minted'[e] = [era |-> era, life |-> life, left |-> life] /\ minted'[e] \in Minted
  BY <1>1, TokenAssumption DEF TypeOK, Minted
<1>3. \A d \in Exch \ {e} : minted'[d] = minted[d] /\ stage'[d] = stage[d]
  BY <1>1 DEF Mint, TypeOK
<1>4. stage[e] = "asked" /\ stage'[e] = "minted" /\ age' = age
  BY DEF Mint, TypeOK
<1>5. TypeOK'
  BY <1>1, <1>2 DEF Mint, TypeOK, Stage, caller
<1>6. SharedInv'
  BY <1>3, <1>4 DEF Mint, SharedInv, Live
<1>7. MintedInv'
  <2>1. minted'[e] # Null /\ age[e] \in Nat
    BY <1>2, NullAssumption DEF TypeOK
  <2>2. minted'[e].left + age'[e] >= minted'[e].life
    BY <1>2, <1>4, <2>1
  <2> QED BY <1>3, <1>4, <2>1, <2>2 DEF MintedInv
<1>8. CachedInv' /\ CallerInv'
  BY DEF Mint, CachedInv, CallerInv, caller
<1> QED BY <1>5, <1>6, <1>7, <1>8

LEMMA RespondsIInv ==
  ASSUME IInv, NEW e \in Exch, Responds(e)  PROVE IInv'
<1> USE DEF IInv
<1>1. stage[e] = "minted" /\ minted[e] \in Minted /\ minted[e].left + age[e] >= minted[e].life
  BY DEF Responds, TypeOK, MintedInv
<1>2. cached' = [era |-> minted[e].era, believed |-> minted[e].life, left |-> minted[e].left]
  BY DEF Responds
<1>3. cached' \in Cached
  BY <1>1, <1>2 DEF Minted, Cached
<1>4. TypeOK'
  BY <1>3, TokenAssumption DEF Responds, Settle, TypeOK, Stage, caller
<1>5. SharedInv'
  BY <1>1 DEF Responds, Settle, SharedInv, Live, TypeOK
<1>6. MintedInv'
  BY <1>1 DEF Responds, Settle, MintedInv, TypeOK
<1>7. CachedInv'
  BY <1>1, <1>2, TokenAssumption DEF CachedInv, TypeOK, Minted
<1>8. CallerInv'
  BY DEF Responds, CallerInv, caller
<1> QED BY <1>4, <1>5, <1>6, <1>7, <1>8

LEMMA FailsIInv ==
  ASSUME IInv, NEW e \in Exch, Fails(e)  PROVE IInv'
BY TokenAssumption DEF IInv, Fails, Throw, Settle, Outstanding, TypeOK, SharedInv, MintedInv,
   CachedInv, CallerInv, Live, Stage, caller

LEMMA FinallyIInv ==
  ASSUME IInv, NEW e \in Exch, Finally(e)  PROVE IInv'
BY TokenAssumption DEF IInv, Finally, ClearInFlight, TypeOK, SharedInv, MintedInv,
   CachedInv, CallerInv, Live, Stage, caller

LEMMA ResumeIInv ==
  ASSUME IInv, NEW c \in Caller, Resume(c)  PROVE IInv'
<1> DEFINE e == waitingOn[c]
<1> USE DEF IInv
<1>1. e \in Exch /\ stage[e] \in {"answered", "failed"} /\ pc[c] = "waiting"
  BY DEF Resume, TypeOK, CallerInv
<1>2. UNCHANGED <<era, configured, cached, inFlight, age, faults>>
  BY DEF Resume
<1>3. /\ stage' \in [Exch -> Stage]
      /\ stage'[e] \in {"free", stage[e]}
      /\ \A d \in Exch \ {e} : stage'[d] = stage[d]
  BY <1>1 DEF Resume, TypeOK, Stage
<1>4. /\ minted' \in [Exch -> Minted \union {Null}]
      /\ stage'[e] # "free" => minted'[e] = minted[e]
      /\ \A d \in Exch \ {e} : minted'[d] = minted[d]
  BY <1>1 DEF Resume, TypeOK
<1>5. /\ pc' \in [Caller -> {"idle", "waiting", "holding"}]
      /\ waitingOn' \in [Caller -> Exch \union {Null}]
      /\ refusedAt' \in [Caller -> Era \union {Null}]
      /\ raced' \in [Caller -> BOOLEAN]
      /\ token' \in [Caller -> InHand \union {Null}]
      /\ pc'[c] # "waiting" /\ (pc'[c] = "holding" => token'[c] # Null)
      /\ \A d \in Caller \ {c} : <<pc'[d], waitingOn'[d], token'[d]>> = <<pc[d], waitingOn[d], token[d]>>
  <2>1. CASE stage[e] = "answered"
    <3>1. minted[e] \in Minted
      BY <1>1, <2>1 DEF MintedInv, TypeOK
    <3>2. [era |-> minted[e].era, left |-> minted[e].left] \in InHand
      BY <3>1 DEF Minted, InHand
    <3> HIDE DEF IInv
    <3>3. TypeOK
      BY DEF IInv
    <3>4. pc' = [pc EXCEPT ![c] = "holding"] /\ waitingOn' = [waitingOn EXCEPT ![c] = Null]
          /\ token' = [token EXCEPT ![c] = [era |-> minted[e].era, left |-> minted[e].left]]
          /\ refusedAt' = refusedAt /\ raced' = raced
      BY <2>1 DEF Resume
    <3> QED BY <3>2, <3>3, <3>4, NullAssumption DEF TypeOK
  <2>2. CASE stage[e] = "failed"
    BY <2>2 DEF Resume, TypeOK
  <2> QED BY <1>1, <2>1, <2>2
<1>6. TypeOK'
  BY <1>2, <1>3, <1>4, <1>5 DEF TypeOK
<1>7. SharedInv'
  BY <1>1, <1>2, <1>3 DEF SharedInv, Live
<1>8. MintedInv'
  BY <1>1, <1>2, <1>3, <1>4 DEF MintedInv
<1>9. CachedInv' /\ CallerInv'
  BY <1>2, <1>5 DEF CachedInv, CallerInv
<1> QED BY <1>6, <1>7, <1>8, <1>9

LEMMA UseIInv ==
  ASSUME IInv, NEW c \in Caller, Finish(c) \/ Refused(c)  PROVE IInv'
<1>1. CASE Finish(c)
  BY <1>1 DEF IInv, Finish, TypeOK, SharedInv, MintedInv, CachedInv, CallerInv, Live, exchange
<1>2. CASE Refused(c)
  BY <1>2 DEF IInv, Refused, invalidate, TypeOK, SharedInv, MintedInv, CachedInv, CallerInv, Live
<1> QED BY <1>1, <1>2

LEMMA NextIInv == IInv /\ [Next]_vars => IInv'
<1> SUFFICES ASSUME IInv, [Next]_vars PROVE IInv'
  OBVIOUS
<1>1. CASE Tick
  BY <1>1, TickIInv
<1>2. CASE NewEra
  BY <1>2, TokenAssumption DEF IInv, NewEra, TypeOK, SharedInv, MintedInv, CachedInv, CallerInv, Live,
     exchange, caller, Era
<1>3. ASSUME NEW e \in Exch, Exchange(e) \/ Fails(e)  PROVE IInv'
  BY <1>3, MintIInv, RespondsIInv, FinallyIInv, FailsIInv DEF Exchange
<1>4. ASSUME NEW c \in Caller, Work(c)  PROVE IInv'
  BY <1>4, AskIInv, ResumeIInv, UseIInv DEF Work
<1>5. CASE UNCHANGED vars
  BY <1>5 DEF IInv, vars, TypeOK, SharedInv, MintedInv, CachedInv, CallerInv, Live,
     exchange, caller
<1> QED BY <1>1, <1>2, <1>3, <1>4, <1>5 DEF Next

\* The strengthened invariant of a service's token cache.
THEOREM Invariance == Spec => []IInv
BY InitIInv, NextIInv, PTL DEF Spec

-----------------------------------------------------------------------------

\* The memory of ServiceTokenService is well-formed in every reachable state.
THEOREM TypeCorrect == Spec => []TypeOK
<1>1. IInv => TypeOK
  BY DEF IInv
<1> QED BY <1>1, Invariance, PTL

\* However many callers overlap, at most one exchange is out, the shared one
\* (getAccessToken's ??= and finally), and none without a credential.
THEOREM OneExchangeAtATime == Spec => []OneExchange
<1>1. IInv => OneExchange
  BY DEF IInv, SharedInv, OneExchange, Outstanding, Live
<1> QED BY <1>1, Invariance, PTL

\* A token from the cache is live: the skew covers the exchange's duration
\* (the comparison in getAccessToken).
THEOREM CacheIsSafe == Spec => CachedTokenIsLive
<1>1. IInv /\ [Next]_vars =>
        [\A c \in Caller : (pc[c] = "idle" /\ pc'[c] = "holding") => token'[c].left > 0]_vars
  <2> SUFFICES ASSUME IInv, Next, NEW c \in Caller, pc[c] = "idle", pc'[c] = "holding"
               PROVE token'[c].left > 0
    BY DEF vars, exchange, caller
  <2>1. FromCache(c)
    <3>1. pc' # pc
      OBVIOUS
    <3>2. PICK d \in Caller : Work(d)
      BY <3>1 DEF Next, Tick, NewEra, Exchange, Fails, Mint, Responds, Finally, caller
    <3>3. d = c /\ getAccessToken(c)
      BY <3>2 DEF Work, getAccessToken, FromCache, Join, StartExchange, Await, Resume, Finish,
         Refused, IInv, TypeOK
    <3> QED BY <3>3 DEF getAccessToken, Join, StartExchange, Await, IInv, TypeOK
  <2>2. token'[c].left = cached.left
    BY <2>1 DEF FromCache, IInv, TypeOK
  <2>3. cached \in Cached /\ cached.believed > Skew /\ cached.left + Timeout >= cached.believed
    BY <2>1 DEF FromCache, Reusable, IInv, TypeOK, CachedInv
  <2>4. {Skew, Timeout} \subseteq Nat /\ Timeout <= Skew
    BY TokenAssumption
  <2> QED BY <2>2, <2>3, <2>4 DEF Cached
<1> QED BY <1>1, Invariance, PTL DEF Spec, CachedTokenIsLive

-----------------------------------------------------------------------------
(* The retry after a refusal                                                *)

\* Every token still to be had from the cache or an exchange is of era n or later.
FreshSince(n) ==
  /\ cached # Null => cached.era >= n
  /\ \A e \in Exch : stage[e] \in {"minted", "resolved", "answered"} => minted[e].era >= n

\* A caller on its retry, no exchange having been out at the refusal.
Retries(c) == refusedAt[c] # Null /\ ~raced[c]

\* invalidate empties the cache, and from then on nothing older comes into reach:
\* this is what a step preserves, and not only the token of the retry itself.
FreshInv ==
  \A c \in Caller : Retries(c) =>
    /\ refusedAt[c] <= era
    /\ FreshSince(refusedAt[c])
    /\ pc[c] = "holding" => token[c].era >= refusedAt[c]

\* A step that leaves the callers, the era and the reach of tokens alone.
LEMMA FreshFrame ==
  ASSUME IInv, FreshInv, era' \in Era, era' >= era, UNCHANGED <<pc, token, refusedAt, raced>>,
         \A n \in Era : n <= era /\ FreshSince(n) => FreshSince(n)'
  PROVE  FreshInv'
BY NullAssumption DEF IInv, TypeOK, FreshInv, Retries, Era

LEMMA TickFresh == IInv /\ FreshInv /\ Tick => FreshInv'
<1> SUFFICES ASSUME IInv, FreshInv, Tick PROVE FreshInv'
  OBVIOUS
<1>1. \A e \in Exch : minted[e] # Null => minted'[e].era = minted[e].era
  BY DEF Tick, Aged, IInv, TypeOK, Minted
<1>2. \A c \in Caller : token[c] # Null => token'[c].era = token[c].era
  BY DEF Tick, Aged, IInv, TypeOK, InHand
<1>3. cached' # Null => cached # Null /\ cached'.era = cached.era
  BY DEF Tick
<1>4. UNCHANGED <<era, stage, pc, refusedAt, raced>>
  BY DEF Tick
<1>5. \A n \in Era : FreshSince(n) => FreshSince(n)'
  BY <1>1, <1>3, <1>4 DEF FreshSince, IInv, MintedInv
<1>6. \A c \in Caller : pc[c] = "holding" => token'[c].era = token[c].era
  BY <1>2 DEF IInv, CallerInv
<1> QED BY <1>4, <1>5, <1>6 DEF FreshInv, Retries, IInv, TypeOK

LEMMA AskFresh ==
  ASSUME IInv, FreshInv, NEW c \in Caller, getAccessToken(c)  PROVE FreshInv'
<1>1. UNCHANGED <<era, cached, minted, refusedAt, raced>> /\ pc[c] = "idle"
  BY DEF getAccessToken, FromCache, Join, StartExchange, exchange
<1>2. \A e \in Exch : stage'[e] \in {"minted", "resolved", "answered"} => stage'[e] = stage[e]
  BY DEF getAccessToken, FromCache, Join, StartExchange, exchange, IInv, TypeOK
<1>3. \A n \in Era : FreshSince(n) => FreshSince(n)'
  BY <1>1, <1>2 DEF FreshSince
<1>4. \A d \in Caller \ {c} : pc'[d] = pc[d] /\ token'[d] = token[d]
  BY DEF getAccessToken, FromCache, Join, StartExchange, Await, IInv, TypeOK
<1>5. pc'[c] = "holding" => cached # Null /\ token'[c].era = cached.era
  BY DEF getAccessToken, FromCache, Join, StartExchange, Await, Reusable, IInv, TypeOK
<1> QED BY <1>1, <1>3, <1>4, <1>5 DEF FreshInv, FreshSince, Retries, IInv, TypeOK

LEMMA ExchangeFresh ==
  ASSUME IInv, FreshInv, NEW e \in Exch, Exchange(e) \/ Fails(e)  PROVE FreshInv'
<1>1. UNCHANGED <<era, pc, token, refusedAt, raced>> /\ era \in Era
  BY DEF Exchange, Mint, Responds, Finally, Fails, caller, IInv, TypeOK
<1>2. \A d \in Exch \ {e} : stage'[d] = stage[d] /\ minted'[d] = minted[d]
  BY DEF Exchange, Mint, Responds, Finally, Fails, Throw, Settle, IInv, TypeOK
<1>3. \/ cached' = cached
      \/ stage[e] = "minted" /\ cached'.era = minted[e].era
  BY DEF Exchange, Mint, Responds, Finally, Fails, Throw
<1>4. stage'[e] \in {"minted", "resolved", "answered"} =>
        \/ minted'[e].era = era
        \/ stage[e] \in {"minted", "resolved"} /\ minted'[e] = minted[e]
  <2>1. CASE Mint(e)
    BY <2>1 DEF Mint, IInv, TypeOK
  <2>2. CASE Responds(e)
    BY <2>2 DEF Responds
  <2>3. CASE Finally(e)
    BY <2>3 DEF Finally, IInv, TypeOK
  <2>4. CASE Fails(e)
    BY <2>4 DEF Fails, Throw, Settle, IInv, TypeOK
  <2> QED BY <2>1, <2>2, <2>3, <2>4 DEF Exchange
<1>5. \A n \in Era : n <= era /\ FreshSince(n) => FreshSince(n)'
  <2> SUFFICES ASSUME NEW n \in Era, n <= era, FreshSince(n) PROVE FreshSince(n)'
    OBVIOUS
  <2>1. cached' # Null => cached'.era >= n
    BY <1>3 DEF FreshSince
  <2>2. \A d \in Exch : stage'[d] \in {"minted", "resolved", "answered"} => minted'[d].era >= n
    BY <1>2, <1>4 DEF FreshSince
  <2> QED BY <2>1, <2>2 DEF FreshSince
<1> QED BY <1>1, <1>5, FreshFrame DEF Era

LEMMA ResumeFresh ==
  ASSUME IInv, FreshInv, NEW c \in Caller, Resume(c)  PROVE FreshInv'
<1> DEFINE e == waitingOn[c]
<1>1. UNCHANGED <<era, cached>> /\ pc[c] = "waiting" /\ e \in Exch
  BY DEF Resume, IInv, TypeOK, CallerInv
<1>2. \A d \in Exch : stage'[d] \in {"minted", "resolved", "answered"} =>
        stage'[d] = stage[d] /\ minted'[d] = minted[d]
  BY <1>1 DEF Resume, IInv, TypeOK
<1>3. \A n \in Era : FreshSince(n) => FreshSince(n)'
  BY <1>1, <1>2 DEF FreshSince
<1>4. \A d \in Caller \ {c} :
        pc'[d] = pc[d] /\ token'[d] = token[d] /\ refusedAt'[d] = refusedAt[d] /\ raced'[d] = raced[d]
  BY DEF Resume, IInv, TypeOK
<1>5. \/ /\ stage[e] = "answered" /\ token'[c].era = minted[e].era
         /\ refusedAt'[c] = refusedAt[c] /\ raced'[c] = raced[c]
      \/ refusedAt'[c] = Null
  BY DEF Resume, IInv, TypeOK
<1>6. ASSUME NEW d \in Caller \ {c}, Retries(d)'
      PROVE  /\ refusedAt'[d] <= era' /\ FreshSince(refusedAt[d])'
             /\ pc'[d] = "holding" => token'[d].era >= refusedAt'[d]
  <2>1. Retries(d) /\ refusedAt[d] \in Era
    BY <1>4, <1>6 DEF Retries, IInv, TypeOK
  <2> QED BY <1>1, <1>3, <1>4, <2>1 DEF FreshInv
<1>7. ASSUME Retries(c)'
      PROVE  /\ refusedAt'[c] <= era' /\ FreshSince(refusedAt[c])'
             /\ pc'[c] = "holding" => token'[c].era >= refusedAt'[c]
  <2>1. Retries(c) /\ refusedAt[c] \in Era /\ refusedAt'[c] = refusedAt[c]
    BY <1>5, <1>7 DEF Retries, IInv, TypeOK
  <2>2. stage[e] = "answered" /\ token'[c].era = minted[e].era
    BY <1>5, <1>7 DEF Retries
  <2>3. minted[e].era >= refusedAt[c]
    BY <1>1, <2>1, <2>2 DEF FreshInv, FreshSince
  <2> QED BY <1>1, <1>3, <2>1, <2>2, <2>3 DEF FreshInv
<1>8. \A d \in Caller : Retries(d)' => refusedAt'[d] = refusedAt[d]
  BY <1>4, <1>5 DEF Retries
<1> QED BY <1>6, <1>7, <1>8 DEF FreshInv, FreshSince

\* The heart of it: between turns of the event loop, with no exchange out at the
\* refusal, the only token in reach was the cached one, which invalidate drops.
LEMMA RefusedFresh ==
  ASSUME IInv, FreshInv, NEW c \in Caller, Refused(c)  PROVE FreshInv'
<1>1. UNCHANGED <<era, inFlight, stage, minted>> /\ cached' = Null
  BY DEF Refused, invalidate
<1>2. \A d \in Caller \ {c} :
        pc'[d] = pc[d] /\ token'[d] = token[d] /\ refusedAt'[d] = refusedAt[d] /\ raced'[d] = raced[d]
  BY DEF Refused, IInv, TypeOK
<1>3. pc'[c] = "idle" /\ refusedAt'[c] = era /\ (~raced'[c] => inFlight = Null)
  BY DEF Refused, IInv, TypeOK
<1>4. \A n \in Era : FreshSince(n) => FreshSince(n)'
  BY <1>1 DEF FreshSince
<1>5. inFlight = Null => FreshSince(era)'
  <2> SUFFICES ASSUME inFlight = Null, NEW e \in Exch,
                      stage[e] \in {"minted", "resolved", "answered"} PROVE FALSE
    BY <1>1 DEF FreshSince
  <2>1. stage[e] \in {"free", "asked", "minted"}
    BY DEF Refused, PromisesRun
  <2>2. Live(e)
    BY <2>1 DEF Live
  <2> QED BY <2>2, TokenAssumption DEF IInv, SharedInv
<1>6. ASSUME NEW d \in Caller, Retries(d)'
      PROVE  /\ refusedAt'[d] <= era' /\ FreshSince(refusedAt[d])'
             /\ pc'[d] = "holding" => token'[d].era >= refusedAt'[d]
  <2>1. CASE d = c
    <3>1. FreshSince(era)'
      BY <1>3, <1>5, <1>6, <2>1 DEF Retries
    <3>2. FreshSince(refusedAt[d])'
      BY <1>1, <1>3, <2>1, <3>1 DEF FreshSince
    <3> QED BY <1>1, <1>3, <2>1, <3>2 DEF IInv, TypeOK, Era
  <2>2. CASE d # c
    BY <1>1, <1>2, <1>4, <1>6, <2>2 DEF FreshInv, Retries, FreshSince, IInv, TypeOK
  <2> QED BY <2>1, <2>2
<1> QED BY <1>6 DEF FreshInv, FreshSince

LEMMA FinishFresh ==
  ASSUME IInv, FreshInv, NEW c \in Caller, Finish(c)  PROVE FreshInv'
<1>1. UNCHANGED <<era, cached, stage, minted>>
  BY DEF Finish, exchange
<1>2. \A n \in Era : FreshSince(n) => FreshSince(n)'
  BY <1>1 DEF FreshSince
<1> QED BY <1>1, <1>2 DEF Finish, FreshInv, FreshSince, Retries, IInv, TypeOK

LEMMA NextFresh == IInv /\ FreshInv /\ [Next]_vars => FreshInv'
<1> SUFFICES ASSUME IInv, FreshInv, [Next]_vars PROVE FreshInv'
  OBVIOUS
<1>1. CASE Tick
  BY <1>1, TickFresh
<1>2. CASE NewEra
  <2>1. era' \in Era /\ era' >= era /\ UNCHANGED <<cached, stage, minted, pc, token, refusedAt, raced>>
    BY <1>2, TokenAssumption DEF NewEra, exchange, caller, IInv, TypeOK, Era
  <2> QED BY <2>1, FreshFrame DEF FreshSince
<1>3. ASSUME NEW e \in Exch, Exchange(e) \/ Fails(e)  PROVE FreshInv'
  BY <1>3, ExchangeFresh
<1>4. ASSUME NEW c \in Caller, Work(c)  PROVE FreshInv'
  BY <1>4, AskFresh, ResumeFresh, FinishFresh, RefusedFresh DEF Work
<1>5. CASE UNCHANGED vars
  <2>1. era' \in Era /\ era' >= era /\ UNCHANGED <<cached, stage, minted, pc, token, refusedAt, raced>>
    BY <1>5 DEF vars, exchange, caller, IInv, TypeOK, Era
  <2> QED BY <2>1, FreshFrame DEF FreshSince
<1> QED BY <1>1, <1>2, <1>3, <1>4, <1>5 DEF Next

\* The retry after a 401 carries no token minted before it, unless an exchange
\* was out at that moment ("calls this and retries once", invalidate).
THEOREM TheRetryIsFresh == Spec => []RetryIsFresh
<1>1. Init => FreshInv
  BY DEF Init, FreshInv, Retries
<1>2. IInv /\ FreshInv /\ [Next]_vars => FreshInv'
  BY NextFresh
<1>3. FreshInv => RetryIsFresh
  BY DEF FreshInv, Retries, RetryIsFresh
<1> QED BY <1>1, <1>2, <1>3, Invariance, PTL DEF Spec

-----------------------------------------------------------------------------
(* What a waiting caller waits for (the safety half of TokenAgain)           *)

\* The shared exchange has its finally() still ahead; whoever waits, waits for it
\* or for one that has settled; and no exchange outlives the callers it is for.
NobodyIsForgotten ==
  /\ inFlight # Null => Live(inFlight)
  /\ \A c \in Caller : pc[c] = "waiting" =>
       waitingOn[c] = inFlight \/ stage[waitingOn[c]] \in {"answered", "failed"}
  /\ \A e \in Exch : stage[e] # "free" => \E c \in Caller : pc[c] = "waiting" /\ waitingOn[c] = e

\* An exchange is in memory exactly as long as a caller is to resume from it.
WaitInv ==
  /\ inFlight # Null => Live(inFlight)
  /\ \A c \in Caller : waitingOn[c] # Null <=> pc[c] = "waiting"
  /\ \A c \in Caller : waitingOn[c] # Null => stage[waitingOn[c]] # "free"
  /\ \A e \in Exch : stage[e] # "free" => \E c \in Caller : waitingOn[c] = e

\* A step that leaves the callers alone, and what is live or free as it was.
LEMMA KeepsWait ==
  ASSUME IInv, WaitInv, UNCHANGED <<inFlight, pc, waitingOn>>,
         \A e \in Exch : Live(e) <=> Live(e)',
         \A e \in Exch : stage[e] = "free" <=> stage'[e] = "free"
  PROVE  WaitInv'
BY DEF WaitInv, IInv, TypeOK

LEMMA AskWait ==
  ASSUME IInv, WaitInv, NEW c \in Caller, getAccessToken(c)  PROVE WaitInv'
<1>1. pc[c] = "idle" /\ waitingOn[c] = Null
  BY DEF getAccessToken, WaitInv, IInv, TypeOK
<1>2. CASE FromCache(c)
  BY <1>1, <1>2 DEF FromCache, exchange, WaitInv, Live, IInv, TypeOK
<1>3. CASE Join(c)
  <2>1. inFlight \in Exch /\ Live(inFlight) /\ inFlight # Null
    BY <1>3 DEF Join, WaitInv, IInv, TypeOK
  <2>2. UNCHANGED <<inFlight, stage>> /\ pc'[c] = "waiting" /\ waitingOn'[c] = inFlight
    BY <1>3 DEF Join, Await, exchange, IInv, TypeOK
  <2>3. \A d \in Caller \ {c} : pc'[d] = pc[d] /\ waitingOn'[d] = waitingOn[d]
    BY <1>3 DEF Join, Await, IInv, TypeOK
  <2> QED BY <1>1, <2>1, <2>2, <2>3, TokenAssumption DEF WaitInv, Live
<1>4. CASE StartExchange(c)
  <2>1. PICK e \in Exch :
          /\ stage[e] = "free"
          /\ inFlight' = e
          /\ stage' = [stage EXCEPT ![e] = IF configured THEN "asked" ELSE "rejected"]
          /\ Await(c, e)
    BY <1>4 DEF StartExchange
  <2>2. Live(e)' /\ e # Null /\ stage'[e] # "free" /\ \A d \in Exch \ {e} : stage'[d] = stage[d]
    BY <2>1, TokenAssumption DEF Live, IInv, TypeOK
  <2>3. \A d \in Caller \ {c} : pc'[d] = pc[d] /\ waitingOn'[d] = waitingOn[d]
    BY <2>1 DEF Await, IInv, TypeOK
  <2>4. pc'[c] = "waiting" /\ waitingOn'[c] = e
    BY <2>1 DEF Await, IInv, TypeOK
  <2> QED BY <1>1, <2>1, <2>2, <2>3, <2>4, TokenAssumption DEF WaitInv
<1> QED BY <1>2, <1>3, <1>4 DEF getAccessToken

\* finally() clears the field of the exchange that settles, and no other's.
LEMMA ExchangeWait ==
  ASSUME IInv, WaitInv, NEW e \in Exch, Exchange(e) \/ Fails(e)  PROVE WaitInv'
<1>1. CASE Mint(e) \/ Responds(e) \/ Fails(e)
  <2>1. UNCHANGED <<inFlight, pc, waitingOn>>
    BY <1>1 DEF Mint, Responds, Fails, caller
  <2>2. stage[e] \in {"asked", "minted"} /\ stage'[e] \in {"minted", "resolved", "rejected"}
    BY <1>1 DEF Mint, Responds, Fails, Throw, Settle, Outstanding, IInv, TypeOK
  <2>3. \A d \in Exch \ {e} : stage'[d] = stage[d]
    BY <1>1 DEF Mint, Responds, Fails, Throw, Settle, IInv, TypeOK
  <2>4. \A d \in Exch : (Live(d) <=> Live(d)') /\ (stage[d] = "free" <=> stage'[d] = "free")
    BY <2>2, <2>3 DEF Live
  <2> QED BY <2>1, <2>4, KeepsWait
<1>2. CASE Finally(e)
  <2>1. inFlight' = Null /\ UNCHANGED <<pc, waitingOn>>
    BY <1>2 DEF Finally, ClearInFlight, caller
  <2>2. stage[e] # "free" /\ stage'[e] # "free" /\ \A d \in Exch \ {e} : stage'[d] = stage[d]
    BY <1>2 DEF Finally, IInv, TypeOK
  <2> QED BY <2>1, <2>2 DEF WaitInv, IInv, TypeOK
<1> QED BY <1>1, <1>2 DEF Exchange

\* The last caller to resume, and no earlier one, lets the exchange go.
LEMMA ResumeWait ==
  ASSUME IInv, WaitInv, NEW c \in Caller, Resume(c)  PROVE WaitInv'
<1> DEFINE e == waitingOn[c]
<1>1. e \in Exch /\ e # Null /\ stage[e] \in {"answered", "failed"} /\ inFlight' = inFlight
  BY TokenAssumption DEF Resume, WaitInv, IInv, TypeOK
<1>2. pc'[c] # "waiting" /\ waitingOn'[c] = Null
  BY DEF Resume, IInv, TypeOK
<1>3. \A d \in Caller \ {c} : pc'[d] = pc[d] /\ waitingOn'[d] = waitingOn[d]
  BY DEF Resume, IInv, TypeOK
<1>4. \A d \in Exch \ {e} : stage'[d] = stage[d]
  BY <1>1 DEF Resume, IInv, TypeOK
<1>5. CASE \A d \in Caller \ {c} : waitingOn[d] # e
  <2>1. stage'[e] = "free"
    BY <1>1, <1>5 DEF Resume, IInv, TypeOK
  <2> QED BY <1>1, <1>2, <1>3, <1>4, <1>5, <2>1 DEF WaitInv, Live, IInv, TypeOK
<1>6. ASSUME NEW d \in Caller \ {c}, waitingOn[d] = e  PROVE WaitInv'
  <2>1. stage' = stage
    BY <1>6 DEF Resume
  <2> QED BY <1>1, <1>2, <1>3, <1>6, <2>1 DEF WaitInv, Live, IInv, TypeOK
<1> QED BY <1>5, <1>6

LEMMA NextWait == IInv /\ WaitInv /\ [Next]_vars => WaitInv'
<1> SUFFICES ASSUME IInv, WaitInv, [Next]_vars PROVE WaitInv'
  OBVIOUS
<1>1. CASE Tick \/ NewEra \/ UNCHANGED vars
  BY <1>1, KeepsWait DEF Tick, NewEra, vars, exchange, caller, Live
<1>2. ASSUME NEW e \in Exch, Exchange(e) \/ Fails(e)  PROVE WaitInv'
  BY <1>2, ExchangeWait
<1>3. ASSUME NEW c \in Caller, Finish(c) \/ Refused(c)  PROVE WaitInv'
  <2>1. UNCHANGED <<inFlight, stage, waitingOn>> /\ pc[c] = "holding" /\ pc' = [pc EXCEPT ![c] = "idle"]
    BY <1>3 DEF Finish, Refused, invalidate, exchange
  <2> QED BY <2>1 DEF WaitInv, Live, IInv, TypeOK
<1>4. ASSUME NEW c \in Caller, Work(c)  PROVE WaitInv'
  BY <1>3, <1>4, AskWait, ResumeWait DEF Work
<1> QED BY <1>1, <1>2, <1>4 DEF Next

\* Whatever fails, is refused or is invalidated, a caller that waits has an answer
\* or the shared exchange ahead of it, and what getAccessToken remembers as in
\* flight is still to run its finally(): no settled promise is ever joined.
THEOREM EveryWaiterIsServed == Spec => []NobodyIsForgotten
<1>1. Init => WaitInv
  BY DEF Init, WaitInv
<1>2. IInv /\ WaitInv => NobodyIsForgotten
  <2> SUFFICES ASSUME IInv, WaitInv PROVE NobodyIsForgotten
    OBVIOUS
  <2>1. \A c \in Caller : pc[c] = "waiting" =>
          waitingOn[c] = inFlight \/ stage[waitingOn[c]] \in {"answered", "failed"}
    BY DEF IInv, TypeOK, SharedInv, CallerInv, WaitInv, Live, Stage
  <2> QED BY <2>1, TokenAssumption DEF WaitInv, NobodyIsForgotten
<1> QED BY <1>1, <1>2, NextWait, Invariance, PTL DEF Spec
=============================================================================
