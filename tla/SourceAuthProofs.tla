-------------------------- MODULE SourceAuthProofs --------------------------
(* What holds of SourceAuth for all values of its constants.                *)
EXTENDS SourceAuth, TLAPS

\* A call takes its time from 0, and a credential its end from the backend.
Clocks ==
  /\ pc \notin Calling => age = 0
  /\ token <= life
  /\ pc = "issued" => fresh >= Lease - age
  /\ kind = "client" => deadline = 0

\* What is left of a credential when all went well: the time to the next
\* Auth, as late and as slow as it may be.
InTime ==
  healthy =>
    /\ pc # "failed"
    /\ pc = "waiting" => token > due + MaxLag + MaxCall
    /\ pc \in Calling => token > MaxCall - age

\* The next Auth comes before the expiry or, after it, soon.
Scheduled == pc = "waiting" => due <= expiry \/ due <= ExpiredRetryInterval

\* How long an outage has lasted, at each stage of its end.
Stages ==
  CanLogin /\ up /\ ~revoked /\ token = 0 =>
    /\ pc = "waiting" => gap + due <= MaxCall + ExpiredRetryInterval
    /\ pc \in {"renew", "lookup", "renewed", "refresh"} => gap <= age
    /\ pc \in {"login", "issued"} =>
         gap <= MaxCall + ExpiredRetryInterval + MaxLag + age

IInv ==
  /\ TypeOK /\ Clocks /\ BelievedExpiryIsReal /\ InTime
  /\ Scheduled /\ Stages /\ OutageBounded

-----------------------------------------------------------------------------
LEMMA HalfBounds ==
  ASSUME NEW e \in Nat
  PROVE  e \div 2 \in Nat /\ 2 * (e \div 2) <= e /\ e <= 2 * (e \div 2) + 1
  OBVIOUS

\* What CalcNextAuth asks for.
LEMMA NextAuthBounds ==
  ASSUME NEW e \in Nat
  PROVE  /\ NextAuth(e) \in Nat
         /\ NextAuth(e) <= e \/ NextAuth(e) = ExpiredRetryInterval
         /\ e = 0 => NextAuth(e) = ExpiredRetryInterval
         /\ Sufficient(e) => e > NextAuth(e) + MaxLag + MaxCall
  <1> USE AuthAssumption
  <1> DEFINE half == e \div 2
  <1>1. half \in Nat /\ 2 * half <= e /\ e <= 2 * half + 1
    BY HalfBounds
  <1>2. NextAuth(e) = LET i == IF half < MinAuthInterval THEN MinAuthInterval ELSE half
                      IN  IF i > e THEN ExpiredRetryInterval ELSE i
    BY DEF NextAuth
  <1> HIDE DEF half
  <1> QED  BY <1>1, <1>2 DEF Sufficient

\* What is left of a time after some of it passed.
LEMMA SubBounds ==
  ASSUME NEW t \in Nat, NEW d \in Nat
  PROVE  /\ Sub(t, d) \in Nat /\ Sub(t, d) <= t
         /\ Sub(t, d) >= t - d
         /\ t > d => Sub(t, d) = t - d
         /\ t <= d => Sub(t, d) = 0
  BY DEF Sub

LEMMA InitIInv == Init => IInv
  <1> SUFFICES ASSUME Init PROVE IInv
    OBVIOUS
  <1> USE AuthAssumption DEF Init
  <1>1. /\ token \in 0 .. Lease /\ life \in 0 .. MaxLife /\ token <= life
        /\ (CanLogin => token = 0)
    BY DEF CanLogin
  <1>2. TypeOK
    <2>1. /\ kind \in Kinds /\ pc \in Calling \union {"waiting", "failed"}
          /\ started \in BOOLEAN /\ up \in BOOLEAN
          /\ revoked \in BOOLEAN /\ healthy \in BOOLEAN
      BY DEF Calling
    <2>2. /\ due \in Int /\ -MaxLag <= due /\ age \in 0 .. MaxCall
          /\ expiry \in 0 .. Lease /\ deadline \in 0 .. Lease
          /\ claim \in 0 .. Lease /\ fresh \in 0 .. Lease /\ gap \in Nat
      BY <1>1
    <2> QED  BY <1>1, <2>1, <2>2 DEF TypeOK
  <1>3. Clocks /\ BelievedExpiryIsReal /\ InTime
    BY <1>1 DEF Clocks, BelievedExpiryIsReal, InTime, Calling
  <1>4. Scheduled /\ Stages /\ OutageBounded
    BY <1>1 DEF Scheduled, Stages, OutageBounded, CanLogin, Calling
  <1> QED  BY <1>2, <1>3, <1>4 DEF IInv

LEMMA BeginStep ==
  ASSUME IInv, Begin PROVE IInv'
  <1> USE AuthAssumption DEF IInv, Begin, source, backend, history
  <1>1. Call \in {"renew", "refresh", "login"}
    BY DEF Call
  <1>2. TypeOK'
    BY <1>1 DEF TypeOK, Calling
  <1>3. Clocks'
    BY <1>1 DEF Clocks, Calling
  <1>4. BelievedExpiryIsReal'
    BY <1>1 DEF BelievedExpiryIsReal
  <1>5. InTime'
    BY <1>1 DEF InTime, TypeOK, Clocks, Calling
  <1>6. Scheduled'
    BY <1>1 DEF Scheduled
  <1>7. Stages'
    <2> SUFFICES ASSUME CanLogin, up, ~revoked, token = 0
                 PROVE  Stages'
      BY DEF Stages, CanLogin
    <2>1. pc' = "login"
      BY DEF BelievedExpiryIsReal, TypeOK, Call, ShouldRefresh, CanLogin
    <2>2. gap <= MaxCall + ExpiredRetryInterval + MaxLag /\ age = 0
      BY DEF Stages, TypeOK, Clocks, Calling
    <2> QED  BY <2>1, <2>2 DEF Stages, TypeOK
  <1>8. OutageBounded'
    BY DEF OutageBounded
  <1> QED  BY <1>2, <1>3, <1>4, <1>5, <1>6, <1>7, <1>8

LEMMA RenewedStep ==
  ASSUME IInv, Renewed PROVE IInv'
  <1> USE AuthAssumption DEF IInv, Renewed, source, backend, history
  <1>1. /\ token' \in 0 .. Lease /\ token' >= token /\ token' <= life
        /\ life \in 0 .. MaxLife /\ token \in 0 .. Lease
    BY DEF TypeOK, Clocks
  <1>2. TypeOK'
    BY <1>1 DEF TypeOK, Calling
  <1>3. Clocks'
    BY <1>1 DEF Clocks, Calling, TypeOK
  <1>4. BelievedExpiryIsReal'
    BY <1>1 DEF BelievedExpiryIsReal, TypeOK
  <1>5. InTime'
    BY <1>1 DEF InTime, TypeOK, Calling
  <1>6. Scheduled'
    BY DEF Scheduled, TypeOK
  <1>7. Stages'
    BY <1>1 DEF Stages, TypeOK, Calling, CanLogin, BelievedExpiryIsReal
  <1>8. OutageBounded'
    BY DEF OutageBounded
  <1> QED  BY <1>2, <1>3, <1>4, <1>5, <1>6, <1>7, <1>8

LEMMA LookedUpStep ==
  ASSUME IInv, LookedUp PROVE IInv'
  <1> USE AuthAssumption DEF IInv, LookedUp, source, backend, history
  <1>1. age \in Nat /\ token \in Nat /\ Sub(token, age) \in Nat /\ Sub(token, age) <= token
    BY SubBounds DEF TypeOK
  <1>2. TypeOK'
    BY <1>1 DEF TypeOK, Calling
  <1>3. Clocks'
    BY <1>1 DEF Clocks, Calling, TypeOK
  <1>4. BelievedExpiryIsReal'
    BY <1>1 DEF BelievedExpiryIsReal, TypeOK
  <1>5. InTime'
    BY <1>1 DEF InTime, TypeOK, Calling
  <1>6. Scheduled'
    BY <1>1 DEF Scheduled, TypeOK
  <1>7. Stages'
    BY <1>1 DEF Stages, TypeOK, Calling, CanLogin, BelievedExpiryIsReal
  <1>8. OutageBounded'
    BY <1>1 DEF OutageBounded
  <1> QED  BY <1>2, <1>3, <1>4, <1>5, <1>6, <1>7, <1>8

LEMMA IssuedStep ==
  ASSUME IInv, Issued PROVE IInv'
  <1> USE AuthAssumption DEF IInv, Issued, source, backend, history
  <1>1. age \in Nat /\ Sub(Lease, age) \in Nat /\ Sub(Lease, age) <= Lease
    BY SubBounds DEF TypeOK
  <1>2. TypeOK'
    BY <1>1 DEF TypeOK, Calling
  <1>3. Clocks'
    BY <1>1 DEF Clocks, Calling, TypeOK
  <1>4. BelievedExpiryIsReal'
    BY <1>1 DEF BelievedExpiryIsReal, TypeOK
  <1>5. InTime'
    BY <1>1 DEF InTime, TypeOK, Calling
  <1>6. Scheduled'
    BY <1>1 DEF Scheduled, TypeOK
  <1>7. Stages'
    BY <1>1 DEF Stages, TypeOK, Calling, CanLogin, BelievedExpiryIsReal
  <1>8. OutageBounded'
    BY <1>1 DEF OutageBounded
  <1> QED  BY <1>2, <1>3, <1>4, <1>5, <1>6, <1>7, <1>8

LEMMA ReturnRenewedStep ==
  ASSUME IInv, ReturnRenewed PROVE IInv'
  <1> USE AuthAssumption DEF IInv, ReturnRenewed, Recorded
  <1>1. /\ NextAuth(claim) \in Nat
        /\ NextAuth(claim) <= claim \/ NextAuth(claim) = ExpiredRetryInterval
        /\ claim = 0 => NextAuth(claim) = ExpiredRetryInterval
        /\ Sufficient(claim) => claim > NextAuth(claim) + MaxLag + MaxCall
    BY NextAuthBounds DEF TypeOK
  <1>2. TypeOK'
    BY <1>1 DEF TypeOK, Calling
  <1>3. Clocks'
    BY <1>1 DEF Clocks, Calling, TypeOK
  <1>4. BelievedExpiryIsReal'
    BY <1>1 DEF BelievedExpiryIsReal, TypeOK, Clocks
  <1>5. InTime'
    <2> SUFFICES ASSUME healthy' PROVE InTime'
      BY DEF InTime
    <2>1. Sufficient(claim) /\ (pc = "issued" \/ ~revoked)
      BY ZenonT(30) DEF Recorded
    <2>2. token' >= claim
      BY <2>1 DEF BelievedExpiryIsReal, TypeOK
    <2>3. claim > NextAuth(claim) + MaxLag + MaxCall
      BY <1>1, <2>1
    <2> QED  BY <1>1, <2>2, <2>3 DEF InTime, TypeOK, Calling
  <1>6. Scheduled'
    BY <1>1 DEF Scheduled, TypeOK
  <1>7. Stages'
    BY <1>1 DEF Stages, TypeOK, Calling, CanLogin, BelievedExpiryIsReal, Clocks
  <1>8. OutageBounded'
    BY <1>1 DEF OutageBounded, TypeOK
  <1> QED  BY <1>2, <1>3, <1>4, <1>5, <1>6, <1>7, <1>8

LEMMA ReturnIssuedStep ==
  ASSUME IInv, ReturnIssued PROVE IInv'
  <1> USE AuthAssumption DEF IInv, ReturnIssued, Recorded
  <1>1. /\ NextAuth(claim) \in Nat
        /\ NextAuth(claim) <= claim \/ NextAuth(claim) = ExpiredRetryInterval
        /\ claim = 0 => NextAuth(claim) = ExpiredRetryInterval
        /\ Sufficient(claim) => claim > NextAuth(claim) + MaxLag + MaxCall
    BY NextAuthBounds DEF TypeOK
  <1>. /\ fresh \in Nat /\ fresh > 0 /\ fresh >= claim /\ fresh <= Lease
       /\ token' = fresh /\ life' >= fresh /\ life' \in 0 .. MaxLife
    BY DEF TypeOK, Clocks, BelievedExpiryIsReal
  <1>2. TypeOK'
    <2>1. /\ kind' \in Kinds /\ pc' \in Calling \union {"waiting", "failed"}
          /\ started' \in BOOLEAN /\ up' \in BOOLEAN
          /\ revoked' \in BOOLEAN /\ healthy' \in BOOLEAN
      BY DEF TypeOK, Calling
    <2>2. /\ due' \in Int /\ -MaxLag <= due' /\ age' \in 0 .. MaxCall
          /\ expiry' \in 0 .. Lease /\ deadline' \in 0 .. Lease
          /\ claim' \in 0 .. Lease /\ fresh' \in 0 .. Lease /\ gap' \in Nat
      BY <1>1 DEF TypeOK
    <2>3. token' \in 0 .. Lease /\ life' \in 0 .. MaxLife
      BY <1>1 DEF TypeOK
    <2> QED  BY <2>1, <2>2, <2>3 DEF TypeOK
  <1>3. Clocks'
    BY <1>1 DEF Clocks, Calling, TypeOK
  <1>4. BelievedExpiryIsReal'
    BY <1>1 DEF BelievedExpiryIsReal, TypeOK, Clocks
  <1>5. InTime'
    <2> SUFFICES ASSUME healthy' PROVE InTime'
      BY DEF InTime
    <2>1. Sufficient(claim)
      BY ZenonT(30) DEF Recorded
    <2>2. token' >= claim
      BY <2>1 DEF BelievedExpiryIsReal, TypeOK
    <2>3. claim > NextAuth(claim) + MaxLag + MaxCall
      BY <1>1, <2>1
    <2> QED  BY <1>1, <2>2, <2>3 DEF InTime, TypeOK, Calling
  <1>6. Scheduled'
    BY <1>1 DEF Scheduled, TypeOK
  <1>7. Stages'
    BY <1>1 DEF Stages, TypeOK, Calling, CanLogin, BelievedExpiryIsReal, Clocks
  <1>8. OutageBounded'
    BY <1>1 DEF OutageBounded, TypeOK
  <1> QED  BY <1>2, <1>3, <1>4, <1>5, <1>6, <1>7, <1>8

LEMMA FailStep ==
  ASSUME IInv, Fail PROVE IInv'
  <1> USE AuthAssumption DEF IInv, Fail
  <1>1. /\ NextAuth(expiry) \in Nat
        /\ NextAuth(expiry) <= expiry \/ NextAuth(expiry) = ExpiredRetryInterval
        /\ expiry = 0 => NextAuth(expiry) = ExpiredRetryInterval
        /\ Sufficient(expiry) => expiry > NextAuth(expiry) + MaxLag + MaxCall
    BY NextAuthBounds DEF TypeOK
  <1>2. TypeOK'
    <2>1. /\ kind' \in Kinds /\ pc' \in Calling \union {"waiting", "failed"}
          /\ started' \in BOOLEAN /\ up' \in BOOLEAN
          /\ revoked' \in BOOLEAN /\ healthy' \in BOOLEAN
      BY DEF TypeOK, Calling
    <2>2. /\ due' \in Int /\ -MaxLag <= due' /\ age' \in 0 .. MaxCall
          /\ expiry' \in 0 .. Lease /\ deadline' \in 0 .. Lease
          /\ claim' \in 0 .. Lease /\ fresh' \in 0 .. Lease /\ gap' \in Nat
      BY <1>1 DEF TypeOK
    <2>3. token' \in 0 .. Lease /\ life' \in 0 .. MaxLife
      BY <1>1 DEF TypeOK
    <2> QED  BY <2>1, <2>2, <2>3 DEF TypeOK
  <1>3. Clocks'
    BY <1>1 DEF Clocks, Calling, TypeOK
  <1>4. BelievedExpiryIsReal'
    BY <1>1 DEF BelievedExpiryIsReal, TypeOK, Clocks
  <1>5. InTime'
    BY <1>1 DEF InTime, TypeOK, Calling, BelievedExpiryIsReal
  <1>6. Scheduled'
    BY <1>1 DEF Scheduled, TypeOK
  <1>7. Stages'
    <2> SUFFICES ASSUME CanLogin, up, ~revoked, token = 0
                 PROVE  gap + due' <= MaxCall + ExpiredRetryInterval
      BY DEF Stages, CanLogin, Calling
    <2>1. expiry = 0 /\ due' = ExpiredRetryInterval
      BY <1>1 DEF BelievedExpiryIsReal, TypeOK
    <2>2. pc \in {"renew", "lookup", "refresh"} /\ gap <= age
      BY DEF Stages, Refused, Calling, CanLogin
    <2> QED  BY <2>1, <2>2 DEF TypeOK
  <1>8. OutageBounded'
    BY <1>1 DEF OutageBounded, TypeOK
  <1> QED  BY <1>2, <1>3, <1>4, <1>5, <1>6, <1>7, <1>8

LEMMA GoesOrComesStep ==
  ASSUME IInv, GoesOrComes PROVE IInv'
  <1> USE AuthAssumption DEF IInv, GoesOrComes, source
  <1>2. TypeOK'
    BY DEF TypeOK, Calling
  <1>3. Clocks'
    BY DEF Clocks, Calling, TypeOK
  <1>4. BelievedExpiryIsReal'
    BY DEF BelievedExpiryIsReal, TypeOK, Clocks
  <1>5. InTime'
    BY DEF InTime, TypeOK, Calling, BelievedExpiryIsReal
  <1>6. Scheduled'
    BY DEF Scheduled, TypeOK
  <1>7. Stages'
    <2> SUFFICES ASSUME ~revoked, token = 0
                 PROVE  /\ pc = "waiting" => due <= MaxCall + ExpiredRetryInterval
                        /\ gap' <= age
                        /\ gap' <= MaxCall + ExpiredRetryInterval + MaxLag + age
      BY DEF Stages, CanLogin, TypeOK
    <2> QED  BY DEF Scheduled, BelievedExpiryIsReal, TypeOK
  <1>8. OutageBounded'
    BY DEF OutageBounded, TypeOK
  <1> QED  BY <1>2, <1>3, <1>4, <1>5, <1>6, <1>7, <1>8

LEMMA RevokeStep ==
  ASSUME IInv, Revoke PROVE IInv'
  <1> USE AuthAssumption DEF IInv, Revoke, source
  <1>2. TypeOK'
    <2>1. /\ kind' \in Kinds /\ pc' \in Calling \union {"waiting", "failed"}
          /\ started' \in BOOLEAN /\ up' \in BOOLEAN
          /\ revoked' \in BOOLEAN /\ healthy' \in BOOLEAN
      BY DEF TypeOK, Calling
    <2>2. /\ due' \in Int /\ -MaxLag <= due' /\ age' \in 0 .. MaxCall
          /\ expiry' \in 0 .. Lease /\ deadline' \in 0 .. Lease
          /\ claim' \in 0 .. Lease /\ fresh' \in 0 .. Lease /\ gap' \in Nat
      BY DEF TypeOK
    <2>3. token' \in 0 .. Lease /\ life' \in 0 .. MaxLife
      BY DEF TypeOK
    <2> QED  BY <2>1, <2>2, <2>3 DEF TypeOK
  <1>3. Clocks'
    BY DEF Clocks, Calling, TypeOK
  <1>4. BelievedExpiryIsReal'
    BY DEF BelievedExpiryIsReal, TypeOK, Clocks
  <1>5. InTime'
    BY DEF InTime, TypeOK, Calling, BelievedExpiryIsReal
  <1>6. Scheduled'
    BY DEF Scheduled, TypeOK
  <1>7. Stages'
    BY DEF Stages, TypeOK, Calling, CanLogin, BelievedExpiryIsReal, Clocks
  <1>8. OutageBounded'
    BY DEF OutageBounded, TypeOK
  <1> QED  BY <1>2, <1>3, <1>4, <1>5, <1>6, <1>7, <1>8

LEMMA TickStep ==
  ASSUME IInv, Tick PROVE IInv'
  <1> USE AuthAssumption DEF IInv, Tick
  <1> DEFINE Passes(t, u) == /\ u \in Nat /\ u <= t /\ u >= t - 1
                            /\ (t > 0 => u = t - 1) /\ (t = 0 => u = 0)
  <1>1. /\ Passes(expiry, expiry') /\ Passes(deadline, deadline')
        /\ Passes(claim, claim') /\ Passes(fresh, fresh')
        /\ Passes(token, token') /\ Passes(life, life')
    BY DEF Tick, Sooner, Sub, TypeOK
  <1>2. TypeOK'
    BY <1>1 DEF TypeOK, Calling
  <1>3. Clocks'
    BY <1>1 DEF Clocks, Calling, TypeOK
  <1>4. BelievedExpiryIsReal'
    BY <1>1 DEF BelievedExpiryIsReal, TypeOK, Clocks
  <1>5. InTime'
    BY <1>1 DEF InTime, TypeOK, Calling, BelievedExpiryIsReal
  <1>6. Scheduled'
    BY <1>1 DEF Scheduled, TypeOK
  <1>7. Stages'
    <2> SUFFICES ASSUME CanLogin, up, ~revoked, token' = 0, pc # "failed"
                 PROVE  Stages'
      BY DEF Stages, CanLogin, Calling
    <2>1. CASE token = 0
      <3>1. gap' = gap + 1
        BY <2>1
      <3> QED  BY <1>1, <2>1, <3>1 DEF Stages, TypeOK, Calling, CanLogin
    <2>2. CASE token > 0
      <3>1. gap' = 0
        BY <2>2
      <3>2. pc = "waiting" => due' <= MaxCall + ExpiredRetryInterval
        BY <1>1 DEF Scheduled, BelievedExpiryIsReal, TypeOK
      <3>3. age' \in Nat
        BY DEF TypeOK
      <3> QED  BY <3>1, <3>2, <3>3 DEF Stages, CanLogin, TypeOK
    <2> QED  BY <2>1, <2>2 DEF TypeOK
  <1>8. OutageBounded'
    <2> SUFFICES ASSUME CanLogin, up, token = 0, ~revoked, pc # "failed"
                 PROVE  gap + 1 <= ExpiredRetryInterval + MaxLag + 2 * MaxCall
      BY DEF OutageBounded, TypeOK
    <2>1. CASE pc = "waiting"
      BY <2>1 DEF Stages, TypeOK
    <2>2. CASE pc \in Calling
      BY <2>2 DEF Stages, TypeOK, Calling
    <2> QED  BY <2>1, <2>2 DEF TypeOK
  <1> QED  BY <1>2, <1>3, <1>4, <1>5, <1>6, <1>7, <1>8

LEMMA NextIInv == IInv /\ [Next]_vars => IInv'
  <1> SUFFICES ASSUME IInv, [Next]_vars PROVE IInv'
    OBVIOUS
  <1>1. CASE Auth
    BY <1>1, BeginStep, RenewedStep, LookedUpStep, IssuedStep,
       ReturnRenewedStep, ReturnIssuedStep, FailStep DEF Auth
  <1>2. CASE GoesOrComes \/ Revoke \/ Tick
    BY <1>2, GoesOrComesStep, RevokeStep, TickStep
  <1>3. CASE UNCHANGED vars
    BY <1>3 DEF vars, source, backend, history, IInv, TypeOK, Clocks,
       BelievedExpiryIsReal, InTime, Scheduled, Stages, OutageBounded, CanLogin
  <1> QED  BY <1>1, <1>2, <1>3 DEF Next

LEMMA Invariance == Spec => []IInv
  BY InitIInv, NextIInv, PTL DEF Spec

\* Every variable keeps its type: times never fall below what is stated.
THEOREM AuthTyped == Spec => []TypeOK
  <1>1. IInv => TypeOK
    BY DEF IInv
  <1> QED  BY <1>1, Invariance, PTL

\* A source never believes its credential to last longer than it does, unless
\* the backend withdrew it, whatever the TTLs and however slow the calls.
THEOREM BeliefsAreReal == Spec => []BelievedExpiryIsReal
  <1>1. IInv => BelievedExpiryIsReal
    BY DEF IInv
  <1> QED  BY <1>1, Invariance, PTL

\* Halfway to the expiry is soon enough, for every TTL that exceeds the delays
\* as Sufficient says.
THEOREM RenewedInTime == Spec => []ValidWhileHealthy
  <1>1. IInv => ValidWhileHealthy
    BY AuthAssumption DEF IInv, InTime, TypeOK, ValidWhileHealthy, Calling
  <1> QED  BY <1>1, Invariance, PTL

\* An outage ends within ExpiredRetryInterval and the delays once the backend
\* is up, for every way to log in.
THEOREM OutageEnds == Spec => []OutageBounded
  <1>1. IInv => OutageBounded
    BY DEF IInv
  <1> QED  BY <1>1, Invariance, PTL
=============================================================================
