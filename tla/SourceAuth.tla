----------------------------- MODULE SourceAuth -----------------------------
(* How a source keeps the credential of its backend alive: Source.Auth and  *)
(* CalcNextAuth (server/source.go) with the Authenticate of the accessors.  *)
(* A source has one Auth at a time, which ExclusiveRun of TaskQueue shows.   *)
(* Backends that need no credential, or one that lasts for ever, are asked  *)
(* once (LastOfItsChain of TaskQueue) and are not modelled here.            *)
(*                                                                         *)
(* A point in time is kept as the time left until it; 0 has passed.        *)
EXTENDS Integers

CONSTANTS
  Kinds,    \* the ways to authenticate that are considered, of AllKinds
  Lease,    \* how long a credential lasts that was just issued or renewed
  MaxLife,  \* how long one can be renewed after the login
  MinAuthInterval, ExpiredRetryInterval,
  Buffer,   \* the second UAA accessors allow for a refresh to arrive
  MaxLag,   \* how late a task is run, at most
  MaxCall   \* how long Authenticate takes, at most

\* A Vault token, a Vault AppRole, and the two grants of UAA.
AllKinds == {"token", "approle", "client", "password"}

ASSUME AuthAssumption ==
  /\ Kinds \subseteq AllKinds
  /\ Lease \in Nat /\ MaxLife \in Nat /\ Lease <= MaxLife
  /\ MinAuthInterval \in Nat \ {0} /\ ExpiredRetryInterval \in Nat
  /\ Buffer \in Nat /\ MaxLag \in Nat /\ MaxCall \in Nat
  /\ MaxCall < Lease  \* a credential outlives the request for it

VARIABLES
  kind,
  pc,        \* "waiting" for the next Auth, which request of Authenticate is
             \* under way, or "failed": the server did not start
  started,   \* whether the first Auth, of the startup, succeeded
  due,       \* when the next Auth is to run; a late one is below 0
  age,       \* the time since Authenticate was called
  expiry,    \* LastSuccess.StartedAt + authTTL
  deadline,  \* renewalDeadline of the metadata
  claim,     \* what start + TTL will be once Authenticate returns
  token,     \* when the credential of the accessor expires
  life,      \* until when it can be renewed, or its refresh token used
  fresh,     \* when the credential expires that is in the answer
  up,        \* whether the backend answers
  revoked,   \* history: the credential was withdrawn before its time
  healthy,   \* history: nothing failed since a sufficient TTL was granted
  gap        \* history: how long the credential has been expired although
             \* the backend was up

source == <<started, due, age, expiry, deadline, claim>>
backend == <<token, life, fresh, up>>
history == <<revoked, healthy, gap>>
vars == <<kind, pc, source, backend, history>>

Sub(t, d) == IF t > d THEN t - d ELSE 0
Sooner(t) == Sub(t, 1)

\* Faulty variant of NextAuth: at the very expiry.
NextAuthAtExpiry(e) == IF e = 0 THEN ExpiredRetryInterval ELSE e

\* CalcNextAuth right after a run, when the expiry is e.
NextAuth(e) ==
  LET half == e \div 2
      interval == IF half < MinAuthInterval THEN MinAuthInterval ELSE half
  IN  IF interval > e THEN ExpiredRetryInterval ELSE interval

\* Faulty variant of ShouldRefresh: the metadata is taken for the existence
\* of a token.
ShouldRefreshOnceSet == started

ShouldRefresh == deadline > (IF kind = "password" THEN Buffer ELSE 0)

Call ==
  IF kind = "token" \/ (kind = "approle" /\ ShouldRefresh) THEN "renew"
  ELSE IF kind = "password" /\ ShouldRefresh THEN "refresh" ELSE "login"

Calling == {"renew", "lookup", "renewed", "refresh", "login", "issued"}

-----------------------------------------------------------------------------
\* The accessor has just been constructed. Only that of a Vault token has a
\* credential, and knows when it expires.
Init ==
  /\ kind \in Kinds /\ pc = "waiting" /\ started = FALSE
  /\ due = 0 /\ age = 0 /\ expiry = 0 /\ claim = 0 /\ fresh = 0
  /\ token \in IF kind = "token" THEN 0 .. Lease ELSE {0}
  /\ life \in IF kind = "token" THEN token .. MaxLife ELSE {0}
  /\ deadline = token
  /\ up \in BOOLEAN /\ revoked = FALSE /\ healthy = FALSE /\ gap = 0

\* Faulty variant of Begin: an expired credential is given up.
BeginUnexpired ==
  /\ pc = "waiting" /\ due <= 0
  /\ started => expiry > 0
  /\ pc' = Call
  /\ UNCHANGED <<kind, source, backend, history>>

\* Auth, up to the first request of Authenticate.
Begin ==
  /\ pc = "waiting" /\ due <= 0
  /\ pc' = Call
  /\ UNCHANGED <<kind, source, backend, history>>

\* Vault renews a token that has not expired, but not beyond its life.
Renewed ==
  /\ pc = "renew" /\ up /\ token > 0
  /\ pc' = "lookup"
  /\ token' = IF life < Lease THEN life ELSE Lease
  /\ UNCHANGED <<kind, source, life, fresh, up, history>>

\* Faulty variant of LookedUp: the time Authenticate took is added.
LookedUpAdds ==
  /\ pc = "lookup" /\ up /\ token > 0
  /\ pc' = "renewed" /\ claim' = token + age
  /\ UNCHANGED <<kind, started, due, age, expiry, deadline, backend, history>>

LookedUp ==
  /\ pc = "lookup" /\ up /\ token > 0
  /\ pc' = "renewed" /\ claim' = Sub(token, age)
  /\ UNCHANGED <<kind, started, due, age, expiry, deadline, backend, history>>

\* A login, or a refresh with a refresh token that is still good, yields a
\* new credential.
Issued ==
  /\ pc \in {"login", "refresh"} /\ up
  /\ pc = "refresh" => life > 0
  /\ pc' = "issued" /\ claim' = Sub(Lease, age) /\ fresh' = Lease
  /\ UNCHANGED <<kind, started, due, age, expiry, deadline, token, life, up, history>>

\* Whether a TTL is long enough for the next Auth to be in time.
Sufficient(ttl) ==
  /\ ttl > 2 * (MaxLag + MaxCall)
  /\ ttl > MinAuthInterval + MaxLag + MaxCall

\* Authenticate returned a TTL: Auth records it, and the next is scheduled.
Recorded(expires) ==
  /\ pc' = "waiting" /\ started' = TRUE
  /\ expiry' = expires /\ due' = NextAuth(expires)
  /\ deadline' = IF kind = "client" THEN deadline ELSE expires
  /\ age' = 0 /\ claim' = 0 /\ fresh' = 0
  /\ healthy' = (Sufficient(expires) /\ (pc = "issued" \/ ~revoked))
  /\ UNCHANGED <<kind, up, gap>>

ReturnRenewed ==
  /\ pc = "renewed" /\ Recorded(claim)
  /\ UNCHANGED <<token, life, revoked>>

\* Faulty variant of ReturnIssued: the TTL is counted from the answer.
ReturnIssuedLate ==
  /\ pc = "issued" /\ Recorded(Lease)
  /\ token' = fresh /\ life' = fresh + (MaxLife - Lease)
  /\ revoked' = FALSE

\* The accessor holds the new credential from here on.
ReturnIssued ==
  /\ pc = "issued" /\ Recorded(claim)
  /\ token' = fresh /\ life' = fresh + (MaxLife - Lease)
  /\ revoked' = FALSE

\* What Auth sent is refused, or there is no answer.
Refused ==
  \/ ~up
  \/ pc \in {"renew", "lookup"} /\ token = 0
  \/ pc = "refresh" /\ life = 0

\* Authenticate returns an error: what the last success left stays. The first
\* Auth ends the server.
Fail ==
  /\ pc \in Calling /\ Refused
  /\ pc' = IF started THEN "waiting" ELSE "failed"
  /\ due' = NextAuth(expiry)
  /\ age' = 0 /\ claim' = 0 /\ fresh' = 0
  /\ healthy' = FALSE
  /\ UNCHANGED <<kind, started, expiry, deadline, token, life, up, revoked, gap>>

-----------------------------------------------------------------------------
\* The world: the backend goes away and comes back, or withdraws the
\* credential, and time passes.

GoesOrComes ==
  /\ up' = ~up /\ gap' = 0
  /\ UNCHANGED <<kind, pc, source, token, life, fresh, revoked, healthy>>

Revoke ==
  /\ token > 0 /\ token' = 0 /\ life' = 0
  /\ revoked' = TRUE /\ healthy' = FALSE /\ gap' = 0
  /\ UNCHANGED <<kind, pc, source, fresh, up>>

CanLogin == kind # "token"

Tick ==
  /\ pc = "waiting" => due > -MaxLag
  /\ pc \in Calling => age < MaxCall
  /\ due' = IF pc = "waiting" THEN due - 1 ELSE due
  /\ age' = IF pc \in Calling THEN age + 1 ELSE age
  /\ expiry' = Sooner(expiry) /\ deadline' = Sooner(deadline)
  /\ claim' = Sooner(claim) /\ fresh' = Sooner(fresh)
  /\ token' = Sooner(token) /\ life' = Sooner(life)
  /\ gap' = IF /\ pc # "failed" /\ CanLogin
               /\ up /\ token = 0 /\ ~revoked THEN gap + 1 ELSE 0
  /\ UNCHANGED <<kind, pc, started, up, revoked, healthy>>

Auth ==
  \/ Begin \/ Renewed \/ LookedUp \/ Issued
  \/ ReturnRenewed \/ ReturnIssued \/ Fail

Next == Auth \/ GoesOrComes \/ Revoke \/ Tick

Spec == Init /\ [][Next]_vars

\* A worker runs the task in the end, a backend answers or the connection
\* breaks, and the clock advances.
FairSpec == Spec /\ WF_vars(Auth) /\ WF_vars(Tick)

-----------------------------------------------------------------------------
(* Properties                                                              *)

TypeOK ==
  /\ kind \in Kinds /\ pc \in Calling \union {"waiting", "failed"}
  /\ started \in BOOLEAN
  /\ due \in Int /\ -MaxLag <= due /\ age \in 0 .. MaxCall
  /\ expiry \in 0 .. Lease /\ deadline \in 0 .. Lease /\ claim \in 0 .. Lease
  /\ token \in 0 .. Lease /\ life \in 0 .. MaxLife /\ fresh \in 0 .. Lease
  /\ up \in BOOLEAN /\ revoked \in BOOLEAN /\ healthy \in BOOLEAN
  /\ gap \in Nat

\* The times a source counts on, when it schedules the next authentication
\* and when it chooses to renew, are never later than those of the backend,
\* however long Authenticate takes: only a withdrawn credential is believed
\* to be good after its end (source.go:69-90, vault.go:193-213).
BelievedExpiryIsReal ==
  /\ ~revoked => expiry <= token /\ deadline <= token
  /\ ~revoked /\ pc = "renewed" => claim <= token
  /\ pc = "issued" => claim <= fresh

\* As long as no authentication fails, the one halfway to the expiry comes in
\* time: no refresh meets an expired credential after a TTL that exceeded
\* twice the delays, and MinAuthInterval by the delays (source.go:103-113).
ValidWhileHealthy == healthy => token > 0

\* However the credential was lost, to an outage or to the end of its life,
\* a backend that is up is logged in to again within ExpiredRetryInterval
\* and the delays of a renewal and a login (source.go:106-113,
\* vault.go:202-207).
OutageBounded == gap <= ExpiredRetryInterval + MaxLag + 2 * MaxCall

\* Once the backend stays up a source that can log in does so again, even
\* when its credential was withdrawn and it believes it can be renewed.
LoginRecovers ==
  <>[]up => []<>(CanLogin => pc = "failed" \/ token > 0)
=============================================================================
