------------------------------ MODULE Profile -------------------------------
(***************************************************************************)
(* internal/proxy/profile.go and its use by the two request handlers: a    *)
(* request carries the ARN of a profile, which the first requests fetch    *)
(* from the upstream and later ones take from a cache, and one that got    *)
(* none asks for a simpler model (ApplyProfileModelFallback).  The cache   *)
(* has a lock, but FetchProfileArn returns the cached value without it     *)
(* wherever it fails.                                                      *)
(*                                                                         *)
(* A Go string is two words: a read that meets a store may get both old,   *)
(* both new, or one of each, which is a broken string or, with the pointer *)
(* of the empty one, a panic that the handler recovers.  The upstream is   *)
(* external: it names the profile of the account a token belongs to, or    *)
(* one whose ARN is missing, which is stored like any other.               *)
(***************************************************************************)
EXTENDS Naturals

CONSTANTS Requests,   \* handlers
          Arns,       \* profiles, one for each account
          Models,     \* models a request may ask for
          Fallback,   \* the model that stands for each one without a profile
          NoArn,      \* the empty string
          Torn,       \* half of one string and half of another
          NoRequest

ASSUME ProfileAssumption ==
  /\ Arns \cap {NoArn, Torn} = {} /\ NoArn # Torn
  /\ Fallback \in [Models -> Models]
  /\ NoRequest \notin Requests

VARIABLES cache,    \* profileCacheArn
          fresh,    \* profileCacheAt is less than profileCacheTTL ago
          storing,  \* the request that holds the write lock
          override, \* KIRO_PROFILE_ARN
          account,  \* the profile of the account that is logged in
          pc,       \* where each request is
          token,    \* the account whose access token it read
          arn,      \* its ProfileArn, or the one it was told
          model,    \* its ModelId
          asked,    \* the model the client asked for
          known,    \* history: requests that began when a profile was cached, until an empty
                    \* one is stored in its place
          raced,    \* history: requests whose unlocked read met a store
          named     \* history: the profiles the upstream has named

cached == <<cache, fresh, storing>>
request == <<pc, token, arn, model, asked>>
vars == <<cached, override, account, request, known, raced, named>>

Goto(r, label) == pc' = [pc EXCEPT ![r] = label]

-----------------------------------------------------------------------------
(* A request.                                                              *)

\* An empty profile is being stored.
Emptying == storing # NoRequest /\ arn[storing] = NoArn

\* The handler has read its token, and GetProfileArn the environment.
Begin(r, m) ==
  /\ pc[r] \in {"idle", "sent"}
  /\ token' = [token EXCEPT ![r] = account]
  /\ asked' = [asked EXCEPT ![r] = m] /\ model' = [model EXCEPT ![r] = m]
  /\ arn' = [arn EXCEPT ![r] = override]
  /\ Goto(r, IF override = NoArn THEN "resolve" ELSE "fallback")
  /\ known' = IF cache # NoArn /\ ~Emptying THEN known \cup {r} ELSE known \ {r}
  /\ raced' = raced \ {r}
  /\ UNCHANGED <<cached, override, account, named>>

\* mutant: without the lock.
ResolveUnlocked(r) ==
  /\ pc[r] = "resolve"
  /\ IF cache # NoArn
     THEN arn' = [arn EXCEPT ![r] = IF storing = NoRequest THEN cache ELSE Torn]
          /\ Goto(r, "fallback")
     ELSE Goto(r, "fetch") /\ UNCHANGED arn
  /\ UNCHANGED <<cached, override, account, token, model, asked, known, raced, named>>

\* ResolveProfileArn takes what is cached, however old.
Resolve(r) ==
  /\ pc[r] = "resolve" /\ storing = NoRequest
  /\ IF cache # NoArn
     THEN arn' = [arn EXCEPT ![r] = cache] /\ Goto(r, "fallback")
     ELSE Goto(r, "fetch") /\ UNCHANGED arn
  /\ UNCHANGED <<cached, override, account, token, model, asked, known, raced, named>>

\* FetchProfileArn looks again, at the age too, before it calls.
Fetch(r) ==
  /\ pc[r] = "fetch" /\ storing = NoRequest
  /\ IF cache # NoArn /\ fresh
     THEN arn' = [arn EXCEPT ![r] = cache] /\ Goto(r, "fallback")
     ELSE Goto(r, "call") /\ UNCHANGED arn
  /\ UNCHANGED <<cached, override, account, token, model, asked, known, raced, named>>

\* ListAvailableProfiles names the profile of the token's account; its ARN is not looked at.
Answer(r) ==
  /\ pc[r] = "call"
  /\ \E a \in {token[r], NoArn} :
       arn' = [arn EXCEPT ![r] = a] /\ named' = named \cup {a}
  /\ Goto(r, "store")
  /\ UNCHANGED <<cached, override, account, token, model, asked, known, raced>>

\* mutant: a failure discards the profile.
FailAndForget(r) ==
  /\ pc[r] = "call" /\ storing = NoRequest
  /\ Goto(r, "fallback")
  /\ cache' = NoArn
  /\ UNCHANGED <<fresh, storing, override, account, token, arn, model, asked, known, raced, named>>

\* Any failure of the call returns the cached value, read without the lock.
Fail(r) ==
  /\ pc[r] = "call"
  /\ \E read \in IF storing = NoRequest THEN {cache} ELSE {cache, arn[storing], Torn} :
       arn' = [arn EXCEPT ![r] = read]
  /\ raced' = IF storing = NoRequest THEN raced ELSE raced \cup {r}
  /\ Goto(r, "fallback")
  /\ UNCHANGED <<cached, override, account, token, model, asked, known, named>>

Store(r) ==
  /\ pc[r] = "store" /\ storing = NoRequest
  /\ storing' = r
  /\ known' = IF arn[r] = NoArn THEN {} ELSE known
  /\ UNCHANGED <<cache, fresh, override, account, request, raced, named>>

Stored(r) ==
  /\ storing = r
  /\ cache' = arn[r] /\ fresh' = TRUE /\ storing' = NoRequest
  /\ Goto(r, "fallback")
  /\ UNCHANGED <<override, account, token, arn, model, asked, known, raced, named>>

\* ApplyProfileModelFallback, and the request goes upstream.
Send(r) ==
  /\ pc[r] = "fallback"
  /\ model' = IF arn[r] = NoArn THEN [model EXCEPT ![r] = Fallback[model[r]]] ELSE model
  /\ Goto(r, "sent")
  /\ UNCHANGED <<cached, override, account, token, arn, asked, known, raced, named>>

Step(r) ==
  \/ Resolve(r) \/ Fetch(r) \/ Answer(r) \/ Fail(r) \/ Store(r) \/ Stored(r) \/ Send(r)

-----------------------------------------------------------------------------

\* Half an hour goes by.
Expire ==
  /\ fresh /\ storing = NoRequest
  /\ fresh' = FALSE
  /\ UNCHANGED <<cache, storing, override, account, request, known, raced, named>>

\* The user logs in to another account.
SwitchAccount ==
  /\ \E a \in Arns \ {account} : account' = a
  /\ UNCHANGED <<cached, override, request, known, raced, named>>

Init ==
  /\ cache = NoArn /\ fresh = FALSE /\ storing = NoRequest
  /\ override \in Arns \cup {NoArn} /\ account \in Arns
  /\ pc = [r \in Requests |-> "idle"]
  /\ token = [r \in Requests |-> account]
  /\ arn = [r \in Requests |-> NoArn]
  /\ asked \in [Requests -> Models] /\ model = asked
  /\ known = {} /\ raced = {} /\ named = {}

Next ==
  \/ \E r \in Requests : Step(r) \/ \E m \in Models : Begin(r, m)
  \/ Expire \/ SwitchAccount

Spec == Init /\ [][Next]_vars

-----------------------------------------------------------------------------
(* What the handlers promise.                                              *)

TypeOK ==
  /\ cache \in Arns \cup {NoArn} /\ fresh \in BOOLEAN
  /\ storing \in Requests \cup {NoRequest}
  /\ override \in Arns \cup {NoArn} /\ account \in Arns
  /\ pc \in [Requests -> {"idle", "resolve", "fetch", "call", "store", "fallback", "sent"}]
  /\ token \in [Requests -> Arns]
  /\ arn \in [Requests -> Arns \cup {NoArn, Torn}]
  /\ model \in [Requests -> Models] /\ asked \in [Requests -> Models]
  /\ known \subseteq Requests /\ raced \subseteq Requests /\ named \subseteq Arns \cup {NoArn}

Sent(r) == pc[r] = "sent"

\* A request is sent with no profile, with the one the user set, or with one the upstream
\* has named, whole: unless its own fetch failed while another request stored what it got
\* (profile.go:54 to :81 read the cache without its lock).
Whole ==
  \A r \in Requests : Sent(r) => arn[r] \in named \cup {NoArn, override} \/ r \in raced

\* Once a profile is cached, no request that begins later is sent without one or with
\* another model than its client asked for, whatever fails or expires meanwhile: unless the
\* upstream names a profile without an ARN, which is stored over the cached one
\* (profile.go:84 takes the first profile as it is).
NeverForgets ==
  \A r \in known : Sent(r) => arn[r] # NoArn /\ model[r] = asked[r]

\* What profile.go:37 says of the cache: a profile is cached for profileCacheTTL, so a request
\* that does not call the upstream has found one that is younger than that.
CachedForTTL ==
  [][\A r \in Requests :
       pc[r] \in {"resolve", "fetch"} /\ pc'[r] = "fallback" => fresh]_vars
=============================================================================
