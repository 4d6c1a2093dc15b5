----------------------------- MODULE JwksVerifier -----------------------------
(***************************************************************************)
(* auth/jwt_verifier.py: the signing keys of the identity provider as one  *)
(* backend task caches them.  A token names its key by kid; the key set is *)
(* fetched when the cache is empty or cache_ttl_s old, and once more when   *)
(* the kid is not in it.  The provider publishes and retires keys meanwhile, *)
(* and a fetch takes time, fails, or returns a key set that cannot be read. *)
(***************************************************************************)
EXTENDS Naturals

CONSTANTS
    Kids,           \* the key ids the provider ever uses, a kid for one key only
    UnusableKids,   \* published keys that RSAAlgorithm.from_jwk refuses
    CacheTtl,       \* cache_ttl_s
    FetchTime,      \* the longest a fetch takes before it raises
    MaxClock,       \* bound: the clock stops here
    Nothing         \* no fetch under way, no verdict

ASSUME JwksAssumption ==
    /\ UnusableKids \subseteq Kids
    /\ CacheTtl \in Nat \ {0} /\ FetchTime \in Nat /\ MaxClock \in Nat

VARIABLES
    published,      \* the kids in the provider's key set
    clock,          \* time.monotonic()
    keys,           \* _keys_by_kid
    fetchedAt,      \* _fetched_at
    fetch,          \* the HTTP request of _refresh under way, and what it will return
    verdict         \* how verify ended, until the handler takes it up

\* History variable.
VARIABLE
    lastPublished   \* kid -> when it was last in the key set (or was never: 0)

jwksVars == <<published, clock, keys, fetchedAt, fetch, verdict, lastPublished>>

(* absent: has the token's key been out of the key set at any time since    *)
(* verify began?  last: is this the refresh after a kid that was not found? *)
Fetches == [kid: Kids, answer: SUBSET Kids, sentAt: Nat, last: BOOLEAN, absent: BOOLEAN]

Outcomes == {"accepted",        \* the claims are returned
             "refused",         \* AuthError: expired, or another check of the token failed
             "unknown",         \* AuthError: unknown signing key id
             "unavailable",     \* AuthError IDENTITY_PROVIDER_UNAVAILABLE
             "raised"}          \* from_jwk raised: no AuthError, the request ends with a 500
Verdicts == [kid: Kids, outcome: Outcomes, absent: BOOLEAN]

ASSUME NothingAssumption == Nothing \notin Fetches \cup Verdicts

JwksInit ==
    /\ published \in SUBSET Kids
    /\ clock = 0
    /\ keys = {}
    /\ fetchedAt = 0
    /\ fetch = Nothing
    /\ verdict = Nothing
    /\ lastPublished = [i \in Kids |-> 0]

-----------------------------------------------------------------------------
(* The provider, and time.  Neither moves between the end of verify and the  *)
(* handler that called it.                                                 *)

(* A new key set: lastPublished of what leaves it is this instant. *)
Rotate(new) ==
    /\ verdict = Nothing
    /\ published' = new
    /\ lastPublished' = [i \in Kids |-> IF i \in published \cup new THEN clock ELSE lastPublished[i]]
    /\ fetch' = IF fetch # Nothing /\ fetch.kid \notin new
                THEN [fetch EXCEPT !.absent = TRUE] ELSE fetch
    /\ UNCHANGED <<clock, keys, fetchedAt, verdict>>

(* A fetch that has lasted FetchTime returns or raises. *)
JwksTick ==
    /\ verdict = Nothing
    /\ clock < MaxClock
    /\ fetch # Nothing => clock < fetch.sentAt + FetchTime
    /\ clock' = clock + 1
    /\ lastPublished' = [i \in Kids |-> IF i \in published THEN clock' ELSE lastPublished[i]]
    /\ UNCHANGED <<published, keys, fetchedAt, fetch, verdict>>

-----------------------------------------------------------------------------
(* verify. *)

Ends(kid, outcome, absent) ==
    /\ verdict' = [kid |-> kid, outcome |-> outcome, absent |-> absent]
    /\ fetch' = Nothing

(* _decode with the key that was found: the library's checks. *)
Decode(kid, absent) == \E outcome \in {"accepted", "refused"} : Ends(kid, outcome, absent)

(* Mutant of Stale: the cache never expires. *)
StaleIfEmpty == keys = {}

(* The condition of _refresh_if_stale. *)
Stale == keys = {} \/ clock - fetchedAt >= CacheTtl

(* _http_get is sent: the provider answers with its key set of this moment. *)
Send(kid, last, absent) ==
    fetch' = [kid |-> kid, answer |-> published, sentAt |-> clock, last |-> last, absent |-> absent]

(* Mutant of Verify: a kid that is not in a fresh cache is refused at once. *)
VerifyFromCache(kid) ==
    /\ fetch = Nothing /\ verdict = Nothing
    /\ \/ Stale /\ Send(kid, FALSE, kid \notin published) /\ UNCHANGED verdict
       \/ ~Stale /\ kid \in keys /\ Decode(kid, kid \notin published)
       \/ ~Stale /\ kid \notin keys /\ Ends(kid, "unknown", kid \notin published)
    /\ UNCHANGED <<published, clock, keys, fetchedAt, lastPublished>>

Verify(kid) ==
    /\ fetch = Nothing /\ verdict = Nothing
    /\ IF ~Stale /\ kid \in keys
       THEN Decode(kid, kid \notin published)
       ELSE /\ Send(kid, ~Stale, kid \notin published)
            /\ UNCHANGED verdict
    /\ UNCHANGED <<published, clock, keys, fetchedAt, lastPublished>>

(* The answer is read, cached, and the kid looked up in it; not found, the  *)
(* key set is fetched again, once.                                         *)
FetchReturns ==
    /\ fetch # Nothing
    /\ fetch.answer \cap UnusableKids = {}
    /\ keys' = fetch.answer
    /\ fetchedAt' = clock
    /\ IF fetch.kid \in keys' THEN Decode(fetch.kid, fetch.absent)
       ELSE IF fetch.last THEN Ends(fetch.kid, "unknown", fetch.absent)
       ELSE Send(fetch.kid, TRUE, fetch.absent) /\ UNCHANGED verdict
    /\ UNCHANGED <<published, clock, lastPublished>>

(* The request, or reading its JSON, raises; the cached keys stay. *)
FetchFails ==
    /\ fetch # Nothing
    /\ Ends(fetch.kid, "unavailable", fetch.absent)
    /\ UNCHANGED <<published, clock, keys, fetchedAt, lastPublished>>

(* One key of the set is not an RSA key, or has no kid, or the body is JSON *)
(* but no object: it raises outside the try block, before anything is      *)
(* cached.  (An object without "keys" is an empty key set.)                *)
FetchUnusable ==
    /\ fetch # Nothing
    /\ Ends(fetch.kid, "raised", fetch.absent)
    /\ UNCHANGED <<published, clock, keys, fetchedAt, lastPublished>>

(* The task is replaced: the cache is empty again. *)
JwksRestart ==
    /\ keys' = {}
    /\ fetchedAt' = 0
    /\ fetch' = Nothing
    /\ verdict' = Nothing
    /\ UNCHANGED <<published, clock, lastPublished>>

(* The handler takes the verdict up. *)
TakeVerdict ==
    /\ verdict # Nothing
    /\ verdict' = Nothing
    /\ UNCHANGED <<published, clock, keys, fetchedAt, fetch, lastPublished>>

VerifierStep ==
    \/ \E new \in SUBSET Kids : Rotate(new)
    \/ JwksTick
    \/ \E kid \in Kids : Verify(kid)
    \/ FetchReturns
    \/ FetchFails
    \/ FetchUnusable
    \/ JwksRestart

JwksNext == VerifierStep \/ TakeVerdict

JwksSpec == JwksInit /\ [][JwksNext]_jwksVars

-----------------------------------------------------------------------------
JwksTypeOK ==
    /\ published \subseteq Kids
    /\ clock \in Nat
    /\ keys \subseteq Kids
    /\ fetchedAt \in Nat
    /\ fetch \in Fetches \cup {Nothing}
    /\ verdict \in Verdicts \cup {Nothing}
    /\ lastPublished \in [Kids -> Nat]

(* A key the provider has retired stops being accepted: every token that   *)
(* is accepted is signed with a key that was in the provider's key set less *)
(* than CacheTtl + FetchTime before, however keys are published, retired   *)
(* and published again, and whatever fetches fail.                         *)
RetiredKeysExpire ==
    (verdict # Nothing /\ verdict.outcome = "accepted") =>
        clock < lastPublished[verdict.kid] + CacheTtl + FetchTime

(* verify's comment: "kid may have rotated since our last fetch -- refresh  *)
(* once more before giving up".  A token is refused for its kid only if    *)
(* the provider did not publish that kid all the while: a key just rotated *)
(* in is never refused because of what was cached.                         *)
UnknownKeysAreUnpublished ==
    (verdict # Nothing /\ verdict.outcome = "unknown") => verdict.absent
=============================================================================
