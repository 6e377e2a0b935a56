------------------------------ MODULE SafeFetch ------------------------------
(***************************************************************************)
(* safeFetch of lib/security/url.ts: a page is fetched over redirects, and *)
(* each hop is validated, resolved, connected and read under the limits.   *)
(*                                                                         *)
(* A URL is a model value with a host and a scheme; DNS may answer a host  *)
(* differently each time it is asked, and the server answers anything.     *)
(***************************************************************************)
EXTENDS Naturals, Sequences

CONSTANTS
  Urls,         \* well-formed URLs
  Allowed,      \* the URLs whose scheme, credentials and host name pass
  Secure,       \* the https: URLs
  Addresses,    \* what DNS may answer with
  Public,       \* the addresses outside every reserved range
  MaxRedirects, \* redirects that are followed
  Timeout,      \* timeoutMs, in ticks
  MaxBytes,     \* maxBytes
  Sizes         \* bytes a response, or a sanitized page, may have

ASSUME SafeFetchAssumption ==
  /\ Allowed \subseteq Urls /\ Secure \subseteq Urls /\ Public \subseteq Addresses
  /\ MaxRedirects \in Nat /\ Timeout \in Nat \ {0} /\ MaxBytes \in Nat /\ Sizes \subseteq Nat

VARIABLES
  step,       \* "idle", "hop", "resolve", "request", "ok" or "error"
  current,    \* the URL of this hop
  visited,    \* URLs already asked
  redirects,  \* redirectCount
  clock,      \* ticks since the fetch started
  remaining,  \* remainingTimeout, taken once a hop
  pinned,     \* the addresses of this hop
  connected,  \* history: the connections, [url, address]
  body        \* the result: bytes received, their media type, bytes returned

fetchVars == <<step, current, visited, redirects, clock, remaining, pinned, connected, body>>

\* Media types: HTML, another one of allowedMimeTypes, or one that is not allowed.
MediaTypes == {"html", "other", "refused"}
NoBody == [received |-> 0, media |-> "refused", bytes |-> 0]

FetchInit ==
  /\ step = "idle" /\ current \in Urls
  /\ visited = {} /\ redirects = 0 /\ clock = 0 /\ remaining = 0
  /\ pinned = {} /\ connected = <<>> /\ body = NoBody

-----------------------------------------------------------------------------
validateExternalUrl(u) == u \in Allowed
isPublicIpAddress(a) == a \in Public

\* An await of at most remaining ticks; a longer one is cut off by withTimeout.
Waits(d) == d \in 0 .. remaining /\ clock' = clock + d

Begin ==
  /\ step = "idle"
  /\ step' = IF validateExternalUrl(current) THEN "hop" ELSE "error"
  /\ UNCHANGED <<current, visited, redirects, clock, remaining, pinned, connected, body>>

\* The head of the loop: not twice the same URL, and some time left.
NextHop ==
  /\ step = "hop"
  /\ visited' = visited \cup {current}
  /\ IF current \in visited \/ clock >= Timeout
     THEN step' = "error" /\ UNCHANGED remaining
     ELSE step' = "resolve" /\ remaining' = Timeout - clock
  /\ UNCHANGED <<current, redirects, clock, pinned, connected, body>>

\* Every address of the answer has to be public.
Vetted(answer) == answer # {} /\ \A a \in answer : isPublicIpAddress(a)

resolveAndValidateExternalUrl(answer, d) ==
  /\ step = "resolve" /\ Waits(d)
  /\ IF validateExternalUrl(current) /\ Vetted(answer)
     THEN step' = "request" /\ pinned' = answer
     ELSE step' = "error" /\ UNCHANGED pinned
  /\ UNCHANGED <<current, visited, redirects, remaining, connected, body>>

\* pinnedLookup gives the connection one of the addresses that were vetted.
Connect ==
  \E a \in pinned : connected' = Append(connected, [url |-> current, address |-> a])

\* Variant: a redirect may leave https.
RedirectTargetLoose(u) == validateExternalUrl(u)

RedirectTarget(u) ==
  /\ validateExternalUrl(u)
  /\ ~(current \in Secure /\ u \notin Secure)

\* A response: larger than allowed, a redirect, or an answer of some media type.
Redirected(u, bytes, d) ==
  /\ step = "request" /\ Waits(d) /\ Connect
  /\ IF bytes <= MaxBytes /\ redirects < MaxRedirects /\ RedirectTarget(u)
     THEN step' = "hop" /\ current' = u /\ redirects' = redirects + 1
     ELSE step' = "error" /\ UNCHANGED <<current, redirects>>
  /\ UNCHANGED <<visited, remaining, pinned, body>>

\* The sizes of what is returned.  A page is decoded, sanitized and encoded again
\* (sanitizeExternalHtml) after its size was checked: dropped elements make it
\* shorter, entities, replacement characters and added attributes longer.
ReturnedSizes(bytes, media) == IF media = "html" THEN Sizes ELSE {bytes}

Answered(bytes, media, d) ==
  /\ step = "request" /\ Waits(d) /\ Connect
  /\ IF bytes <= MaxBytes /\ media # "refused"
     THEN /\ step' = "ok"
          /\ \E n \in ReturnedSizes(bytes, media) :
               body' = [received |-> bytes, media |-> media, bytes |-> n]
     ELSE step' = "error" /\ UNCHANGED body
  /\ UNCHANGED <<current, visited, redirects, remaining, pinned>>

\* The resolver or the request fails, or the time is up.
Fails(d) ==
  /\ step \in {"resolve", "request"} /\ Waits(d) /\ step' = "error"
  /\ (step = "request" /\ Connect) \/ UNCHANGED connected
  /\ UNCHANGED <<current, visited, redirects, remaining, pinned, body>>

FetchNext ==
  \/ Begin \/ NextHop
  \/ \E d \in 0 .. remaining :
       \/ \E answer \in SUBSET Addresses : resolveAndValidateExternalUrl(answer, d)
       \/ \E bytes \in Sizes :
            \/ \E u \in Urls : Redirected(u, bytes, d)
            \/ \E media \in MediaTypes : Answered(bytes, media, d)
       \/ Fails(d)

-----------------------------------------------------------------------------
\* "Every fetch redirect and DNS result remains subject to public-address, byte,
\* time, and media-type policy" (docs/management/agent-instructions.json): over any
\* chain of redirects and any answers of DNS, connections are to public addresses
\* and allowed URLs only, one hop a URL and no more hops than the limit, never from
\* https to http, and what was received for the result keeps the byte and media
\* limits.  What is returned keeps the byte limit too, except for a page, which is
\* sanitized after it was measured.  The time limit is taken once a hop and given
\* to its two waits each, so a fetch ends within twice of it.
FetchKeepsPolicy ==
  /\ \A i \in DOMAIN connected :
       isPublicIpAddress(connected[i].address) /\ validateExternalUrl(connected[i].url)
  /\ Len(connected) <= MaxRedirects + 1
  /\ \A i, j \in DOMAIN connected : i < j =>
       /\ connected[i].url # connected[j].url
       /\ connected[i].url \in Secure => connected[j].url \in Secure
  /\ step = "ok" =>
       /\ body.received <= MaxBytes /\ body.media # "refused"
       /\ body.bytes <= MaxBytes \/ body.media = "html"
  /\ clock <= 2 * Timeout
=============================================================================
