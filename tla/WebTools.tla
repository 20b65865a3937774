------------------------------ MODULE WebTools ------------------------------
(***************************************************************************)
(* The Web tool: fetch with its redirects, its fallbacks and its cache     *)
(* (LruCache with entries, bytes and a time to live), search and image     *)
(* search with their retries.                                              *)
(*                                                                         *)
(* The calls of a wave run at once and share the cache.  A page is         *)
(* abstracted to its size and the time it was fetched, an answer to where  *)
(* it came from; the extraction of text is left out.                       *)
(***************************************************************************)
EXTENDS Naturals, Sequences, FiniteSets, FiniteSetsExt

CONSTANTS
    Calls, Urls,
    MaxRedirects,   \* MAX_REDIRECTS
    MaxRetries,     \* of an image search
    MaxEntries, MaxBytes, Ttl,  \* of the cache
    Sizes,          \* of pages
    MaxTime         \* ticks of the clock (bound)

VARIABLES
    cache,      \* LruCache.map in its order: entries [url, size, at, expires]
    bytes,      \* LruCache.currentBytes
    pc, action, url,
    tries,      \* redirects followed, or requests of an image search made
    result,     \* of each call
    sources,    \* times in sources.json: a source is named by its time
    now,
    latest      \* history: the url used last, in the cache or put there

vars == <<cache, bytes, pc, action, url, tries, result, sources, now, latest>>
cacheVars == <<cache, bytes, latest>>
callVars == <<pc, action, url, tries, result, sources>>

None == "none"
AnyUrl == CHOOSE u \in Urls : TRUE
Entry(u, size) == [url |-> u, size |-> size, at |-> now, expires |-> now + Ttl]

(***************************************************************************)
(* LruCache                                                                *)
(***************************************************************************)
Entries(c) == {c[i] : i \in DOMAIN c}
KeysOf(c) == {e.url : e \in Entries(c)}
EntryOf(c, u) == CHOOSE e \in Entries(c) : e.url = u

\* the entries of c that are in S, in their order
Sift(c, S) ==
    LET f[n \in 0 .. Len(c)] ==
            IF n = 0 THEN <<>> ELSE IF c[n] \in S THEN Append(f[n - 1], c[n]) ELSE f[n - 1]
    IN f[Len(c)]

Without(c, u) == Sift(c, {e \in Entries(c) : e.url /= u})

BytesOf(c) ==
    LET sum[n \in 0 .. Len(c)] == IF n = 0 THEN 0 ELSE sum[n - 1] + c[n].size
    IN sum[Len(c)]

\* Seeded bug: what is dropped stays in the count.
LessNothing(b, c, dropped) == b
\* evictKey takes the size of the entry it drops off the count
Less(b, c, dropped) == b - (BytesOf(c) - BytesOf(dropped))

Live(e) == e.expires > now

\* Seeded bug: a hit does not move the entry to the end.
TouchedNot(c, u) == c
\* Seeded bug: a hit lets the entry live on.
TouchedRenews(c, u) == Append(Without(c, u), [EntryOf(c, u) EXCEPT !.expires = now + Ttl])
\* get: the entry goes to the end of the map
Touched(c, u) == Append(Without(c, u), EntryOf(c, u))

\* evictIfNeeded: what has expired goes first ...
Unexpired(c) == Sift(c, {e \in Entries(c) : Live(e)})

\* ... and then the oldest, until entries and bytes fit
Fits(c) == Len(c) <= MaxEntries /\ BytesOf(c) <= MaxBytes
Fitting(c) ==
    LET oldest == Min({n \in 0 .. Len(c) : Fits(SubSeq(c, n + 1, Len(c)))})
    IN SubSeq(c, oldest + 1, Len(c))

Set(u, size) ==
    \E others \in {Without(cache, u)} :
    \E added \in {Append(others, Entry(u, size))} :
    \E live \in {Unexpired(added)} :
        /\ cache' = Fitting(live)
        /\ bytes' = Less(Less(bytes, cache, others) + size, added, cache')
        /\ latest' = u

(***************************************************************************)
(* Fetch                                                                   *)
(***************************************************************************)
To(c, where) == pc' = [pc EXCEPT ![c] = where]
End(c, r) == To(c, "done") /\ result' = [result EXCEPT ![c] = r]

\* validateUrlStrict: whatever the model gives is an https url of this set (a
\* http one is upgraded) or is refused, as an image is outside of an agent
Valid(u) == {u, None}

Fetch(c, u) ==
    /\ pc[c] = "idle"
    /\ action' = [action EXCEPT ![c] = "fetch"]
    /\ url' = [url EXCEPT ![c] = u]
    /\ \E v \in Valid(u) : IF v = None THEN End(c, "failed") ELSE To(c, "look") /\ UNCHANGED result
    /\ UNCHANGED <<cacheVars, tries, sources, now>>

\* The text of the page is cut down to what the prompt is about, and saved as a
\* source under the time it is now: of two in a millisecond the second stays.
Extract(c, site) ==
    /\ End(c, site)
    /\ sources' = sources \cup {now}

\* getCachedFetch: an expired entry is dropped
Look(c) ==
    /\ pc[c] = "look"
    /\ LET u == url[c]
           found == u \in KeysOf(cache)
       IN \/ /\ found /\ Live(EntryOf(cache, u))
             /\ cache' = Touched(cache, u)
             /\ latest' = u
             /\ Extract(c, "cached")
             /\ UNCHANGED bytes
          \/ /\ ~ (found /\ Live(EntryOf(cache, u)))
             /\ cache' = Without(cache, u)
             /\ bytes' = Less(bytes, cache, cache')
             /\ To(c, "hop")
             /\ UNCHANGED <<latest, result, sources>>
    /\ UNCHANGED <<action, url, tries, now>>

\* every status counts as an answer, errors included
Answer(c, site) ==
    /\ \E size \in Sizes : Set(url[c], size)
    /\ Extract(c, site)
    /\ UNCHANGED tries

\* Seeded bug: no redirect is one too many.
PermittedEndless(c) ==
    /\ tries' = [tries EXCEPT ![c] = (@ + 1) % (MaxRedirects + 1)]
    /\ To(c, "hop")

\* a redirect within the site, of which the last is one too many
Permitted(c) ==
    /\ tries' = [tries EXCEPT ![c] = (@ + 1) % (MaxRedirects + 1)]
    /\ To(c, IF tries[c] < MaxRedirects THEN "hop" ELSE "single")

\* followWithPermittedRedirects, one request: an answer, a redirect, one to
\* another site, or no answer; whatever throws is followed by a single fetch
Hop(c) ==
    /\ pc[c] = "hop"
    /\ \/ Answer(c, "own")
       \/ Permitted(c) /\ UNCHANGED <<cacheVars, result, sources>>
       \/ /\ To(c, "single")    \* blocked, no location, aborted or timed out
          /\ tries' = [tries EXCEPT ![c] = 0]
          /\ UNCHANGED <<cacheVars, result, sources>>
    /\ UNCHANGED <<action, url, now>>

\* the single fetch follows the redirects itself, to any site
Single(c) ==
    /\ pc[c] = "single"
    /\ \/ \E site \in {"own", "other"} : Answer(c, site)
       \/ To(c, "curl") /\ UNCHANGED <<cacheVars, tries, result, sources>>
    /\ UNCHANGED <<action, url, now>>

\* curl -fsSL: what it gets is not cached
Curl(c) ==
    /\ pc[c] = "curl"
    /\ \E r \in {"own", "other", "failed"} : Extract(c, r)
    /\ UNCHANGED <<cacheVars, action, url, tries, now>>

(***************************************************************************)
(* Search and image search                                                 *)
(***************************************************************************)
\* CONF_WEBSEARCH: a provider and whether a key is set; a key without one is Brave's
ReadWebSearchConfig(raw) ==
    IF raw.provider = "default" /\ raw.apiKey THEN [raw EXCEPT !.provider = "brave"] ELSE raw

Search(c, a) ==
    /\ pc[c] = "idle"
    /\ action' = [action EXCEPT ![c] = a]
    /\ \E raw \in [provider : {"default", "brave", "serper", "tavily"}, apiKey : BOOLEAN] :
          LET config == ReadWebSearchConfig(raw)
          IN IF config.provider # "default" /\ config.apiKey
             THEN To(c, "ask") /\ UNCHANGED result
             ELSE End(c, "failed")
    /\ UNCHANGED <<cacheVars, url, tries, sources, now>>

\* a refusal or an error of a search ends it
AskSearch(c) ==
    /\ pc[c] = "ask" /\ action[c] = "search"
    /\ \/ To(c, "scrape") /\ UNCHANGED result
       \/ End(c, "failed")
    /\ UNCHANGED tries

\* fetchWithBackoff: busy or without an answer it is asked again
Backoff(c) ==
    /\ tries[c] < MaxRetries
    /\ tries' = [tries EXCEPT ![c] = @ + 1]

\* any other error ends an image search, as the last try does
AskImages(c) ==
    /\ pc[c] = "ask" /\ action[c] = "image_search"
    /\ \/ To(c, "found") /\ UNCHANGED <<tries, result>>
       \/ Backoff(c) /\ UNCHANGED <<pc, result>>
       \/ End(c, "failed") /\ UNCHANGED tries

Ask(c) ==
    /\ AskSearch(c) \/ AskImages(c)
    /\ UNCHANGED <<cacheVars, action, url, sources, now>>

\* the first source is fetched too, whatever comes of it
Found(c) ==
    /\ pc[c] \in {"scrape", "found"}
    /\ End(c, "found")
    /\ UNCHANGED <<cacheVars, action, url, tries, sources, now>>

\* the call's result has been given to the model, which may ask again
Again(c) ==
    /\ pc[c] = "done"
    /\ To(c, "idle")
    /\ tries' = [tries EXCEPT ![c] = 0]
    /\ result' = [result EXCEPT ![c] = None]
    /\ action' = [action EXCEPT ![c] = "fetch"]
    /\ url' = [url EXCEPT ![c] = AnyUrl]
    /\ UNCHANGED <<cacheVars, sources, now>>

Tick == /\ now < MaxTime
        /\ now' = now + 1
        /\ UNCHANGED <<cacheVars, callVars>>

Init ==
    /\ cache = <<>> /\ bytes = 0 /\ latest = None
    /\ pc = [c \in Calls |-> "idle"]
    /\ action = [c \in Calls |-> "fetch"]
    /\ url = [c \in Calls |-> AnyUrl]
    /\ tries = [c \in Calls |-> 0]
    /\ result = [c \in Calls |-> None]
    /\ sources = {}
    /\ now = 0

Goes(c) == Look(c) \/ Hop(c) \/ Single(c) \/ Curl(c) \/ Ask(c) \/ Found(c)

Next ==
    \/ \E c \in Calls, u \in Urls : Fetch(c, u)
    \/ \E c \in Calls, a \in {"search", "image_search"} : Search(c, a)
    \/ \E c \in Calls : Goes(c) \/ Again(c)
    \/ Tick

\* Requests end, by their answer or by their timeout
Spec == Init /\ [][Next]_vars /\ \A c \in Calls : WF_vars(Goes(c))

-----------------------------------------------------------------------------
\* Types
TypeOK ==
    /\ cache \in Seq([url : Urls, size : Sizes, at : 0 .. MaxTime, expires : Ttl .. MaxTime + Ttl])
    /\ Cardinality(KeysOf(cache)) = Len(cache)
    /\ bytes \in 0 .. MaxBytes
    /\ pc \in [Calls -> {"idle", "look", "hop", "single", "curl", "ask", "scrape", "found", "done"}]
    /\ action \in [Calls -> {"fetch", "search", "image_search"}]
    /\ url \in [Calls -> Urls]
    /\ sources \subseteq 0 .. now
    /\ tries \in [Calls -> 0 .. MaxRedirects + MaxRetries]
    /\ result \in [Calls -> {None, "cached", "own", "other", "found", "failed"}]

\* The cache counts the bytes it holds, within its limits, however the calls
\* of a wave replace, expire and evict its entries
\* (LruCache.set, evictKey, evictIfNeeded keep the count beside the map).
CountHolds == bytes = BytesOf(cache) /\ bytes <= MaxBytes /\ Len(cache) <= MaxEntries

\* A page from the cache is no older than the time to live, however often it
\* was asked for in between (LruCache.get keeps expiresAt).
CachedIsFresh ==
    [][\A c \in Calls : result'[c] /= result[c] /\ result'[c] = "cached"
                          => now - EntryOf(cache, url[c]).at < Ttl]_vars

\* the entry used last is live and fits beside the one that is used now
StaysBeside(e, new) == Live(e) /\ e.size + new.size <= MaxBytes

\* What is evicted for room is never what was used last, while it and what
\* takes the room fit together
\* (LruCache.get puts an entry at the end of the map).
LastUsedStays ==
    [][(/\ latest \in KeysOf(cache) /\ latest' \in KeysOf(cache') /\ latest' /= latest
        /\ StaysBeside(EntryOf(cache, latest), EntryOf(cache', latest')))
         => latest \in KeysOf(cache')]_vars

\* A call of the model ends, whatever the servers do: redirects are counted,
\* tries are counted and every request has a timeout.
CallEnds == \A c \in Calls : pc[c] /= "idle" ~> pc[c] = "done"

\* "cross-host redirect blocked (same-host+port+registrable-domain)", says the
\* description of WebFetch; the single fetch and curl follow any redirect.
CrossHostBlocked == \A c \in Calls : result[c] /= "other"
=============================================================================
