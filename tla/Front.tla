------------------------------- MODULE Front -------------------------------
(***************************************************************************)
(* The front of the service, from a manager's message to its answer: the   *)
(* rate limiter, the check of the store id against a cached catalogue, the *)
(* history of the session in Redis and in memory, the run, and the two     *)
(* turns it adds to the history.  Requests of one session overlap at every *)
(* await.  The process may restart, the backend and Redis may fail.        *)
(***************************************************************************)
EXTENDS Integers, Sequences, FiniteSets

CONSTANTS
    Clients,      \* keys of resolve_client_key, with their tier
    Stores,       \* ids a request may name
    OldStores,    \* the stores of the catalogue at first
    NewStores,    \* stores the catalogue may gain
    Requests,     \* requests looked at, each made once
    Budget,       \* requests a window admits
    Window,       \* WINDOW_SECONDS
    CacheTTL,     \* _CACHE_TTL_SEC
    SessionTTL,   \* SESSION_TTL_SECONDS
    Keep,         \* MAX_HISTORY_TURNS, _MAX_MANAGER_TURNS
    MaxTime       \* bound on the clock

ASSUME FrontAssumption ==
    /\ Budget \in Nat \ {0} /\ Window \in Nat \ {0}
    /\ CacheTTL \in Nat /\ SessionTTL \in Nat \ {0}
    /\ Keep \in Nat \ {0} /\ MaxTime \in Nat
    /\ OldStores \subseteq Stores /\ NewStores \subseteq Stores
    /\ OldStores /= {}

VARIABLES
    now,        \* the clock
    hits,       \* _hits: times of the admitted requests, per key
    admitted,   \* for checking: the same since the process started, complete
    cache,      \* _cache_ids, and _cache_at (CacheTTL before time 0: never)
    catalogue,  \* the stores the backend has
    fetched,    \* for checking: the catalogue was fetched since the process started
    req,        \* the requests
    mem,        \* _MANAGER_TURNS of the session
    redisOn,    \* REDIS_URL is set
    redis,      \* the session's entry in Redis and when it expires
    talk        \* for checking: turns said, when, and what went wrong so far

limiterVars == <<hits, admitted>>
storeVars == <<cache, catalogue, fetched>>
sessionVars == <<mem, redisOn, redis, talk>>
vars == <<now, limiterVars, storeVars, req, sessionVars>>

\* A turn of the session is the number of turns said up to and with it.
NewRequest == [stage |-> "new", store |-> "none", ids |-> {}, asked |-> 0,
               blind |-> FALSE, hist |-> << >>]

Goes(r, stage) == req' = [req EXCEPT ![r] = [NewRequest EXCEPT !.stage = stage]]

----------------------------------------------------------------------------
(* The rate limiter *)

\* How many of the oldest hits the loop drops: those a full window old, up to
\* the first that is not.
Dropped(q) == {k \in 0..Len(q) : /\ \A i \in 1..k : now - q[i] >= Window
                                 /\ k < Len(q) => now - q[k + 1] < Window}

\* Mutant: one request too many.
AdmitsOneMore(q) == Len(q) <= Budget

Admits(q) == Len(q) < Budget

\* Mutant: a refused request counts as well.
HitsEveryTime(q) == Append(q, now)

Hits(q) == IF Admits(q) THEN Append(q, now) ELSE q

\* check_rate_limit_result, in the middleware of every request.
Arrive(r, c, s) ==
    /\ req[r].stage = "new"
    /\ \E k \in Dropped(hits[c]) :
         LET q == SubSeq(hits[c], k + 1, Len(hits[c]))
         IN /\ hits' = [hits EXCEPT ![c] = Hits(q)]
            /\ IF Admits(q)
               THEN /\ admitted' = [admitted EXCEPT ![c] = Append(@, now)]
                    /\ req' = [req EXCEPT ![r] = [NewRequest EXCEPT !.stage = "arrived",
                                                                    !.store = s]]
               ELSE /\ UNCHANGED admitted
                    /\ Goes(r, "limited")
    /\ UNCHANGED <<now, storeVars, sessionVars>>

----------------------------------------------------------------------------
(* The store id *)

\* is_known_store: without a catalogue every store is admitted.
StoreAllowed(s, ids, ok) == ~ok \/ s \in ids

Decide(r, ids, ok) ==
    IF StoreAllowed(req[r].store, ids, ok)
    THEN req' = [req EXCEPT ![r].stage = "admitted", ![r].blind = ~ok, ![r].ids = {}]
    ELSE req' = [req EXCEPT ![r].stage = "unknown", ![r].ids = {}]

\* known_store_ids with a cache young enough
CheckCached(r) ==
    /\ req[r].stage = "arrived"
    /\ now - cache.at <= CacheTTL
    /\ Decide(r, cache.ids, TRUE)
    /\ UNCHANGED <<now, limiterVars, storeVars, sessionVars>>

\* ... or else the catalogue is fetched.  The clock was read before.
AskCatalogue(r) ==
    /\ req[r].stage = "arrived"
    /\ now - cache.at > CacheTTL
    /\ req' = [req EXCEPT ![r].stage = "fetching", ![r].asked = now,
                          ![r].ids = catalogue]
    /\ UNCHANGED <<now, limiterVars, storeVars, sessionVars>>

\* What the fetch returns: the catalogue as it was when asked, or as it is by
\* now, or the cache when list_stores raises or does not answer ok.
Fetches(r) ==
    {[ids |-> req[r].ids, ok |-> TRUE], [ids |-> catalogue, ok |-> TRUE],
     [ids |-> cache.ids, ok |-> FALSE],
     [ids |-> cache.ids, ok |-> cache.ids /= {}]}

\* Mutant: a failed fetch empties the cache.
CacheAfterEmptied(fetch) == IF fetch.ok THEN fetch.ids ELSE {}

CacheAfter(fetch) == IF fetch.ids = {} THEN cache.ids ELSE fetch.ids

\* The answer replaces the cache, whatever another request put there in the
\* meantime, and the cache is stamped with the time of asking, also when the
\* fetch failed and there is nothing in it.
EndFetch(r) ==
    /\ req[r].stage = "fetching"
    /\ \E fetch \in Fetches(r) :
         /\ cache' = [ids |-> CacheAfter(fetch), at |-> req[r].asked]
         /\ Decide(r, cache'.ids, fetch.ok)
         /\ fetched' = (fetched \/ fetch.ok)
    /\ UNCHANGED <<now, limiterVars, catalogue, sessionVars>>

OpenStore(s) ==
    /\ catalogue' = catalogue \cup {s}
    /\ UNCHANGED <<now, limiterVars, cache, fetched, req, sessionVars>>

----------------------------------------------------------------------------
(* The session *)

LastTurns(turns) ==
    IF Len(turns) <= Keep THEN turns
    ELSE SubSeq(turns, Len(turns) - Keep + 1, Len(turns))

NoEntry == [turns |-> << >>, until |-> 0]
Stored(entry) == now < entry.until

\* _load_session_history: the turns in Redis, which replace those in memory,
\* or those in memory when Redis is off, fails, or has none.
LoadHistory(r) ==
    /\ req[r].stage = "admitted"
    /\ \E fails \in IF redisOn THEN BOOLEAN ELSE {FALSE} :
         LET found == redisOn /\ ~fails /\ Stored(redis) /\ redis.turns /= << >>
             hist == IF found THEN LastTurns(redis.turns) ELSE mem
         IN /\ mem' = hist
            /\ req' = [req EXCEPT ![r] = [NewRequest EXCEPT !.stage = "running",
                                                            !.hist = hist]]
            /\ talk' = [talk EXCEPT !.outage = @ \/ fails]
    /\ UNCHANGED <<now, limiterVars, storeVars, redisOn, redis>>

\* A blank or a screened message is answered without a run.
TurnAway(r) ==
    /\ req[r].stage = "admitted"
    /\ Goes(r, "answered")
    /\ UNCHANGED <<now, limiterVars, storeVars, sessionVars>>

\* RedisSessionService.append_turn: nothing is appended to a session that is
\* not there.
AppendTurn(entry, turn, fails) ==
    IF fails \/ ~Stored(entry) THEN entry
    ELSE [turns |-> LastTurns(Append(entry.turns, turn)), until |-> now + SessionTTL]

\* Mutant: the session is not created.
EnsureNothing(fails) == redis

\* get_session, and create_session unless it found one.  A failed read finds
\* none: creating the session anew then empties it.
EnsureSession(fails) ==
    IF \/ Stored(redis) /\ "get" \notin fails
       \/ "create" \in fails
    THEN redis ELSE [turns |-> << >>, until |-> now + SessionTTL]

\* _persist_session_turns, which does not suspend: both turns go to memory
\* and to Redis.  Each of the calls to Redis may fail on its own.
EndRun(r) ==
    /\ req[r].stage = "running"
    /\ LET user == talk.said + 1
           reply == talk.said + 2
       IN \E fails \in IF redisOn THEN SUBSET {"connect", "get", "create", "user", "reply"}
                                  ELSE {{}} :
            /\ mem' = LastTurns(Append(LastTurns(Append(mem, user)), reply))
            /\ redis' = IF ~redisOn \/ "connect" \in fails THEN redis
                        ELSE AppendTurn(
                               AppendTurn(EnsureSession(fails), user, "user" \in fails),
                               reply, "reply" \in fails)
            /\ talk' = [talk EXCEPT !.said = reply, !.spoke = now,
                                    !.outage = @ \/ fails /= {}]
    /\ Goes(r, "answered")
    /\ UNCHANGED <<now, limiterVars, storeVars, redisOn>>

\* The run raises: the answer is an error and nothing is added.
FailRun(r) ==
    /\ req[r].stage = "running"
    /\ Goes(r, "answered")
    /\ UNCHANGED <<now, limiterVars, storeVars, sessionVars>>

----------------------------------------------------------------------------
(* The process *)

\* Everything in memory is lost, the requests in progress too.
Restart ==
    /\ hits' = [c \in Clients |-> << >>]
    /\ admitted' = [c \in Clients |-> << >>]
    /\ cache' = [ids |-> {}, at |-> -1 - CacheTTL]
    /\ fetched' = FALSE
    /\ mem' = << >>
    /\ req' = [r \in Requests |-> IF req[r].stage = "new" THEN req[r]
                                  ELSE [NewRequest EXCEPT !.stage = "over"]]
    /\ UNCHANGED <<now, catalogue, redisOn, redis, talk>>

Tick ==
    /\ now < MaxTime
    /\ now' = now + 1
    /\ talk' = [talk EXCEPT !.lapsed =
                  \/ @
                  \/ talk.said > 0 /\ now + 1 >= talk.spoke + SessionTTL]
    /\ UNCHANGED <<limiterVars, storeVars, req, mem, redisOn, redis>>

Init ==
    /\ now = 0
    /\ hits = [c \in Clients |-> << >>]
    /\ admitted = [c \in Clients |-> << >>]
    /\ cache = [ids |-> {}, at |-> -1 - CacheTTL]
    /\ catalogue = OldStores
    /\ fetched = FALSE
    /\ req = [r \in Requests |-> NewRequest]
    /\ mem = << >>
    /\ redisOn \in BOOLEAN
    /\ redis = NoEntry
    /\ talk = [said |-> 0, spoke |-> 0, lapsed |-> FALSE, outage |-> FALSE]

Next ==
    \/ \E r \in Requests :
         \/ \E c \in Clients, s \in Stores : Arrive(r, c, s)
         \/ CheckCached(r)
         \/ AskCatalogue(r)
         \/ EndFetch(r)
         \/ LoadHistory(r)
         \/ TurnAway(r)
         \/ EndRun(r)
         \/ FailRun(r)
    \/ \E s \in NewStores : OpenStore(s)
    \/ Restart
    \/ Tick

Spec == Init /\ [][Next]_vars

----------------------------------------------------------------------------
(* Properties *)

\* While the process lives, no stretch of time shorter than the window holds
\* more than Budget admitted requests of a client, wherever the stretch starts.
WindowBound ==
    \A c \in Clients : \A i \in 1..(Len(admitted[c]) - Budget) :
        admitted[c][i + Budget] - admitted[c][i] >= Window

\* Nobody is refused for what was itself refused, nor for a request a full
\* window old: whoever is refused had Budget requests admitted in the window.
RefusalsDeserved ==
    [][\A r \in Requests, c \in Clients, s \in Stores :
         Arrive(r, c, s) /\ req'[r].stage = "limited" =>
            Cardinality({i \in DOMAIN admitted[c] : now - admitted[c][i] < Window})
                >= Budget]_vars

\* Once the catalogue has been fetched, and until the process restarts, a store
\* that has always been there is not refused, and one that does not exist is
\* admitted only by a request whose own fetch failed: whatever fetches overlap,
\* answer late or fail, and whatever opens meanwhile.
VerdictsOnceFetched ==
    [][\A r \in Requests : req[r].stage \in {"arrived", "fetching"} /\ fetched' =>
         /\ ~(req'[r].stage = "unknown" /\ req[r].store \in OldStores)
         /\ req'[r].stage = "admitted" /\ req[r].store \notin catalogue => req'[r].blind]_vars

\* Trouble with the backend blocks no request for a store that has always been
\* there.  The code says so, and blocks it after a fetch that failed before any
\* succeeded.
TroubleNeverBlocks ==
    [][\A r \in Requests : req[r].stage \in {"arrived", "fetching"} =>
         ~(req'[r].stage = "unknown" /\ req[r].store \in OldStores)]_vars

\* The model sees the talk of its session.  The turns it is given were said in
\* that order, none twice.  Unless a call to Redis failed they are the latest
\* turns without a gap, and as many as are kept where Redis is used and the
\* session never stayed idle until it expired, also across restarts and
\* whatever requests overlap.
HistoryFollowsTalk ==
    [][\A r \in Requests :
         req[r].stage = "admitted" /\ req'[r].stage = "running" =>
           LET h == req'[r].hist
               n == Len(h)
           IN /\ \A i \in 1..(n - 1) : h[i] < h[i + 1]
              /\ n <= Keep
              /\ ~talk'.outage =>
                    \A i \in 1..n : h[i] = talk.said - n + i
              /\ redisOn /\ ~talk'.outage /\ ~talk.lapsed =>
                    n = IF talk.said < Keep THEN talk.said ELSE Keep]_vars
============================================================================
