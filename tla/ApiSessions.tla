----------------------------- MODULE ApiSessions -----------------------------
(***************************************************************************)
(* The state of the API process (api/auth.py, api/deps.py, api/app.py):     *)
(* signed session cookies that expire and can be revoked, the sliding       *)
(* window that limits logins, and the configuration that is kept in memory  *)
(* and written to a file.  The routes are plain functions: each request runs*)
(* in a thread of the pool, without a lock.  Times are ages, in ticks.      *)
(***************************************************************************)
EXTENDS Integers, Sequences, FiniteSets

CONSTANTS
    Clients,        \* client addresses, each with its cookie jar
    Threads,        \* threads of the pool that serve requests
    MaxAttempts,    \* LOGIN_RATE_LIMIT_MAX_ATTEMPTS
    WindowTicks,    \* LOGIN_RATE_LIMIT_WINDOW_SECONDS
    MaxAge,         \* SIGNER_MAX_AGE_SECONDS
    Fields,         \* fields of the configuration
    Values,         \* their values
    MaxTokens,      \* bound: cookies signed
    MaxPause        \* bound: ticks that one login takes

ASSUME ApiAssumption == {MaxAttempts, WindowTicks, MaxAge, MaxTokens, MaxPause} \subseteq Nat

VARIABLES
    serving,    \* is the process up
    tokens,     \* age of each signed cookie, in the order they were signed
    jar,        \* per client: the cookie it sends (a number), 0 for none
    revoked,    \* _revoked_hashes of the process
    attempts,   \* per client: ages of the attempts in its bucket, oldest first
    request,    \* per thread: the request it serves and how far it is
    config,     \* _config_state
    file,       \* data/api_config.json: its content, if it is whole
    allowed,    \* history, per client: ages of the logins let through in the last window,
                \* the newest MaxAttempts + 1 of them
    strained,   \* history, per client: time since two of its logins overlapped, or a restart
    mixed       \* history: the last update overlapped another, or its write failed

apiVars == <<serving, tokens, jar, revoked, attempts, request, config, file, allowed, strained, mixed>>
loginVars == <<attempts, allowed, strained>>
configVars == <<config, file, mixed>>

Unset == 0
Empty == [f \in Fields |-> Unset]

NoRequest == [at |-> "idle"]
Requests ==
    {NoRequest}
    \cup [at : {"looking", "popping", "passed"}, client : Clients, age : 0 .. MaxPause]
    \cup [at : {"authorised", "updated"}, field : Fields, value : Values]
    \cup [at : {"dumped", "writing", "overwritten"}, content : [Fields -> Values \cup {Unset}]]

LoggingIn(w) == request[w].at \in {"looking", "popping", "passed"}
Writing(w) == request[w].at \in {"updated", "dumped", "writing", "overwritten"}

\* Without a secret create_app refuses to start; it is the same at every start.
ApiInit ==
    /\ serving = TRUE
    /\ tokens = <<>>
    /\ jar = [c \in Clients |-> 0]
    /\ revoked = {}
    /\ attempts = [c \in Clients |-> <<>>]
    /\ request = [w \in Threads |-> NoRequest]
    /\ config = Empty
    /\ file = [whole |-> TRUE, content |-> Empty]
    /\ allowed = [c \in Clients |-> <<>>]
    /\ strained = [c \in Clients |-> WindowTicks + 1]
    /\ mixed = FALSE

Unsign(token) == token # 0 /\ token \notin revoked /\ tokens[token] <= MaxAge

-----------------------------------------------------------------------------
\* The clock is read first; a client's bucket may hold other calls' attempts by
\* the time this one looks at it.
LoginStarts(w, c) ==
    /\ serving
    /\ request[w] = NoRequest
    /\ request' = [request EXCEPT ![w] = [at |-> "looking", client |-> c, age |-> 0]]
    /\ strained' = IF \E v \in Threads : LoggingIn(v) /\ request[v].client = c
                   THEN [strained EXCEPT ![c] = 0]
                   ELSE strained
    /\ UNCHANGED <<serving, tokens, jar, revoked, attempts, allowed, configVars>>

\* Mutant: the window ends a tick early.
OverdueEarly(age, now) == age - now >= WindowTicks

Overdue(age, now) == age - now > WindowTicks
FrontOverdue(w) ==
    LET bucket == attempts[request[w].client]
    IN  bucket # <<>> /\ Overdue(bucket[1], request[w].age)

LoginFindsOld(w) ==
    /\ request[w].at = "looking"
    /\ FrontOverdue(w)
    /\ request' = [request EXCEPT ![w].at = "popping"]
    /\ UNCHANGED <<serving, tokens, jar, revoked, loginVars, configVars>>

\* By now another call may have popped it: this one takes the next, or fails.
LoginPops(w) ==
    LET c == request[w].client
    IN  /\ request[w].at = "popping"
        /\ \/ /\ attempts[c] # <<>>
              /\ attempts' = [attempts EXCEPT ![c] = Tail(@)]
              /\ request' = [request EXCEPT ![w].at = "looking"]
           \/ /\ attempts[c] = <<>>
              /\ request' = [request EXCEPT ![w] = NoRequest]
              /\ UNCHANGED attempts
        /\ UNCHANGED <<serving, tokens, jar, revoked, allowed, strained, configVars>>

\* A refused attempt is not recorded.
LoginLimited(w) ==
    /\ request[w].at = "looking"
    /\ ~FrontOverdue(w)
    /\ Len(attempts[request[w].client]) >= MaxAttempts
    /\ request' = [request EXCEPT ![w] = NoRequest]
    /\ UNCHANGED <<serving, tokens, jar, revoked, loginVars, configVars>>

LoginPasses(w) ==
    /\ request[w].at = "looking"
    /\ ~FrontOverdue(w)
    /\ Len(attempts[request[w].client]) < MaxAttempts
    /\ request' = [request EXCEPT ![w].at = "passed"]
    /\ allowed' = [allowed EXCEPT ![request[w].client] =
          LET since == IF Len(@) > MaxAttempts THEN Tail(@) ELSE @
          IN  Append(since, request[w].age)]
    /\ UNCHANGED <<serving, tokens, jar, revoked, attempts, strained, configVars>>

\* The attempt goes into the bucket; then the password is looked at.
Recorded(w) ==
    /\ request[w].at = "passed"
    /\ attempts' = [attempts EXCEPT ![request[w].client] = Append(@, request[w].age)]
    /\ request' = [request EXCEPT ![w] = NoRequest]

LoginRefused(w) ==
    /\ Recorded(w)
    /\ UNCHANGED <<serving, tokens, jar, revoked, allowed, strained, configVars>>

\* The right password: every session is one of the single operator.
LoginAccepted(w) ==
    /\ Recorded(w)
    /\ Len(tokens) < MaxTokens
    /\ tokens' = Append(tokens, 0)
    /\ jar' = [jar EXCEPT ![request[w].client] = Len(tokens) + 1]
    /\ UNCHANGED <<serving, revoked, allowed, strained, configVars>>

\* logout. (logout-all and the reset of the configuration ask for the role ADMIN,
\* which authenticate_operator gives nobody.)
Logout(c) ==
    /\ serving
    /\ Unsign(jar[c])
    /\ revoked' = revoked \cup {jar[c]}
    /\ jar' = [jar EXCEPT ![c] = 0]
    /\ UNCHANGED <<serving, tokens, request, loginVars, configVars>>

-----------------------------------------------------------------------------
\* put_config: the dependency reads the cookie in one call of the pool, the route
\* runs in another; the cookie may be logged out or expire in between.
PutAuthorised(w, c, f, v) ==
    /\ serving
    /\ request[w] = NoRequest
    /\ Unsign(jar[c])
    /\ request' = [request EXCEPT ![w] = [at |-> "authorised", field |-> f, value |-> v]]
    /\ UNCHANGED <<serving, tokens, jar, revoked, loginVars, configVars>>

PutUpdates(w) ==
    /\ request[w].at = "authorised"
    /\ config' = [config EXCEPT ![request[w].field] = request[w].value]
    /\ request' = [request EXCEPT ![w].at = "updated"]
    /\ mixed' = \E v \in Threads : Writing(v)
    /\ UNCHANGED <<serving, tokens, jar, revoked, loginVars, file>>

\* Mutant: what is written is the update, not the configuration it went into.
DumpingUpdate(w) ==
    [at |-> "dumped", content |-> [Empty EXCEPT ![request[w].field] = request[w].value]]

Dumping(w) == [at |-> "dumped", content |-> config]

PutDumps(w) ==
    /\ request[w].at = "updated"
    /\ request' = [request EXCEPT ![w] = Dumping(w)]
    /\ UNCHANGED <<serving, tokens, jar, revoked, loginVars, configVars>>

\* write_text rewrites the file in place: opening it truncates it.
PutOpens(w) ==
    /\ request[w].at = "dumped"
    /\ file' = [file EXCEPT !.whole = FALSE]
    /\ request' = [request EXCEPT ![w].at = "writing"]
    /\ UNCHANGED <<serving, tokens, jar, revoked, loginVars, config, mixed>>

\* Over what another thread wrote meanwhile, the rest of its text may stay behind.
PutWrites(w) ==
    /\ request[w].at \in {"writing", "overwritten"}
    /\ \E whole \in {TRUE, request[w].at = "writing"} :
          file' = [whole |-> whole, content |-> request[w].content]
    /\ request' = [v \in Threads |->
          CASE v = w -> NoRequest
            [] v # w /\ request[v].at = "writing" -> [request[v] EXCEPT !.at = "overwritten"]
            [] OTHER -> request[v]]
    /\ UNCHANGED <<serving, tokens, jar, revoked, loginVars, config, mixed>>

\* The disk is full: the route raises, the configuration in memory stays updated.
PutFails(w) ==
    /\ request[w].at \in {"dumped", "writing", "overwritten"}
    /\ request' = [request EXCEPT ![w] = NoRequest]
    /\ mixed' = TRUE
    /\ UNCHANGED <<serving, tokens, jar, revoked, loginVars, config, file>>

-----------------------------------------------------------------------------
\* The process ends, perhaps in the middle of requests.
Stop ==
    /\ serving
    /\ serving' = FALSE
    /\ request' = [w \in Threads |-> NoRequest]
    /\ UNCHANGED <<tokens, jar, revoked, loginVars, configVars>>

Loaded == IF file.whole THEN file.content ELSE Empty

\* The denylist, the buckets and, with half a file, the configuration are gone.
Serve ==
    /\ ~serving
    /\ serving' = TRUE
    /\ revoked' = {}
    /\ attempts' = [c \in Clients |-> <<>>]
    /\ strained' = [c \in Clients |-> 0]
    /\ config' = Loaded
    /\ mixed' = FALSE
    /\ UNCHANGED <<tokens, jar, request, allowed, file>>

\* The same cookie sent from elsewhere: another browser or a saved request.
Reuse(c, token) ==
    /\ jar' = [jar EXCEPT ![c] = token]
    /\ UNCHANGED <<serving, tokens, revoked, request, loginVars, configVars>>

Overlapping(c) ==
    \E w, v \in Threads : /\ w # v /\ LoggingIn(w) /\ LoggingIn(v)
                          /\ request[w].client = c /\ request[v].client = c

\* A thread is not held up for longer than MaxPause.
ApiTick ==
    LET Older(age, cap) == IF age > cap THEN age ELSE age + 1
        InWindow(age) == age <= WindowTicks
    IN  /\ \A w \in Threads : LoggingIn(w) => request[w].age < MaxPause
        /\ request' = [w \in Threads |-> IF LoggingIn(w) THEN [request[w] EXCEPT !.age = @ + 1]
                                                         ELSE request[w]]
        /\ tokens' = [i \in DOMAIN tokens |-> Older(tokens[i], MaxAge)]
        /\ attempts' = [c \in Clients |->
              [i \in DOMAIN attempts[c] |-> Older(attempts[c][i], WindowTicks + MaxPause)]]
        /\ allowed' = [c \in Clients |->
              SelectSeq([i \in DOMAIN allowed[c] |-> allowed[c][i] + 1], InWindow)]
        /\ strained' = [c \in Clients |-> IF Overlapping(c) THEN 0 ELSE Older(strained[c], WindowTicks)]
        /\ UNCHANGED <<serving, jar, revoked, configVars>>

ApiNext ==
    \/ ApiTick \/ Stop \/ Serve
    \/ \E c \in Clients : Logout(c) \/ \E token \in 1 .. Len(tokens) : Reuse(c, token)
    \/ \E w \in Threads :
        \/ \E c \in Clients : LoginStarts(w, c)
        \/ LoginFindsOld(w) \/ LoginPops(w) \/ LoginLimited(w) \/ LoginPasses(w)
        \/ LoginRefused(w) \/ LoginAccepted(w)
        \/ \E c \in Clients, f \in Fields, v \in Values : PutAuthorised(w, c, f, v)
        \/ PutUpdates(w) \/ PutDumps(w) \/ PutOpens(w) \/ PutWrites(w) \/ PutFails(w)

ApiSpec == ApiInit /\ [][ApiNext]_apiVars

-----------------------------------------------------------------------------
ApiTypeOK ==
    /\ jar \in [Clients -> 0 .. MaxTokens]
    /\ revoked \subseteq 1 .. MaxTokens
    /\ request \in [Threads -> Requests]
    /\ config \in [Fields -> Values \cup {Unset}]
    /\ file \in [whole : BOOLEAN, content : [Fields -> Values \cup {Unset}]]

\* When more than MaxAttempts logins of one client were let through within one
\* window, two of its logins overlapped in that window, or the process restarted:
\* refused and accepted attempts, pauses and expiring stamps in any order do not
\* lead to it (auth.py:223-225).
ExcessNeedsOverlap ==
    \A c \in Clients : Len(allowed[c]) > MaxAttempts => strained[c] <= WindowTicks

\* Between two updates a restart would load the configuration the process has,
\* unless the last update overlapped another or its write failed (app.py:296:
\* the configuration is persisted "so PUT/DELETE survive restart").
ConfigIsPersisted ==
    serving /\ ~mixed /\ ~(\E w \in Threads : Writing(w)) => config = Loaded

\* What the comments promise without a condition; README.md lists what breaks them.
LoginsWithinWindow == \A c \in Clients : Len(allowed[c]) <= MaxAttempts
SettledConfigIsPersisted == serving /\ ~(\E w \in Threads : Writing(w)) => config = Loaded
=============================================================================
