------------------------------ MODULE CacheLayers ------------------------------
(***************************************************************************)
(* A read through the caches: first what the request has already, then     *)
(* Redis (or a map, under test), then the rows; what was loaded is stored  *)
(* on the way back.  A write changes the row and then evicts its key.      *)
(* Redis may be slow, gone, or behind an open circuit: its answers are     *)
(* then nothing, and a command it was given can still arrive later.        *)
(*                                                                         *)
(*   call    idle --Ask--> asking --GetMany--> missing --LoadMany-->       *)
(*           storing --SetMany--> found --Return--> answered --> idle      *)
(*   editor  idle --Open--> open --Commit--> written --Evict--> idle       *)
(*           under @Transactional outside of @CacheEvict:                  *)
(*           idle --Open--> open --Evict--> evicted --Commit--> idle       *)
(***************************************************************************)
EXTENDS Naturals, FiniteSets

CONSTANTS
  Row,         \* rows of one prefix, each under a key of its own
  Request,     \* HTTP requests that read
  Editor,      \* commands that write
  MaxVersion,  \* bound: versions of a row
  MaxLate,     \* bound: commands on their way to Redis
  None         \* what is under a key that is not there

ASSUME CacheBounds ==
  /\ Row # {} /\ MaxVersion \in Nat \ {0} /\ MaxLate \in Nat
  /\ None \notin 0 .. MaxVersion

VARIABLES
  provider,  \* CACHE_PROVIDER: "redis", or "memory" when NODE_ENV is test
  row,       \* version of each row, 0 when there is none
  kept,      \* under each key: None, a version, or 0 for a stored null
  breaker,   \* the circuit breaker around Redis
  late,      \* commands that timed out and are on their way to Redis
  own,       \* per request: what RequestContext.cache has of each row
  call,      \* per request: its call of a @Cacheable method
  editor,    \* per command: how far it is
  there,     \* per request: rows that were there all the time since it began
  overtaken,   \* per request: rows loaded by its call and written since
  excused    \* rows whose last eviction failed, came early, missed or was overtaken

stores == <<provider, row, kept, breaker, late>>
ghosts == <<there, overtaken, excused>>
cacheVars == <<provider, row, kept, breaker, late, own, call, editor, there, overtaken, excused>>

Version == 0 .. MaxVersion
Under == Version \cup {None}

\* "many" and "single" are the strategies of @Cacheable; "bare" is a service
\* that asks the provider itself.
CallState ==
  [step: {"idle", "asking", "missing", "storing", "found", "answered"},
   kind: {"many", "single", "bare"},
   ids: SUBSET Row, hits: SUBSET Row, nulls: SUBSET Row, loaded: SUBSET Row,
   got: [Row -> Version]]

NoCall == [step |-> "idle", kind |-> "many", ids |-> {}, hits |-> {}, nulls |-> {},
           loaded |-> {}, got |-> [r \in Row |-> 0]]

EditorState == [step: {"idle", "open", "written", "scanned", "evicted"}, row: Row,
                version: Version, how: {"key", "prefix", "inside", "other"}, seen: SUBSET Row]

NoEdit == [step |-> "idle", row |-> CHOOSE r \in Row : TRUE, version |-> 0, how |-> "key",
           seen |-> {}]

Exists == {r \in Row : row[r] # 0}

Init ==
  /\ provider \in {"redis", "memory"}
  /\ row \in [Row -> {0, 1}]
  /\ kept = [r \in Row |-> None]
  /\ breaker = "closed"
  /\ late = {}
  /\ own = [q \in Request |-> [r \in Row |-> {}]]
  /\ call = [q \in Request |-> NoCall]
  /\ editor = [e \in Editor |-> NoEdit]
  /\ there = [q \in Request |-> Exists]
  /\ overtaken = [q \in Request |-> {}]
  /\ excused = {}

-----------------------------------------------------------------------------
(* The circuit: 50% of at least ten commands failed or took 3 s. *)

Succeeds == breaker # "open" /\ breaker' = "closed"

\* A command that fails while the circuit is half open opens it again.
Fails ==
  /\ provider = "redis"
  /\ \/ breaker = "closed" /\ breaker' \in {"closed", "open"}
     \/ breaker \in {"halfOpen", "open"} /\ breaker' = "open"

\* resetTimeout
HalfOpen ==
  /\ breaker = "open"
  /\ breaker' = "halfOpen"
  /\ UNCHANGED <<provider, row, kept, late, own, call, editor, ghosts>>

\* Commands given to a Redis that does not answer in time: they may arrive.
MayArrive(commands) ==
  /\ late' \in {late} \cup (IF breaker = "open" THEN {} ELSE {late \cup commands})
  /\ Cardinality(late') <= MaxLate

\* A command that timed out reaches Redis after all.
Arrives == \E c \in late :
  /\ late' = late \ {c}
  /\ kept' = [kept EXCEPT ![c.row] = c.version]
  /\ excused' = IF c.version = None THEN excused \ {c.row} ELSE excused \cup {c.row}
  /\ UNCHANGED <<provider, row, breaker, own, call, editor, there, overtaken>>

\* EX ttl, expiresAt
Expire(r) ==
  /\ kept[r] # None
  /\ kept' = [kept EXCEPT ![r] = None]
  /\ excused' = excused \ {r}
  /\ UNCHANGED <<provider, row, breaker, late, own, call, editor, there, overtaken>>

-----------------------------------------------------------------------------
(* Reading *)

Calls(q, c) == call' = [call EXCEPT ![q] = c]

\* RequestCacheStore.get: what the request has, null included.
RequestHits(q, ids) == {r \in ids : own[q][r] # {}}

\* A call of a @Cacheable method; one that the request can answer asks no more.
Ask(q, kind, ids) ==
  /\ call[q].step = "idle"
  /\ LET hits == IF kind = "bare" THEN {} ELSE RequestHits(q, ids)
     IN  Calls(q, [NoCall EXCEPT !.step = IF hits = ids THEN "found" ELSE "asking",
                                 !.kind = kind, !.ids = ids, !.hits = hits])
  /\ UNCHANGED <<stores, own, editor, ghosts>>

CacheableMany(q) == \E ids \in SUBSET Row \ {{}} : Ask(q, "many", ids)
CacheableSingle(q) == \E r \in Row : Ask(q, "single", {r})
GetUserRoleIds(q) == \E r \in Row : Ask(q, "bare", {r})

Wanted(q) == call[q].ids \ call[q].hits

\* A stored null is no answer to get; getMany of Redis takes it for one.  The
\* list of the roles of one who has none is a list.
TakesNull(q) ==
  \/ call[q].kind = "many" /\ provider = "redis"
  \/ call[q].kind = "bare"

\* get, getMany: what is under the keys that are there.
Answer(q, answer) ==
  /\ call[q].step = "asking"
  /\ LET found == {r \in Wanted(q) : answer[r] \notin {None, 0}}
         nulls == {r \in Wanted(q) : answer[r] = 0 /\ TakesNull(q)}
     IN  Calls(q, [call[q] EXCEPT
                     !.step = IF found \cup nulls = Wanted(q) THEN "found" ELSE "missing",
                     !.nulls = nulls,
                     !.got = [r \in Row |-> IF r \in found THEN answer[r] ELSE 0]])
  /\ UNCHANGED <<provider, row, kept, late, own, editor, ghosts>>

GetMany(q) == Answer(q, kept) /\ Succeeds
GetManyFails(q) == Answer(q, [r \in Row |-> None]) /\ Fails

\* loader: only what is missing.
LoadMany(q) ==
  /\ call[q].step = "missing"
  /\ LET missing == {r \in Wanted(q) \ call[q].nulls : call[q].got[r] = 0}
     IN  Calls(q, [call[q] EXCEPT !.step = "storing", !.loaded = missing,
                                  !.got = [r \in Row |-> IF r \in missing THEN row[r] ELSE @[r]]])
  /\ UNCHANGED <<stores, own, editor, ghosts>>

\* What is stored again when something was found in Redis as well.
AlsoTheFound(q) == IF call[q].kind = "many" THEN {r \in Wanted(q) : call[q].got[r] # 0}
                                            ELSE call[q].loaded

\* setMany stores the rows there are; set stores null for one there is not.
Stored(q) == IF call[q].kind = "many" THEN {r \in call[q].loaded : call[q].got[r] # 0}
                                      ELSE call[q].loaded

SetMany(q) ==
  /\ call[q].step = "storing"
  /\ Calls(q, [call[q] EXCEPT !.step = "found", !.loaded = {}])
  /\ Succeeds
  /\ kept' = [r \in Row |-> IF r \in Stored(q) THEN call[q].got[r] ELSE kept[r]]
  /\ excused' = (excused \ Stored(q)) \cup (Stored(q) \cap overtaken[q])
  /\ overtaken' = [overtaken EXCEPT ![q] = {}]
  /\ UNCHANGED <<provider, row, late, own, editor, there>>

SetManyFails(q) ==
  /\ call[q].step = "storing"
  /\ Calls(q, [call[q] EXCEPT !.step = "found", !.loaded = {}])
  /\ Fails
  /\ MayArrive({[row |-> r, version |-> call[q].got[r]] : r \in Stored(q)})
  /\ overtaken' = [overtaken EXCEPT ![q] = {}]
  /\ UNCHANGED <<provider, row, kept, own, editor, there, excused>>

OnlyWhatWasAsked(q) == call[q].got

\* new Map([...requestHits, ...redisResult])
Merged(q) ==
  [r \in Row |-> IF r \in call[q].hits THEN CHOOSE v \in own[q][r] : TRUE ELSE call[q].got[r]]

Remembered(q, r) ==
  \/ call[q].kind = "single"
  \/ call[q].kind = "many" /\ call[q].got[r] # 0

\* RequestCacheStore.set: what came from below, null too when it was one.
Return(q) ==
  /\ call[q].step = "found"
  /\ own' = [own EXCEPT ![q] = [r \in Row |->
               IF r \in Wanted(q) /\ Remembered(q, r) THEN {call[q].got[r]} ELSE @[r]]]
  /\ Calls(q, [call[q] EXCEPT !.step = "answered", !.got = Merged(q)])
  /\ UNCHANGED <<stores, editor, ghosts>>

Continue(q) ==
  /\ call[q].step = "answered"
  /\ Calls(q, NoCall)
  /\ UNCHANGED <<stores, own, editor, ghosts>>

\* The context of a request goes with it.
EndRequest(q) ==
  /\ call[q].step = "answered"
  /\ Calls(q, NoCall)
  /\ own' = [own EXCEPT ![q] = [r \in Row |-> {}]]
  /\ there' = [there EXCEPT ![q] = Exists]
  /\ UNCHANGED <<stores, editor, overtaken, excused>>

-----------------------------------------------------------------------------
(* Writing *)

Edits(e, s) == editor' = [editor EXCEPT ![e] = s]

\* The row is changed, removed, or made; no version is ever used again.
Changes(old, new) ==
  \/ new = old + 1 /\ old # 0
  \/ new = MaxVersion /\ old = 0
  \/ new = 0 /\ old \notin {0, MaxVersion}

Open(e) == \E r \in Row, v \in Version, how \in {"key", "prefix", "inside", "other"} :
  /\ editor[e].step = "idle"
  /\ Changes(row[r], v)
  /\ \A f \in Editor \ {e} : editor[f].step # "idle" => editor[f].row # r
  /\ Edits(e, [step |-> "open", row |-> r, version |-> v, how |-> how, seen |-> {}])
  /\ UNCHANGED <<stores, own, call, ghosts>>

\* Where the method throws, CacheEvict evicts nothing.
Rollback(e) ==
  /\ editor[e].step \in {"open", "evicted"}
  /\ Edits(e, NoEdit)
  /\ UNCHANGED <<stores, own, call, ghosts>>

\* "other": the key that the method evicts is not the one its row is under.
EvictsAfter(e) == editor[e].how \in {"key", "prefix"}
EvictsBefore(e) == editor[e].how = "inside"
CommitsAt(e) == IF EvictsBefore(e) THEN "evicted" ELSE "open"

Commit(e) == LET r == editor[e].row IN
  /\ editor[e].step = CommitsAt(e)
  /\ row' = [row EXCEPT ![r] = editor[e].version]
  /\ there' = [q \in Request |-> there[q] \ {s \in {r} : editor[e].version = 0}]
  /\ overtaken' = [q \in Request |-> overtaken[q] \cup ({r} \cap call[q].loaded)]
  /\ excused' = IF EvictsAfter(e) THEN excused ELSE excused \cup {r}
  /\ Edits(e, IF EvictsAfter(e) THEN [editor[e] EXCEPT !.step = "written"] ELSE NoEdit)
  /\ UNCHANGED <<provider, kept, breaker, late, own, call>>

\* delByPattern: SCAN first.
Scan(e) ==
  /\ editor[e].step = "written" /\ editor[e].how = "prefix"
  /\ Edits(e, [editor[e] EXCEPT !.step = "scanned", !.seen = {r \in Row : kept[r] # None}])
  /\ Succeeds
  /\ UNCHANGED <<provider, row, kept, late, own, call, ghosts>>

Evicts(e, rows) ==
  \/ editor[e].step = "written" /\ editor[e].how = "key" /\ rows = {editor[e].row}
  \/ editor[e].step = "open" /\ editor[e].how = "inside" /\ rows = {editor[e].row}
  \/ editor[e].step = "scanned" /\ rows = editor[e].seen

Evicted(e) == Edits(e, IF EvictsBefore(e) THEN [editor[e] EXCEPT !.step = "evicted"] ELSE NoEdit)

\* del, and the UNLINKs after the SCAN
Evict(e) == \E rows \in SUBSET Row :
  /\ Evicts(e, rows)
  /\ Evicted(e)
  /\ Succeeds
  /\ kept' = [r \in Row |-> IF r \in rows THEN None ELSE kept[r]]
  /\ excused' = excused \ rows
  /\ UNCHANGED <<provider, row, late, own, call, there, overtaken>>

\* The write stands: the warning is all there is of it.
EvictFails(e) == \E rows \in SUBSET Row :
  /\ \/ Evicts(e, rows)
     \/ editor[e].step = "written" /\ editor[e].how = "prefix" /\ rows = {}
  /\ Evicted(e)
  /\ Fails
  /\ MayArrive({[row |-> r, version |-> None] : r \in rows})
  /\ excused' = excused \cup rows \cup {editor[e].row}
  /\ UNCHANGED <<provider, row, kept, own, call, there, overtaken>>

-----------------------------------------------------------------------------

Cacheable(q) == CacheableMany(q) \/ CacheableSingle(q) \/ Return(q)
CacheEvict(e) == Open(e) \/ Rollback(e) \/ Commit(e)
PermissionCacheService(q) == GetUserRoleIds(q)
RequestContext(q) == Continue(q) \/ EndRequest(q)

RedisCacheProvider ==
  \/ \E q \in Request : GetManyFails(q) \/ SetManyFails(q)
  \/ \E e \in Editor : EvictFails(e)
  \/ HalfOpen \/ Arrives

InMemoryCacheProvider ==
  \/ \E q \in Request : GetMany(q) \/ LoadMany(q) \/ SetMany(q)
  \/ \E e \in Editor : Scan(e) \/ Evict(e)
  \/ \E r \in Row : Expire(r)

Next ==
  \/ \E q \in Request : Cacheable(q) \/ PermissionCacheService(q) \/ RequestContext(q)
  \/ \E e \in Editor : CacheEvict(e)
  \/ InMemoryCacheProvider
  \/ provider = "redis" /\ RedisCacheProvider

Spec == Init /\ [][Next]_cacheVars

-----------------------------------------------------------------------------

TypeOK ==
  /\ provider \in {"redis", "memory"}
  /\ row \in [Row -> Version] /\ kept \in [Row -> Under]
  /\ breaker \in {"closed", "open", "halfOpen"}
  /\ late \subseteq [row: Row, version: Under]
  /\ own \in [Request -> [Row -> SUBSET Version]]
  /\ call \in [Request -> CallState]
  /\ editor \in [Editor -> EditorState]
  /\ there \in [Request -> SUBSET Row]
  /\ overtaken \in [Request -> SUBSET Row]
  /\ excused \in SUBSET Row

\* A version that is no longer the row's is kept, or a null though the row is
\* there, only while the eviction of the command that wrote the row is still to
\* come, or for a reason that can be named: the eviction failed, was made before
\* the commit, missed the key, was overtaken by a call that had loaded the row
\* before, or Redis got an old command late.
StaleNeedsAnExcuse == \A r \in Row :
  kept[r] \notin {None, row[r]} =>
    \/ r \in excused
    \/ \E e \in Editor : editor[e].row = r /\ editor[e].step \in {"written", "scanned"}

\* A row that was there ever since the request began is in what the caller of
\* a cached method gets, whatever Redis does not answer and whoever asked before.
\* Only a null that is under its key takes its place, which StaleNeedsAnExcuse
\* accounts for, and never in a read of one row by @Cacheable.
EveryRowIsAnswered == \A q \in Request :
  call[q].step = "answered" => \A r \in call[q].ids \cap there[q] :
    call[q].got[r] # 0 \/ (r \in call[q].nulls /\ call[q].kind # "single")
=============================================================================
