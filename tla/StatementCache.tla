--------------------------- MODULE StatementCache ---------------------------
(***************************************************************************)
(* Statement caching of the pool's clients (src/utils/statement-names.ts,  *)
(* src/pool/pg-bridge-client.ts, src/pool/session-registry.ts).  All       *)
(* clients share the prepared statements of one PostgreSQL session, and    *)
(* each keeps books of its own: a generator that names a text on its       *)
(* MinUsages-th sighting, pg's parse-skip cache, the fields cache of       *)
(* FastQuery.  The books are kept right by evictions, Closes that ride     *)
(* the next query's batch, and a DEALLOCATE that is propagated to every    *)
(* live client once it has succeeded.                                      *)
(*                                                                         *)
(* The session lock and PGlite's mutex appear as the line of submitted     *)
(* batches; Duplex models them.  PGlite and pg are external.               *)
(***************************************************************************)
EXTENDS Naturals, FiniteSets, SequencesExt

CONSTANTS Clients, Texts,
          Capacity,     \* names held at once, and sightings counted at once
          MinUsages,    \* sightings before a text earns its name
          MaxCalls,     \* bound on the calls of query(), all clients together
          Nobody        \* no client

ASSUME CacheAssumption == /\ Capacity \in Nat \ {0} /\ MinUsages \in Nat \ {0}
                          /\ MaxCalls \in Nat /\ IsFiniteSet(Clients) /\ Nobody \notin Clients
                          /\ "connect" \notin Texts    \* the wipe of a connecting client

VARIABLES
    \* the session
    prepared,       \* [name, text] of every prepared statement
    line,           \* batches submitted and not yet executed, oldest first
    holder,         \* whose transaction is open
    \* per client
    phase,          \* "new", "live" (in liveClients), "ended", "removed"
    counts,         \* the generator's sightings, least recent first
    names,          \* its named texts, least recently used first
    seq,            \* promotions so far
    pendingCloses,  \* evicted names whose Close is not yet written
    pipeline,       \* Closes the duplex holds for the next extended batch
    parsed,         \* connection.parsedStatements: [name, text]
    fieldsCache,    \* names whose result fields are known
    chain,          \* queries called and not settled, the head being worked on
    handed,         \* the first ordinary one of them is pg's, its Closes written
    revived,        \* ghost: evicted names that a waiting query parsed again
    \* all clients together
    liveClientCount,
    evicting,       \* a DEALLOCATE that succeeded and is not yet propagated
    calls           \* query() calls so far

sessionVars == <<prepared, line, holder>>
generatorVars == <<counts, names, seq>>
bookVars == <<pendingCloses, pipeline, parsed, fieldsCache, revived>>
chainVars == <<chain, handed>>
cacheVars == <<sessionVars, generatorVars, bookVars, chainVars, phase, liveClientCount, evicting,
               calls>>

\* A name carries its client's namespace; "none" stands for an unnamed query.
Names == [by : Clients, seq : Nat]
unnamed == [by |-> Nobody, seq |-> 0]
everything == [by |-> Nobody, seq |-> 1]        \* the scope of DEALLOCATE ALL

Covers(scope, name) == scope \in {everything, name}
noEviction == [by |-> Nobody, scope |-> unnamed]

CacheInit ==
    /\ prepared = {} /\ line = <<>> /\ holder = Nobody
    /\ phase = [c \in Clients |-> "new"]
    /\ counts = [c \in Clients |-> <<>>] /\ names = [c \in Clients |-> <<>>]
    /\ seq = [c \in Clients |-> 0]
    /\ pendingCloses = [c \in Clients |-> <<>>] /\ pipeline = [c \in Clients |-> <<>>]
    /\ parsed = [c \in Clients |-> {}] /\ fieldsCache = [c \in Clients |-> {}]
    /\ chain = [c \in Clients |-> <<>>] /\ handed = [c \in Clients |-> FALSE]
    /\ revived = [c \in Clients |-> {}]
    /\ liveClientCount = 0 /\ evicting = noEviction /\ calls = 0

-----------------------------------------------------------------------------
(* The name generator: each outcome of one sighting of a text.              *)

Named(c, text) == \E e \in ToSet(names[c]) : e.text = text
NameOf(c, text) == (CHOOSE e \in ToSet(names[c]) : e.text = text).name

Sightings(c, text) ==
    IF \E e \in ToSet(counts[c]) : e.text = text
    THEN (CHOOSE e \in ToSet(counts[c]) : e.text = text).count ELSE 0

\* The entry of a text is deleted, if there is one.
Others(s, text) ==
    IF \E k \in 1..Len(s) : s[k].text = text
    THEN RemoveAt(s, CHOOSE k \in 1..Len(s) : s[k].text = text) ELSE s

\* A hit makes the name the most recently used one.
Hit(c, text) ==
    /\ names' = [names EXCEPT ![c] = Append(Others(@, text),
                                            [text |-> text, name |-> NameOf(c, text)])]
    /\ UNCHANGED <<counts, seq>>

\* Mutant of Count: counters are never displaced.
CountAll(c, text) ==
    /\ counts' = [counts EXCEPT ![c] = Append(Others(@, text),
                     [text |-> text, count |-> Sightings(c, text) + 1])]
    /\ UNCHANGED <<names, seq>>

\* Below the gate the sighting is counted, as the most recent; past capacity
\* the least recent counter goes.
Count(c, text) ==
    LET all == Append(Others(counts[c], text), [text |-> text, count |-> Sightings(c, text) + 1])
    IN  /\ counts' = [counts EXCEPT ![c] = IF Len(all) > Capacity THEN Tail(all) ELSE all]
        /\ UNCHANGED <<names, seq>>

Full(c) == Len(names[c]) >= Capacity
Fresh(c) == [by |-> c, seq |-> seq[c]]

\* Mutant of Promote: the number of names held serves as the next number.
PromoteBySize(c, text) ==
    LET kept == IF Full(c) THEN Tail(names[c]) ELSE names[c]
    IN  /\ counts' = [counts EXCEPT ![c] = Others(@, text)]
        /\ names' = [names EXCEPT ![c] =
                       Append(kept, [text |-> text, name |-> [by |-> c, seq |-> Len(kept)]])]
        /\ UNCHANGED seq

\* At the gate the text gets a name that was never used before.
Promote(c, text) ==
    /\ counts' = [counts EXCEPT ![c] = Others(@, text)]
    /\ names' = [names EXCEPT ![c] = Append(IF Full(c) THEN Tail(@) ELSE @,
                                            [text |-> text, name |-> Fresh(c)])]
    /\ seq' = [seq EXCEPT ![c] = @ + 1]

\* Mutant of Evicted: nobody is told.
EvictedSilently(c) == <<>>
\* onEvict: what the promotion displaces awaits its Close.
Evicted(c) == IF Full(c) THEN <<Head(names[c]).name>> ELSE <<>>

-----------------------------------------------------------------------------
(* Submission.                                                              *)

\* What flushPendingCloses drops from the client's books.
Freed(closes) == ToSet(closes)

Extended(q) == q.kind \in {"named", "unnamed"}

\* Every query but a Submittable extends the submission chain.
Ordinary(q) == q.kind # "submittable"
HasOrdinary(s) == \E k \in 1..Len(s) : Ordinary(s[k])

\* flushPendingCloses: the duplex holds the Closes for the next extended batch.
flush(c, closes) ==
    /\ pipeline' = [pipeline EXCEPT ![c] = @ \o closes]
    /\ parsed' = [parsed EXCEPT ![c] = {s \in @ : s.name \notin Freed(closes)}]
    /\ fieldsCache' = [fieldsCache EXCEPT ![c] = @ \ Freed(closes)]

\* flushPendingCloses, then the query itself.  The Closes reach PGlite with the
\* next extended batch; a simple query overtakes them.
submit(c, q, closes) ==
    LET kept == {s \in parsed[c] : s.name \notin Freed(closes)}
        held == pipeline[c] \o closes
        parse == q.kind = "named" /\ \A s \in kept : s.name # q.name
    IN  /\ pipeline' = [pipeline EXCEPT ![c] = IF Extended(q) THEN <<>> ELSE held]
        /\ parsed' = [parsed EXCEPT ![c] = kept]
        /\ fieldsCache' = [fieldsCache EXCEPT ![c] = @ \ Freed(closes)]
        /\ line' = Append(line, [by |-> c, query |-> q, parse |-> parse,
                                 closes |-> IF Extended(q) THEN held ELSE <<>>,
                                 raced |-> Covers(evicting.scope, q.name)])
        /\ revived' = [revived EXCEPT ![c] =
                         IF parse /\ ~\E e \in ToSet(names'[c]) : e.name = q.name
                         THEN @ \cup {q.name} ELSE @]

\* submitWithCloses: an ordinary query is handed to pg when no other is before it
\* in the chain, and only then are the pending Closes written.
hand(c, closes, handsOver) ==
    /\ handed' = [handed EXCEPT ![c] = @ \/ handsOver]
    /\ pendingCloses' = [pendingCloses EXCEPT ![c] = IF handsOver THEN <<>> ELSE closes]

\* query(): submitted at once when nothing is under way.  Behind Submittables
\* alone an ordinary query is handed over, and waits in pg's queue.
enqueue(c, q, closes) ==
    LET handsOver == Ordinary(q) /\ ~HasOrdinary(chain[c])
        written == IF handsOver THEN closes ELSE <<>>
    IN  /\ chain' = [chain EXCEPT ![c] = Append(@, q)]
        /\ hand(c, closes, handsOver)
        /\ IF chain[c] = <<>>
           THEN submit(c, q, written)
           ELSE flush(c, written) /\ UNCHANGED <<line, revived>>

Query(kind, name, text, scope) ==
    [kind |-> kind, name |-> name, text |-> text, scope |-> scope]

Calls(c) == /\ phase[c] = "live" /\ calls < MaxCalls /\ calls' = calls + 1
            /\ UNCHANGED <<prepared, holder, phase, liveClientCount, evicting>>

\* A parameterised DML query.
queryDml(c, text) ==
    /\ Calls(c)
    /\ \/ /\ Named(c, text)
          /\ Hit(c, text)
          /\ enqueue(c, Query("named", NameOf(c, text), text, unnamed), pendingCloses[c])
       \/ /\ ~Named(c, text) /\ Sightings(c, text) + 1 < MinUsages
          /\ Count(c, text)
          /\ enqueue(c, Query("unnamed", unnamed, text, unnamed), pendingCloses[c])
       \/ /\ ~Named(c, text) /\ Sightings(c, text) + 1 >= MinUsages
          /\ Promote(c, text)
          /\ enqueue(c, Query("named", names'[c][Len(names'[c])].name, text, unnamed),
                     pendingCloses[c] \o Evicted(c))

\* Anything sent on the simple protocol: transaction control, DEALLOCATE and
\* DISCARD ALL as a promise query or as a Submittable.
querySimple(c, kind, scope) ==
    /\ Calls(c)
    /\ UNCHANGED generatorVars
    /\ enqueue(c, Query(kind, unnamed, "", scope), pendingCloses[c])

Scopes == {everything} \cup {s.name : s \in prepared}

queryOther(c) == \/ querySimple(c, "simple", unnamed)
                 \/ \E kind \in {"deallocate", "submittable"}, scope \in Scopes :
                       querySimple(c, kind, scope)

InLine(c) == \E k \in 1..Len(line) : line[k].by = c

\* The chain goes on to the next query when the one before it has settled: with
\* Submittables next, the ordinary query behind them is handed over with them.
SubmitNext(c) ==
    /\ phase[c] = "live" /\ chain[c] # <<>> /\ ~InLine(c) /\ evicting.by # c
    /\ UNCHANGED <<prepared, holder, generatorVars, phase, chain, liveClientCount, evicting, calls>>
    /\ LET handsOver == HasOrdinary(chain[c]) /\ ~handed[c]
       IN  /\ hand(c, pendingCloses[c], handsOver)
           /\ submit(c, Head(chain[c]), IF handsOver THEN pendingCloses[c] ELSE <<>>)

\* query_timeout expires while a query waits for an ordinary one before it: its
\* turn will pass, nothing is sent.  Its name stays promoted, and the Closes that
\* it would have written wait for the next query.  A timeout that expires later
\* changes nothing here: the call runs on, and the chain goes by its completion.
TimedOut(c) ==
    /\ phase[c] = "live"
    /\ \E k \in 2..Len(chain[c]) :
          /\ Ordinary(chain[c][k]) /\ HasOrdinary(SubSeq(chain[c], 1, k - 1))
          /\ chain' = [chain EXCEPT ![c] = RemoveAt(@, k)]
    /\ UNCHANGED <<sessionVars, generatorVars, bookVars, handed, phase, liveClientCount, evicting,
                   calls>>

-----------------------------------------------------------------------------
(* Execution.  A batch waits for the session: for the transaction that holds *)
(* it, otherwise first come first served.  A DEALLOCATE is propagated before *)
(* the next batch starts: the promise that brings it settles within three    *)
(* hops, the session passes on only through the rest of the call, the mutex  *)
(* and the readiness check of the next.                                      *)

Turn(k) == /\ k \in 1..Len(line) /\ evicting = noEviction
           /\ IF holder # Nobody THEN line[k].by = holder ELSE k = 1

Settle(c) == /\ chain' = [chain EXCEPT ![c] = Tail(@)]
             /\ handed' = [handed EXCEPT ![c] = @ /\ ~Ordinary(Head(chain[c]))]

AfterCloses(b) == {s \in prepared : s.name \notin ToSet(b.closes)}
Statement(q) == [name |-> q.name, text |-> q.text]
Known(statements, name) == \E s \in statements : s.name = name

Responds(k) == /\ line' = RemoveAt(line, k)
               /\ Settle(line[k].by)
               /\ UNCHANGED <<generatorVars, pendingCloses, pipeline, revived, phase,
                              liveClientCount, evicting, calls>>

\* Mutant of ExecuteNamed: a statement counts as parsed only if its query succeeds.
ExecuteNamedOnSuccess(k) ==
    LET b == line[k]
        c == b.by
        q == b.query
        rest == AfterCloses(b)
    IN  /\ q.kind = "named" /\ Turn(k)
        /\ \E prepares, succeeds \in BOOLEAN :
              /\ prepares => b.parse /\ ~Known(rest, q.name)
              /\ succeeds => prepares \/ (~b.parse /\ Known(rest, q.name))
              /\ prepared' = rest \cup IF prepares THEN {Statement(q)} ELSE {}
              /\ parsed' = [parsed EXCEPT ![c] = @ \cup IF prepares /\ succeeds THEN {Statement(q)}
                                                         ELSE {}]
              /\ \/ succeeds /\ fieldsCache' = [fieldsCache EXCEPT ![c] = @ \cup {q.name}]
                 \/ UNCHANGED fieldsCache
        /\ Responds(k) /\ UNCHANGED holder

\* A named query: the Parse it carries is recorded when it succeeds, whatever
\* becomes of the rest (a failed Bind, a row that cannot be read); the fields are
\* known once a fast query was described.
ExecuteNamed(k) ==
    LET b == line[k]
        c == b.by
        q == b.query
        rest == AfterCloses(b)
    IN  /\ q.kind = "named" /\ Turn(k)
        /\ \E prepares, succeeds \in BOOLEAN :
              /\ prepares => b.parse /\ ~Known(rest, q.name)
              /\ succeeds => prepares \/ (~b.parse /\ Known(rest, q.name))
              /\ prepared' = rest \cup IF prepares THEN {Statement(q)} ELSE {}
              /\ parsed' = [parsed EXCEPT ![c] = @ \cup IF prepares THEN {Statement(q)} ELSE {}]
              /\ \/ succeeds /\ fieldsCache' = [fieldsCache EXCEPT ![c] = @ \cup {q.name}]
                 \/ UNCHANGED fieldsCache
        /\ Responds(k) /\ UNCHANGED holder

\* Other queries touch no named statement but the Closes they carry; a simple one
\* may begin a transaction or end it.
ExecuteOther(k) ==
    /\ line[k].query.kind \in {"unnamed", "simple"} /\ Turn(k)
    /\ prepared' = AfterCloses(line[k])
    /\ holder' \in IF line[k].query.kind = "simple" THEN {line[k].by, Nobody} ELSE {holder}
    /\ Responds(k) /\ UNCHANGED <<parsed, fieldsCache>>

\* clearStatementCaches of every live client.
evictEverywhere(scope) ==
    /\ parsed' = [c \in Clients |-> IF phase[c] = "live"
                                    THEN {s \in parsed[c] : ~Covers(scope, s.name)} ELSE parsed[c]]
    /\ fieldsCache' = [c \in Clients |-> IF phase[c] = "live"
                                         THEN {n \in fieldsCache[c] : ~Covers(scope, n)}
                                         ELSE fieldsCache[c]]

\* The batches that wait behind a DEALLOCATE of names they bind.
Raced(s, scope) == [i \in 1..Len(s) |-> IF Covers(scope, s[i].query.name)
                                        THEN [s[i] EXCEPT !.raced = TRUE] ELSE s[i]]

\* DEALLOCATE succeeds.  A Submittable evicts as it completes; a promise query
\* when its promise does, and the chain waits for that.
Deallocate(k) ==
    LET b == line[k]
        q == b.query
    IN  /\ q.kind \in {"deallocate", "submittable"} /\ Turn(k)
        /\ prepared' = {s \in prepared : ~Covers(q.scope, s.name)}
        /\ line' = Raced(RemoveAt(line, k), q.scope)
        /\ IF q.kind = "submittable"
           THEN evictEverywhere(q.scope) /\ Settle(b.by) /\ UNCHANGED evicting
           ELSE /\ evicting' = [by |-> b.by, scope |-> q.scope]
                /\ UNCHANGED <<parsed, fieldsCache, chainVars>>
        /\ UNCHANGED <<holder, generatorVars, pendingCloses, pipeline, revived, phase,
                       liveClientCount, calls>>

\* It fails: nothing is evicted.
DeallocateFails(k) ==
    /\ line[k].query.kind \in {"deallocate", "submittable"} /\ Turn(k)
    /\ Responds(k) /\ UNCHANGED <<prepared, holder, parsed, fieldsCache>>

\* Mutant of Evict: only the client that issued the DEALLOCATE evicts.
EvictOwn ==
    /\ evicting # noEviction
    /\ LET c == evicting.by
       IN  /\ parsed' = [parsed EXCEPT ![c] = {s \in @ : ~Covers(evicting.scope, s.name)}]
           /\ fieldsCache' = [fieldsCache EXCEPT ![c] = {n \in @ : ~Covers(evicting.scope, n)}]
    /\ Settle(evicting.by)
    /\ evicting' = noEviction
    /\ UNCHANGED <<sessionVars, generatorVars, pendingCloses, pipeline, revived, phase,
                   liveClientCount, calls>>

\* The promise of a successful DEALLOCATE: the eviction precedes whatever chained
\* behind it.
Evict ==
    /\ evicting # noEviction
    /\ evictEverywhere(evicting.scope)
    /\ Settle(evicting.by)
    /\ evicting' = noEviction
    /\ UNCHANGED <<sessionVars, generatorVars, pendingCloses, pipeline, revived, phase,
                   liveClientCount, calls>>

-----------------------------------------------------------------------------
(* Clients come and go.                                                      *)

\* Mutant of connect: every client that connects wipes the session.
connectWipes(c) ==
    /\ phase[c] = "new"
    /\ phase' = [phase EXCEPT ![c] = "live"]
    /\ liveClientCount' = liveClientCount + 1
    /\ enqueue(c, Query("deallocate", unnamed, "connect", everything), pendingCloses[c])
    /\ UNCHANGED <<prepared, holder, generatorVars, evicting, calls>>

\* The pool's connect listener: the first of all clients clears the session of
\* what earlier ones left.
connect(c) ==
    /\ phase[c] = "new"
    /\ phase' = [phase EXCEPT ![c] = "live"]
    /\ liveClientCount' = liveClientCount + 1
    /\ IF liveClientCount = 0
       THEN enqueue(c, Query("deallocate", unnamed, "connect", everything), pendingCloses[c])
       ELSE UNCHANGED <<line, chainVars, bookVars>>
    /\ UNCHANGED <<prepared, holder, generatorVars, evicting, calls>>

\* A client ends, with whatever it has under way: its transaction is rolled back
\* and its queries fail.
end(c) ==
    /\ phase[c] = "live" /\ evicting.by # c
    /\ phase' = [phase EXCEPT ![c] = "ended"]
    /\ line' = IF InLine(c) THEN RemoveAt(line, CHOOSE k \in 1..Len(line) : line[k].by = c)
               ELSE line
    /\ holder' = IF holder = c THEN Nobody ELSE holder
    /\ chain' = [chain EXCEPT ![c] = <<>>] /\ handed' = [handed EXCEPT ![c] = FALSE]
    /\ UNCHANGED <<prepared, generatorVars, bookVars, liveClientCount, evicting, calls>>

\* The pool learns of it later.
remove(c) ==
    /\ phase[c] = "ended"
    /\ phase' = [phase EXCEPT ![c] = "removed"]
    /\ liveClientCount' = liveClientCount - 1
    /\ UNCHANGED <<sessionVars, generatorVars, bookVars, chainVars, evicting, calls>>

-----------------------------------------------------------------------------
CacheNext ==
    \/ \E c \in Clients : \/ \E text \in Texts : queryDml(c, text)
                          \/ queryOther(c)
                          \/ SubmitNext(c) \/ TimedOut(c)
                          \/ connect(c) \/ end(c) \/ remove(c)
    \/ \E k \in 1..Len(line) : ExecuteNamed(k) \/ ExecuteOther(k)
                               \/ Deallocate(k) \/ DeallocateFails(k)
    \/ Evict

CacheSpec == CacheInit /\ [][CacheNext]_cacheVars

-----------------------------------------------------------------------------
GivenNames == [by : Clients, seq : 0..MaxCalls]
Kinds == {"named", "unnamed", "simple", "deallocate", "submittable"}
QueryType == [kind : Kinds, name : GivenNames \cup {unnamed}, text : Texts \cup {"", "connect"},
              scope : GivenNames \cup {unnamed, everything}]

CacheTypeOK ==
    /\ prepared \subseteq [name : GivenNames, text : Texts]
    /\ line \in Seq([by : Clients, query : QueryType, parse : BOOLEAN, closes : Seq(GivenNames),
                     raced : BOOLEAN])
    /\ \A j, k \in 1..Len(line) : line[j].by = line[k].by => j = k
    /\ holder \in Clients \cup {Nobody}
    /\ phase \in [Clients -> {"new", "live", "ended", "removed"}]
    /\ counts \in [Clients -> Seq([text : Texts, count : 1..MinUsages])]
    /\ names \in [Clients -> Seq([text : Texts, name : GivenNames])]
    /\ \A c \in Clients : Len(counts[c]) <= Capacity /\ Len(names[c]) <= Capacity
    /\ seq \in [Clients -> 0..MaxCalls]
    /\ pendingCloses \in [Clients -> Seq(GivenNames)] /\ pipeline \in [Clients -> Seq(GivenNames)]
    /\ parsed \in [Clients -> SUBSET [name : GivenNames, text : Texts]]
    /\ fieldsCache \in [Clients -> SUBSET GivenNames] /\ revived \in [Clients -> SUBSET GivenNames]
    /\ chain \in [Clients -> Seq(QueryType)] /\ handed \in [Clients -> BOOLEAN]
    /\ liveClientCount \in 0..Cardinality(Clients)
    /\ evicting \in [by : Clients \cup {Nobody}, scope : GivenNames \cup {unnamed, everything}]
    /\ calls \in 0..MaxCalls

\* The Closes of c that are on their way to PGlite.
Closing(c) == ToSet(pipeline[c])
              \cup UNION {ToSet(line[k].closes) : k \in {j \in 1..Len(line) : line[j].by = c}}

\* pg skips Parse for exactly the statements PGlite has: an entry too many fails
\* every later Bind (26000), one too few every later Parse (42P05).  Only a
\* DEALLOCATE that is being propagated and a Close on its way may stand between.
\* Describe, too, is skipped only for what is parsed.
CachesTruthful ==
    \A c \in Clients : phase[c] = "live" /\ evicting = noEviction =>
        /\ parsed[c] \subseteq prepared
        /\ \A s \in prepared : s.name.by = c => s \in parsed[c] \/ s.name \in Closing(c)
        /\ \A n \in fieldsCache[c] : Known(parsed[c], n)

\* A Bind without Parse meets its statement, with the text it stands for; a
\* DEALLOCATE that overtook it is the one excuse.
OnlyRacingBindFails ==
    \A k \in 1..Len(line) :
        LET q == line[k].query
        IN  Turn(k) /\ q.kind = "named" /\ ~line[k].parse
                => Statement(q) \in AfterCloses(line[k]) \/ line[k].raced

\* A name stands for one text for ever, in the session and in every cache.
NamesMeanOneText ==
    LET uses == prepared \cup (UNION {parsed[c] : c \in Clients})
                \cup (UNION {{Statement(q) : q \in {p \in ToSet(chain[c]) : p.kind = "named"}}
                             : c \in Clients})
    IN  \A s, t \in uses : s.name = t.name => s.text = t.text

\* The session holds no statement of a live client that its generator let go,
\* unless a Close is due: a name evicted before its last query ran is parsed
\* again by that query, and is the one kind nobody closes.
EvictedIsFreed ==
    \A c \in Clients : phase[c] = "live" =>
        \A s \in prepared : s.name.by = c =>
            \/ \E e \in ToSet(names[c]) : e.name = s.name
            \/ s.name \in Closing(c) \cup ToSet(pendingCloses[c]) \cup revived[c]

\* "It never destroys statements another client is still using": when the wipe of
\* a connecting client runs, no other live client has a statement.
ConnectWipeSparesSiblings ==
    \A k \in 1..Len(line) :
        Turn(k) /\ line[k].query.text = "connect"
            => \A s \in prepared : s.name.by = line[k].by \/ phase[s.name.by] # "live"
=============================================================================
