----------------------------- MODULE GlobalSearch -----------------------------
(***************************************************************************)
(* The search box of the application's header: every input is debounced,   *)
(* repeated values are dropped (distinctUntilChanged), the last one        *)
(* searched for (switchMap), and the list below the box opened with the    *)
(* answer.  Input also clears the list at once when the text is too short, *)
(* which the stream behind the debounce does not know of.  Each call is    *)
(* counted by the loading bar.                                             *)
(***************************************************************************)
EXTENDS Naturals

CONSTANTS
  Query,           \* texts the box may hold
  Short,           \* those of fewer than two characters
  Blank,           \* longer ones, but only with the blanks the API trims away
  Empty,           \* the empty text
  SearchFailures   \* whether searches fail

ASSUME QueryAssumption ==
  /\ Short \subseteq Query /\ Blank \subseteq Query \ Short
  /\ Empty \in Short

VARIABLES
  query, results, loading, open,  \* the fields of the component
  timer,     \* debounceTime holds a value (always the present query)
  last,      \* what distinctUntilChanged has let through last; none at first
  call,      \* the search underway: none, or one (switchMap)
  alive,     \* the stream has not ended with an error
  active,    \* LoadingService: calls counted
  stored,    \* the texts that the tables of the API have rows for
  cleared,   \* history: input has cleared the list since last was let through
  late       \* history: an answer opened the list over a text too short

searchVars == <<query, results, loading, open, timer, last, call, alive, active, stored, cleared, late>>

\* What was found for a text: some rows or none.
Result == [of : Query \ Short, hasResults : BOOLEAN]

\* Spinner and loading bar say exactly whether a search is underway.
SearchTypeOK ==
  /\ query \in Query
  /\ results \in SUBSET Result /\ \A r, s \in results : r = s
  /\ open \in BOOLEAN /\ timer \in BOOLEAN /\ alive \in BOOLEAN
  /\ last \subseteq Query
  /\ \A c \in call : c.of \in Query \ Short /\ c.answer \subseteq Result
  /\ loading = (call # {})
  /\ active = IF call = {} THEN 0 ELSE 1
  /\ stored \subseteq Query
  /\ cleared \in BOOLEAN /\ late \in BOOLEAN

SearchInit ==
  /\ query = Empty
  /\ results = {}
  /\ loading = FALSE
  /\ open = FALSE
  /\ timer = FALSE
  /\ last = {}
  /\ call = {}
  /\ alive = TRUE
  /\ active = 0
  /\ stored \in SUBSET (Query \ (Short \cup Blank))
  /\ cleared = FALSE
  /\ late = FALSE

-----------------------------------------------------------------------------
(* Faulty variants: <definition>_<fault> is not part of the specification; *)
(* it stands for a plausible mistake in the code that a property catches.  *)

\* mergeMap: the search before is left to go on, and the bar counts both.
Search_Merge(q) ==
  /\ loading' = TRUE
  /\ call' = call \cup {[of |-> q, answer |-> {}]}
  /\ active' = active + 1
  /\ UNCHANGED <<results>>

\* A text too short ends the search underway, but not the list.
StopSearching_KeepResults ==
  /\ loading' = FALSE
  /\ call' = {}
  /\ active' = 0
  /\ UNCHANGED <<results>>

-----------------------------------------------------------------------------
(* LoadingService, called by loadingInterceptor around every call. *)

start(n) == n + 1
stop(n) == IF n = 0 THEN 0 ELSE n - 1

\* finalize: a call cancelled by switchMap is taken off like one that ended.
Finalized == IF call = {} THEN active ELSE stop(active)

-----------------------------------------------------------------------------
(* The component *)

\* switchMap on a text long enough: the search before is given up.
Search(q) ==
  /\ loading' = TRUE
  /\ call' = {[of |-> q, answer |-> {}]}
  /\ active' = start(Finalized)
  /\ UNCHANGED <<results>>

\* switchMap on a text too short.
StopSearching ==
  /\ results' = {}
  /\ loading' = FALSE
  /\ call' = {}
  /\ active' = Finalized

\* onInput
OnInput(q) ==
  /\ q # query
  /\ query' = q
  /\ timer' = alive
  /\ IF q \in Short
     THEN results' = {} /\ open' = FALSE /\ cleared' = TRUE /\ late' = FALSE
     ELSE UNCHANGED <<results, open, cleared, late>>
  /\ UNCHANGED <<loading, last, call, alive, active, stored>>

\* Nothing was typed for 300 ms: the value is let through unless it is the
\* one let through before.
Debounced ==
  /\ timer
  /\ timer' = FALSE
  /\ IF last = {query} THEN UNCHANGED <<results, loading, last, call, active, cleared>>
     ELSE /\ last' = {query}
          /\ cleared' = FALSE
          /\ IF query \in Short THEN StopSearching ELSE Search(query)
  /\ UNCHANGED <<query, open, alive, stored, late>>

\* next: the answer is shown, whatever the box holds by now.
SearchAnswered(c) ==
  /\ c \in call /\ c.answer # {}
  /\ call' = {}
  /\ active' = Finalized
  /\ results' = c.answer
  /\ loading' = FALSE
  /\ open' = TRUE
  /\ late' = (query \in Short)
  /\ UNCHANGED <<query, timer, last, alive, stored, cleared>>

\* error: the stream is over, with the value that the debounce still holds.
SearchFailed(c) ==
  /\ SearchFailures
  /\ c \in call
  /\ call' = {}
  /\ active' = Finalized
  /\ loading' = FALSE
  /\ alive' = FALSE
  /\ timer' = FALSE
  /\ UNCHANGED <<query, results, open, last, stored, cleared, late>>

\* close: Escape, a click elsewhere, or on a job or a recruitment.
Close ==
  /\ open
  /\ open' = FALSE
  /\ UNCHANGED <<query, results, loading, timer, last, call, alive, active, stored, cleared, late>>

-----------------------------------------------------------------------------
(* The API *)

\* GET /search: rows whose company, title or position contains the text.
Serve(c) ==
  /\ c \in call /\ c.answer = {}
  /\ call' = {[c EXCEPT !.answer = {[of |-> c.of, hasResults |-> c.of \in stored \ Blank]}]}
  /\ UNCHANGED <<query, results, loading, open, timer, last, alive, active, stored, cleared, late>>

\* Offers and entries come and go.
TablesChange ==
  /\ stored' \in SUBSET (Query \ (Short \cup Blank))
  /\ stored' # stored
  /\ UNCHANGED <<query, results, loading, open, timer, last, call, alive, active, cleared, late>>

SearchNext ==
  \/ \E q \in Query : OnInput(q)
  \/ Debounced
  \/ Close
  \/ \E c \in call : Serve(c) \/ SearchAnswered(c) \/ SearchFailed(c)
  \/ TablesChange

SearchSpec == SearchInit /\ [][SearchNext]_searchVars

-----------------------------------------------------------------------------
\* The box is at rest: nothing debounced, no search underway.
Settled == ~timer /\ call = {}

\* At rest the list belongs to the text: the rows found for it, none if it is
\* too short, and then the list is closed.  Excepted are a box whose stream has
\* ended with a failed search; one shortened and put back to the text it held
\* within 300 ms, whose rows were cleared and are not asked for again; and a
\* list that an answer opened over a text shortened meanwhile.
ListAnswersTheBox ==
  Settled /\ alive =>
    /\ query \in Short => results = {} /\ (open => late)
    /\ query \notin Short => IF results = {} THEN cleared /\ last = {query}
                             ELSE \A r \in results : r.of = query
=============================================================================
