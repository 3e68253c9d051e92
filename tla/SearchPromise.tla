--------------------------- MODULE SearchPromise ---------------------------
(***************************************************************************)
(* What a search promises its caller, with no flight, error, timeout or    *)
(* cancelled context in sight: a search is answered once, and searches for *)
(* one key that are under way together may share an answer.  An answer     *)
(* owns up to what it misses.  What is remembered for later searches       *)
(* misses nothing, and stays as it is until it is forgotten.               *)
(***************************************************************************)
CONSTANTS
  Callers, Keys,
  Pools,    \* where results come from
  Primary,  \* the pools every search asks
  Nothing   \* no answer yet, no entry

VARIABLES
  store,   \* what is remembered of each key
  search   \* the latest search of each caller

Entries == [results : SUBSET Pools, asked : SUBSET Pools, failed : SUBSET Pools]

Answers ==
  {e \in Entries : Primary \subseteq e.asked /\ e.asked \ e.results \subseteq e.failed}

Whole == {e \in Answers : Primary \subseteq e.results /\ e.results = e.asked}

Init ==
  /\ store = [k \in Keys |-> Nothing]
  /\ search \in [Callers -> [open : {FALSE}, key : Keys, answer : {Nothing}]]

Open(c, k) ==
  /\ ~search[c].open
  /\ search' = [search EXCEPT ![c] = [open |-> TRUE, key |-> k, answer |-> Nothing]]
  /\ UNCHANGED store

Asking(k) == {c \in Callers : search[c].open /\ search[c].key = k}

Answer(k, cs, e) ==
  /\ cs \subseteq Asking(k)
  /\ search' = [c \in Callers |->
       IF c \in cs THEN [open |-> FALSE, key |-> k, answer |-> e] ELSE search[c]]
  /\ UNCHANGED store

Remember(k, e) ==
  /\ store[k] = Nothing
  /\ store' = [store EXCEPT ![k] = e]
  /\ UNCHANGED search

Forget(k) ==
  /\ store' = [store EXCEPT ![k] = Nothing]
  /\ UNCHANGED search

Next ==
  \E k \in Keys :
    \/ \E c \in Callers : Open(c, k)
    \/ \E cs \in SUBSET Asking(k), e \in Answers : Answer(k, cs, e)
    \/ \E e \in Whole : Remember(k, e)
    \/ Forget(k)

Spec == Init /\ [][Next]_<<store, search>>
=============================================================================
