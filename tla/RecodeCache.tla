---------------------------- MODULE RecodeCache ----------------------------
(***************************************************************************)
(* The cache of recode requests, get_recode_request() of                   *)
(* src/convert_recode.c: a list that the search sorts by use as it goes.   *)
(* A request is what recode was asked for when it was made.                *)
(***************************************************************************)
EXTENDS Integers, SequencesExt

\* Deviation: the request strings stay where they are.
ExchangedRequests(a, b) ==
  <<[b EXCEPT !.string = a.string], [a EXCEPT !.string = b.string]>>

\* Two neighbours after their contents were exchanged.
Exchanged(a, b) == <<b, a>>

\* The search: an entry that does not match moves behind its right neighbour
\* if that one was used more.  The neighbour is then not looked at.
Search(cache, encreq) ==
  FoldLeft(LAMBDA x, i :
             IF x.found > 0 THEN x
             ELSE IF x.cache[i].string = encreq THEN [x EXCEPT !.found = i]
             ELSE IF i < Len(cache) /\ x.cache[i].count < x.cache[i + 1].count
             THEN LET two == Exchanged(x.cache[i], x.cache[i + 1])
                  IN [x EXCEPT !.cache[i] = two[1], !.cache[i + 1] = two[2]]
             ELSE x,
           [cache |-> cache, found |-> 0], [i \in DOMAIN cache |-> i])

\* get_recode_request(): the request and the cache after.
GetRecodeRequest(cache, encreq) ==
  LET search == Search(cache, encreq)
      i == search.found
  IN IF i > 0
     THEN [request |-> search.cache[i].request,
           cache |-> [search.cache EXCEPT ![i].count = @ + 1]]
     ELSE [request |-> encreq,
           cache |-> Append(search.cache, [string |-> encreq,
                                           request |-> encreq, count |-> 1])]
=============================================================================
