----------------------------- MODULE Collection -----------------------------
(***************************************************************************)
(* How a notice enters the pipeline: a user searches G2B, looks at the     *)
(* answer and saves a notice (POST /notices/search, POST /notices/upsert); *)
(* a mail may bring one as well (the Upsert of NoticePipeline).            *)
(***************************************************************************)
EXTENDS NoticePipeline, G2BSearch

ASSUME CollectionAssumption == Notices \subseteq Bids \ Nameless

collectionVars == <<vars, searchVars>>

CollectionInit == Init /\ SearchInit

\* The user saves a notice of the answer, saved before or not.
Save(n) ==
  /\ shown # NoAnswer /\ \E i \in DOMAIN shown.found : shown.found[i] = n
  /\ Upsert(n)
  /\ UNCHANGED searchVars

\* Bound: no search once a handler has worked on a notice.
SavedOnly == /\ \A n \in Notices : row[n] \in {NoRow, NewRow}
             /\ \A r \in Requests : req[r] = Idle
             /\ crashes = 0

\* Bound: the handlers run after the searches, over an unchanged listing; they
\* read neither.
LeftSearch == /\ search = NoSearch /\ shown = NoAnswer
              /\ searches = MaxSearches /\ changes = 0

CollectionNext ==
  \/ SavedOnly /\ SearchNext /\ UNCHANGED vars
  \/ SavedOnly /\ \E n \in Notices : Save(n)
  \/ LeftSearch /\ Next /\ UNCHANGED searchVars

\* A page is an answer or an error within the timeout of httpx.
CollectionSpec ==
  CollectionInit /\ [][CollectionNext]_collectionVars
                 /\ WF_collectionVars(SearchStep /\ UNCHANGED vars)
=============================================================================
