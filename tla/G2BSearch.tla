------------------------------ MODULE G2BSearch ------------------------------
(***************************************************************************)
(* The live search of api/collector: a date range is cut into windows, a   *)
(* keyword is turned into queries, and for each window and query all       *)
(* endpoints of G2B are paged through concurrently (asyncio.gather) while  *)
(* G2B goes on publishing and withdrawing notices.                         *)
(*                                                                         *)
(* A word stands for its number of characters, a title is a sequence of    *)
(* words, and a keyword a sequence of words as well.  Spacing variants of  *)
(* one word are one word here.  The three attempts of a page that end in   *)
(* an answer are one FetchPage.                                            *)
(***************************************************************************)
EXTENDS Naturals, SequencesExt

CONSTANTS Bids,          \* what G2B may list
          Nameless,      \* entries without bidNtceNo among them
          Endpoints,     \* the number of PPSSrch endpoints
          Endpoint, Day, \* where and when a bid is listed
          Listing,       \* what each endpoint lists at first
          Title, Fields, \* words of its title, and of the other fields searched
          PageSize,      \* numOfRows of one call
          MaxDays,       \* days in one window
          Keywords, Ranges,  \* what users ask for
          ShownSize,     \* page_size of the answer
          MaxSearches,   \* bound: searches made
          MaxChanges     \* bound: bids published and withdrawn

ASSUME SearchAssumption == /\ Nameless \subseteq Bids
                           /\ Endpoints \in Nat \ {0}
                           /\ Endpoint \in [Bids -> 1..Endpoints]
                           /\ Day \in [Bids -> Nat]
                           /\ Listing \in [1..Endpoints -> Seq(Bids)]
                           /\ \A e \in 1..Endpoints : \A b \in ToSet(Listing[e]) : Endpoint[b] = e
                           /\ Title \in [Bids -> Seq(Nat)]
                           /\ PageSize \in Nat \ {0} /\ MaxDays \in Nat \ {0}
                           /\ ShownSize \in Nat \ {0}
                           /\ Keywords \subseteq Seq(Nat)
                           /\ \A range \in Ranges :
                                range[1] \in Nat /\ range[2] \in Nat /\ range[1] <= range[2]

VARIABLES listed,     \* what each endpoint lists now, in its order
          search,     \* the search in progress
          shown,      \* the answer on the user's screen
          searches, changes

searchVars == <<listed, search, shown, searches, changes>>

NoSearch == [round |-> 0]
NoAnswer == [calm |-> FALSE]

\* The entries of s that are in kept, in their order.
Taken(s, kept) ==
  LET taken[i \in 0..Len(s)] ==
        IF i = 0 THEN <<>>
        ELSE IF s[i] \in kept THEN Append(taken[i - 1], s[i]) ELSE taken[i - 1]
  IN  taken[Len(s)]

\* The same; the set lets TLC evaluate the arguments once.
Only(s, kept) == CHOOSE only \in {Taken(x[1], x[2]) : x \in {<<s, kept>>}} : TRUE

AllListed == UNION {ToSet(listed[e]) : e \in 1..Endpoints}

SearchInit == /\ listed = Listing
              /\ search = NoSearch /\ shown = NoAnswer
              /\ searches = 0 /\ changes = 0

-----------------------------------------------------------------------------
(* Windows, queries, and what they match. *)

\* A slip: the next window starts a day late.
Bug_WindowsLeaveGap(range) ==
  [k \in 1..((range[2] - range[1]) \div MaxDays + 1) |->
     LET first == range[1] + (k - 1) * (MaxDays + 1)
         last  == first + MaxDays - 1
     IN  <<first, IF last < range[2] THEN last ELSE range[2]>>]

\* Consecutive windows of at most MaxDays days.
Windows(range) ==
  [k \in 1..((range[2] - range[1]) \div MaxDays + 1) |->
     LET first == range[1] + (k - 1) * MaxDays
         last  == first + MaxDays - 1
     IN  <<first, IF last < range[2] THEN last ELSE range[2]>>]

\* The phrase; and the longest word of two characters or more, if there are
\* two such words.
Queries(keyword) ==
  LET words == {w \in ToSet(keyword) : w >= 2}
  IN  <<keyword>> \o IF Cardinality(words) < 2 THEN <<>>
                     ELSE << <<CHOOSE w \in words : \A v \in words : v <= w>> >>

\* Each query in each window.
Rounds(keyword, range) ==
  FlattenSeq([w \in DOMAIN Windows(range) |->
                [q \in DOMAIN Queries(keyword) |-> <<Windows(range)[w], Queries(keyword)[q]>>]])

\* bidNtceNm is searched for the phrase.
HasPhrase(bid, phrase) == \E i, j \in DOMAIN Title[bid] : SubSeq(Title[bid], i, j) = phrase

\* match_all_tokens, on the title and the other fields.
HasWords(bid, keyword) ==
  Len(keyword) > 1 => ToSet(keyword) \subseteq ToSet(Title[bid]) \cup Fields[bid]

Deduped(bids) ==
  LET new  == {i \in DOMAIN bids : \A j \in 1..(i - 1) : bids[j] # bids[i]}
      kept == Only([i \in DOMAIN bids |-> i], new)
  IN  [k \in DOMAIN kept |-> bids[kept[k]]]

-----------------------------------------------------------------------------
(* One search. *)

\* Page number `page' of a sequence cut into pages of `size'.
PageOf(s, size, page) ==
  SubSeq(s, (page - 1) * size + 1, IF page * size < Len(s) THEN page * size ELSE Len(s))

AtPageOne == [e \in 1..Endpoints |-> 1]
NoBids == [e \in 1..Endpoints |-> <<>>]

StartSearch(keyword, range) ==
  /\ search = NoSearch /\ searches < MaxSearches
  /\ searches' = searches + 1
  /\ search' = [round |-> 1, keyword |-> keyword, range |-> range, page |-> AtPageOne,
                got |-> NoBids, items |-> <<>>, always |-> AllListed,
                calm |-> AllListed \cap Nameless = {}]
  /\ shown' = NoAnswer
  /\ UNCHANGED <<listed, changes>>

ThisRound == Rounds(search.keyword, search.range)[search.round]

\* What a round asks for: a window and a phrase.
Asked(round) == {b \in Bids : Day[b] \in round[1][1]..round[1][2] /\ HasPhrase(b, round[2])}

Page(e) == PageOf(Only(listed[e], Asked(ThisRound)), PageSize, search.page[e])

Parsed(entries) == Only(entries, Bids \ Nameless)

\* A slip: the page number stays, and each page replaces the one before.
Bug_SamePage(e) ==
  /\ search # NoSearch /\ search.page[e] # 0
  /\ LET batch == Parsed(Page(e))
     IN  search' = [search EXCEPT !.got[e] = batch,
                                  !.page[e] = IF Len(batch) < PageSize THEN 0 ELSE @]
  /\ UNCHANGED <<listed, shown, searches, changes>>

\* One page of _fetch_all; a short one is the last: 0.
FetchPage(e) ==
  /\ search # NoSearch /\ search.page[e] # 0
  /\ LET batch == Parsed(Page(e))
     IN  search' = [search EXCEPT !.got[e] = @ \o batch,
                                  !.page[e] = IF Len(batch) < PageSize THEN 0 ELSE @ + 1]
  /\ UNCHANGED <<listed, shown, searches, changes>>

\* A 200 whose body has no items, an error notice of G2B for one, reads like
\* a page after the last.
ErrorBody(e) ==
  /\ search # NoSearch /\ search.page[e] # 0
  /\ search' = [search EXCEPT !.page[e] = 0, !.calm = FALSE]
  /\ UNCHANGED <<listed, shown, searches, changes>>

\* The third attempt fails: gather raises, and the answer is a 502.
FetchFails ==
  /\ search # NoSearch /\ \E e \in 1..Endpoints : search.page[e] # 0
  /\ search' = NoSearch
  /\ UNCHANGED <<listed, shown, searches, changes>>

RoundDone == search # NoSearch /\ \A e \in 1..Endpoints : search.page[e] = 0

Items == search.items \o FlattenSeq(search.got)

NextRound ==
  /\ RoundDone /\ search.round < Len(Rounds(search.keyword, search.range))
  /\ search' = [search EXCEPT !.round = @ + 1, !.page = AtPageOne, !.got = NoBids, !.items = Items]
  /\ UNCHANGED <<listed, shown, searches, changes>>

Answer ==
  /\ RoundDone /\ search.round = Len(Rounds(search.keyword, search.range))
  /\ shown' = [keyword |-> search.keyword, range |-> search.range,
               found |-> Only(Deduped(Items), {b \in Bids : HasWords(b, search.keyword)}),
               always |-> search.always, calm |-> search.calm]
  /\ search' = NoSearch
  /\ UNCHANGED <<listed, searches, changes>>

\* The slice of the answer that one request returns.
TotalPages(found) == (Len(found) + ShownSize - 1) \div ShownSize
Slice(found, page) == PageOf(found, ShownSize, page)

Dismiss ==
  /\ shown # NoAnswer
  /\ shown' = NoAnswer
  /\ UNCHANGED <<listed, search, searches, changes>>

-----------------------------------------------------------------------------
(* Meanwhile at G2B: newest first, or newest last. *)

Publish(b) ==
  /\ changes < MaxChanges /\ b \notin AllListed
  /\ changes' = changes + 1
  /\ \E new \in {<<b>> \o listed[Endpoint[b]], Append(listed[Endpoint[b]], b)} :
       listed' = [listed EXCEPT ![Endpoint[b]] = new]
  /\ search' = IF search # NoSearch /\ b \in Nameless THEN [search EXCEPT !.calm = FALSE]
               ELSE search
  /\ UNCHANGED <<shown, searches>>

Withdraw(b) ==
  /\ changes < MaxChanges /\ b \in AllListed
  /\ changes' = changes + 1
  /\ listed' = [listed EXCEPT ![Endpoint[b]] = Only(@, Bids \ {b})]
  /\ search' = IF search = NoSearch THEN search ELSE [search EXCEPT !.calm = FALSE]
  /\ UNCHANGED <<shown, searches>>

SearchStep == (\E e \in 1..Endpoints : FetchPage(e)) \/ NextRound \/ Answer

SearchNext == \/ \E keyword \in Keywords, range \in Ranges : StartSearch(keyword, range)
              \/ SearchStep \/ FetchFails \/ Dismiss
              \/ \E e \in 1..Endpoints : ErrorBody(e)
              \/ \E b \in Bids : Publish(b) \/ Withdraw(b)

-----------------------------------------------------------------------------
(* Properties *)

\* What a search promises to find: titles with the phrase, or with all of its
\* words in any order if two of them have two characters or more.
Findable(keyword, range) ==
  {b \in Bids \ Nameless :
     /\ Day[b] \in range[1]..range[2]
     /\ \/ HasPhrase(b, keyword)
        \/ /\ Len(Queries(keyword)) = 2
           /\ ToSet(keyword) \subseteq ToSet(Title[b])}

\* An answer is exact however pages, windows, queries and endpoints overlap
\* and whatever is published meanwhile: everything in it is in range and has
\* all words; each bid is on exactly one slice of it, once; and every bid that
\* could be found and was listed all the time is there, unless G2B withdrew a
\* bid (the pages shift), listed an entry without a number (its page then
\* counts as short, and _fetch_all stops there) or sent a body without items.
SearchIsExact ==
  shown # NoAnswer =>
    LET found == shown.found
    IN  /\ \A b \in ToSet(found) : /\ Day[b] \in shown.range[1]..shown.range[2]
                                   /\ HasWords(b, shown.keyword)
        /\ \A b \in ToSet(found) :
             Cardinality({at \in (1..TotalPages(found)) \X (1..ShownSize) :
                            /\ at[2] \in DOMAIN Slice(found, at[1])
                            /\ Slice(found, at[1])[at[2]] = b}) = 1
        /\ shown.calm => shown.always \cap Findable(shown.keyword, shown.range) \subseteq ToSet(found)

\* Every search ends, whatever G2B publishes while it runs: _fetch_all has no
\* limit of pages, only the short page.
SearchEnds == search # NoSearch ~> search = NoSearch
=============================================================================
