------------------------------ MODULE Ranking -------------------------------
(***************************************************************************)
(* rank::CandidateSelector: retrieval into a bounded heap while the        *)
(* inventory is scanned in whatever order the shards give it, then the     *)
(* greedy, diversity-aware re-rank that asks the policy about each winner. *)
(*                                                                         *)
(* Scores are exact integers: a weight counts tenths, recency counts       *)
(* 2^-MaxHalvings and ages are whole half-lives, and the repeat factors    *)
(* are fractions over a power of their denominators.  The heap is the set  *)
(* of what it holds: its root is the weakest element whatever its layout.  *)
(***************************************************************************)
EXTENDS Integers, Sequences, FiniteSetsExt, Functions

CONSTANTS
    Inventories,        \* functions from item id to [base, category, advertiser, created, expires]
    Signals,            \* records [affinities, excluded]: what a request says of its user
    Counts,             \* slate sizes asked for; the handler refuses zero
    Overfetch,          \* ScoringConfig::overfetch
    DefaultAffinity,    \* ScoringConfig::default_affinity, in tenths
    HalfLife,           \* ScoringConfig::recency_half_life; zero disables decay
    MaxHalvings,        \* bound: the oldest item, in half-lives
    MinScore,           \* ScoringConfig::min_score, scaled like a relevance
    Now,                \* when the request began
    Never               \* expires_at of an item that does not expire

\* category_repeat_factor 0.5 and advertiser_repeat_factor 0.3.
CategoryFactor == [num |-> 1, den |-> 2]
AdvertiserFactor == [num |-> 3, den |-> 10]

VARIABLES
    inventory, signal, count,   \* the request
    unscanned,                  \* ids the scan has yet to offer
    considered, eligible,       \* considered_, eligible_
    shortlist,                  \* ids in shortlist_
    taken,                      \* ids marked in taken
    categories, advertisers,    \* category_counts, advertiser_counts
    chosen,                     \* the slate: records [id, score]
    asked                       \* history: each accept() call, [id, score]

request == <<inventory, signal, count>>
vars == <<request, unscanned, considered, eligible, shortlist, taken, categories, advertisers,
          chosen, asked>>

Item(i) == inventory[i]
CategoriesOf(inv) == {inv[i].category : i \in DOMAIN inv}
AdvertisersOf(inv) == {inv[i].advertiser : i \in DOMAIN inv}

-----------------------------------------------------------------------------
(* Scoring *)

IsEligible(i) ==
    /\ Item(i).base > 0
    /\ Item(i).expires # Never => Item(i).expires > Now
    /\ Item(i).category \notin signal.excluded

\* The first entry for the category counts.
AffinityFor(category) ==
    LET hits == {k \in DOMAIN signal.affinities : signal.affinities[k].category = category}
    IN  IF hits = {} THEN DefaultAffinity ELSE signal.affinities[Min(hits)].weight

\* An item from the future is brand new.
RecencyMultiplier(age) ==
    IF HalfLife <= 0 THEN 2 ^ MaxHalvings
    ELSE 2 ^ (MaxHalvings - Max({0, age}) \div HalfLife)

BaseRelevance(i) ==
    Item(i).base * AffinityFor(Item(i).category) * RecencyMultiplier(Now - Item(i).created)

\* relevance * factor ^ repeats, over the common denominator den ^ count.
Penalised(score, factor, repeats) ==
    score * factor.num ^ repeats * factor.den ^ (count - repeats)

Adjusted(i, ofCategory, ofAdvertiser) ==
    Penalised(Penalised(BaseRelevance(i), CategoryFactor, ofCategory),
              AdvertiserFactor, ofAdvertiser)

AdjustedNow(i) ==
    Adjusted(i, categories[Item(i).category], advertisers[Item(i).advertiser])

-----------------------------------------------------------------------------
(* CandidateSelector::consider *)

Limit == count * Max({Overfetch, 1})

Worse(a, b) ==
    \/ BaseRelevance(a) < BaseRelevance(b)
    \/ BaseRelevance(a) = BaseRelevance(b) /\ a < b

\* shortlist_.front()
Root == CHOOSE i \in shortlist : \A j \in shortlist \ {i} : Worse(i, j)

\* Mutant: a tie with the weakest keeps whoever was scanned first.
RetainFirst(i) ==
    IF Cardinality(shortlist) < Limit THEN shortlist \cup {i}
    ELSE IF BaseRelevance(i) > BaseRelevance(Root) THEN (shortlist \ {Root}) \cup {i}
    ELSE shortlist

Retain(i) ==
    IF Cardinality(shortlist) < Limit THEN shortlist \cup {i}
    ELSE IF ~Worse(i, Root) THEN (shortlist \ {Root}) \cup {i}
    ELSE shortlist

Consider(i) ==
    /\ i \in unscanned
    /\ unscanned' = unscanned \ {i}
    /\ considered' = considered + 1
    /\ eligible' = IF IsEligible(i) THEN eligible + 1 ELSE eligible
    /\ shortlist' = IF IsEligible(i) /\ BaseRelevance(i) > MinScore THEN Retain(i) ELSE shortlist
    /\ UNCHANGED <<request, taken, categories, advertisers, chosen, asked>>

-----------------------------------------------------------------------------
(* CandidateSelector::select, one round of its loop *)

Selecting == unscanned = {} /\ Len(chosen) < count /\ taken # shortlist

\* Strictly greater wins, a tie goes to the lower id.
Winner ==
    CHOOSE i \in shortlist \ taken :
        \A j \in shortlist \ (taken \cup {i}) :
            \/ AdjustedNow(i) > AdjustedNow(j)
            \/ AdjustedNow(i) = AdjustedNow(j) /\ i < j

Ask ==
    /\ Selecting
    /\ asked' = Append(asked, [id |-> Winner, score |-> AdjustedNow(Winner)])

\* Mutant: the mark is set once accept() has agreed.
RejectUnmarked ==
    /\ Ask
    /\ Len(asked) < Cardinality(shortlist) + 1
    /\ UNCHANGED <<request, unscanned, considered, eligible, shortlist, taken, categories,
                   advertisers, chosen>>

Reject ==
    /\ Ask
    /\ taken' = taken \cup {Winner}
    /\ UNCHANGED <<request, unscanned, considered, eligible, shortlist, categories, advertisers,
                   chosen>>

\* Mutant: only the advertiser of a pick is counted.
AcceptUncounted ==
    /\ Ask
    /\ taken' = taken \cup {Winner}
    /\ chosen' = Append(chosen, [id |-> Winner, score |-> AdjustedNow(Winner)])
    /\ advertisers' = [advertisers EXCEPT ![Item(Winner).advertiser] = @ + 1]
    /\ UNCHANGED <<request, unscanned, considered, eligible, shortlist, categories>>

Accept ==
    /\ Ask
    /\ taken' = taken \cup {Winner}
    /\ chosen' = Append(chosen, [id |-> Winner, score |-> AdjustedNow(Winner)])
    /\ categories' = [categories EXCEPT ![Item(Winner).category] = @ + 1]
    /\ advertisers' = [advertisers EXCEPT ![Item(Winner).advertiser] = @ + 1]
    /\ UNCHANGED <<request, unscanned, considered, eligible, shortlist>>

-----------------------------------------------------------------------------
Init ==
    /\ inventory \in Inventories /\ signal \in Signals /\ count \in Counts
    /\ unscanned = DOMAIN inventory
    /\ considered = 0 /\ eligible = 0
    /\ shortlist = {} /\ taken = {}
    /\ categories = [c \in CategoriesOf(inventory) |-> 0]
    /\ advertisers = [a \in AdvertisersOf(inventory) |-> 0]
    /\ chosen = <<>> /\ asked = <<>>

Next == (\E i \in DOMAIN inventory : Consider(i)) \/ Accept \/ Reject

Spec == Init /\ [][Next]_vars

-----------------------------------------------------------------------------
Scanned == DOMAIN inventory \ unscanned
Retrievable == {i \in Scanned : IsEligible(i) /\ BaseRelevance(i) > MinScore}
Slate(k) == {chosen[n].id : n \in 1 .. k}
Refused == taken \ Slate(Len(chosen))

\* What Adjusted would be for i after the first k items of the slate.
ScoreAfter(i, k) ==
    Adjusted(i, Cardinality({j \in Slate(k) : Item(j).category = Item(i).category}),
                Cardinality({j \in Slate(k) : Item(j).advertiser = Item(i).advertiser}))

\* In whatever order the shards are scanned, consider() has at every moment kept
\* the best Limit of the eligible items it was offered, ties settled by id alone:
\* a slate does not depend on the hash or on the order of shards.
ShortlistIsBest ==
    shortlist = {i \in Retrievable : Cardinality({j \in Retrievable : Worse(i, j)}) < Limit}

\* The contract of AcceptFn: accept() is asked at most once about a candidate, in
\* descending order of adjusted score, though the scores move with every pick.
AskedBestFirst ==
    \A m, n \in DOMAIN asked :
        m < n => asked[m].id # asked[n].id /\ asked[m].score >= asked[n].score

\* Each item of the slate carries the score earned by what was shown before it,
\* refused candidates not counting, and no candidate that was not refused would
\* have scored more in its place.
SlateIsGreedy ==
    \A k \in DOMAIN chosen :
        /\ chosen[k].score = ScoreAfter(chosen[k].id, k - 1)
        /\ \A i \in shortlist \ (Refused \cup Slate(k)) : ScoreAfter(i, k - 1) <= chosen[k].score
=============================================================================
