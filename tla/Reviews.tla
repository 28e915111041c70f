------------------------------ MODULE Reviews ------------------------------
(***************************************************************************)
(* Reviews, and the rating a product shows (reviews.service.ts,            *)
(* reviews.repository.ts).  A handler reads the review, writes it, sums up *)
(* the product's reviews and writes the result to the product, without a   *)
(* lock.  Texts, the votes of markHelpful and the moderation status are    *)
(* left out: what counts for a rating is whether the review is deleted.    *)
(* "Slip:" marks a faulty variant of the operator below it.                *)
(***************************************************************************)
EXTENDS Products, Functions

CONSTANTS
    Review, Buyer,  \* rows of reviews that can be inserted, and who writes them
    Rating

ASSUME ReviewAssumption == Nil \notin Review /\ Rating \subseteq 1 .. 5

VARIABLES
    review,
    rating,     \* the columns rating, in tenths, and reviewCount of a product
    overtaken,  \* history: calls that summed up before the last change of a review
    outdated    \* history: products whose rating was last written by such a call, wrongly

reviewHistory == <<overtaken, outdated>>
reviewVars == <<review, rating, reviewHistory>>
reviewsVars == <<reviewVars, productVars, callVars>>

-----------------------------------------------------------------------------
ReviewRow == [is : {"kept", "deleted"}, product : Product, buyer : Buyer, rating : Rating]
Shown == [average : 0 .. 50, count : 0 .. Cardinality(Review)]

ReviewCall ==
    [at : {"insertReview"}, product : Product, buyer : Buyer, rating : Rating]
    \cup [at : {"edit"}, review : Review, rating : Rating]
    \cup [at : {"mark"}, review : Review, is : {"kept", "deleted"}]
    \cup [at : {"sumUp"}, product : Product]
    \cup [at : {"writeRating"}, product : Product, shown : Shown]

ReviewsTypeOK ==
    /\ ProductsTypeOK
    /\ review \in [Review -> ReviewRow \cup {Nil}]
    /\ rating \in [Product -> Shown]
    /\ overtaken \subseteq Worker /\ outdated \subseteq Product
    /\ call \in [Worker -> {Idle} \cup ReviewCall]

ReviewsInit ==
    /\ ProductsInit /\ CallsInit
    /\ review = [r \in Review |-> Nil]
    /\ rating = [p \in Product |-> [average |-> 0, count |-> 0]]
    /\ overtaken = {} /\ outdated = {}

-----------------------------------------------------------------------------
KeptReviews(p) == {r \in Review : review[r] # Nil /\ review[r].is = "kept" /\ review[r].product = p}

\* getSummary: the average to one decimal place, rounded half up.
Summary(p) ==
    LET kept == KeptReviews(p)
        count == Cardinality(kept)
        sum == SumFunction([r \in kept |-> review[r].rating])
    IN  [average |-> IF count = 0 THEN 0 ELSE (20 * sum + count) \div (2 * count), count |-> count]

\* A review of the product changes, and the call goes on to sum up: what other
\* calls have summed up is of before.
Changed(w, p) ==
    /\ Become(w, [at |-> "sumUp", product |-> p])
    /\ overtaken' = overtaken \cup {v \in Worker : At(v, "writeRating") /\ call[v].product = p}
    /\ UNCHANGED <<rating, outdated, productVars, faults>>

CreateReview(w) ==
    /\ \E p \in OnSale, b \in Buyer, n \in Rating :
        /\ \A r \in KeptReviews(p) : review[r].buyer # b
        /\ Begin(w, [at |-> "insertReview", product |-> p, buyer |-> b, rating |-> n])
    /\ UNCHANGED <<reviewVars, productVars, faults>>

\* Without a rating in the request, the one that was read is written back.
UpdateOwnReview(w) ==
    /\ \E r \in Review, n \in Rating :
        /\ review[r] # Nil /\ review[r].is = "kept"
        /\ Begin(w, [at |-> "edit", review |-> r, rating |-> n])
    /\ UNCHANGED <<reviewVars, productVars, faults>>

DeleteOwnReview(w) ==
    /\ \E r \in Review :
        /\ review[r] # Nil /\ review[r].is = "kept"
        /\ Begin(w, [at |-> "mark", review |-> r, is |-> "deleted"])
    /\ UNCHANGED <<reviewVars, productVars, faults>>

\* An admin hides or approves any review, one that its buyer has deleted too.
ModerateReview(w) ==
    /\ \E r \in Review, is \in {"kept", "deleted"} :
        /\ review[r] # Nil
        /\ Begin(w, [at |-> "mark", review |-> r, is |-> is])
    /\ UNCHANGED <<reviewVars, productVars, faults>>

InsertReview(w) ==
    /\ At(w, "insertReview")
    /\ \E r \in Review :
        /\ review[r] = Nil
        /\ review' = [review EXCEPT ![r] =
             [is |-> "kept", product |-> call[w].product, buyer |-> call[w].buyer,
              rating |-> call[w].rating]]
    /\ Changed(w, call[w].product)

\* An edit of a review that is deleted meanwhile leaves it deleted.
Edit(w) ==
    /\ At(w, "edit")
    /\ review' = [review EXCEPT ![call[w].review].rating = call[w].rating]
    /\ Changed(w, review[call[w].review].product)

\* Slip: the product's rating is not brought up to date.
MarkOnly(w) ==
    /\ At(w, "mark")
    /\ review' = [review EXCEPT ![call[w].review].is = call[w].is]
    /\ Return(w)
    /\ UNCHANGED <<rating, reviewHistory, productVars, faults>>

Mark(w) ==
    /\ At(w, "mark")
    /\ review' = [review EXCEPT ![call[w].review].is = call[w].is]
    /\ Changed(w, review[call[w].review].product)

\* syncProductRating
SumUp(w) ==
    /\ At(w, "sumUp")
    /\ Become(w, [at |-> "writeRating", product |-> call[w].product,
                  shown |-> Summary(call[w].product)])
    /\ UNCHANGED <<reviewVars, productVars, faults>>

WriteRating(w) ==
    LET p == call[w].product
        late == w \in overtaken /\ call[w].shown # Summary(p)
    IN  /\ At(w, "writeRating")
        /\ rating' = [rating EXCEPT ![p] = call[w].shown]
        /\ overtaken' = overtaken \ {w}
        /\ outdated' = IF late THEN outdated \cup {p} ELSE outdated \ {p}
        /\ Return(w)
        /\ UNCHANGED <<review, productVars, faults>>

ReviewCutOff(w) ==
    /\ CutOff(w)
    /\ overtaken' = overtaken \ {w}
    /\ UNCHANGED <<review, rating, outdated, productVars>>

\* The requests of user-reviews.controller.ts.
OwnReviewRequests(w) == UpdateOwnReview(w) \/ DeleteOwnReview(w)

ReviewsNext ==
    \/ ProductsStep /\ UNCHANGED reviewVars
    \/ \E w \in Worker :
        \/ CreateReview(w) \/ OwnReviewRequests(w) \/ ModerateReview(w)
        \/ InsertReview(w) \/ Edit(w) \/ Mark(w) \/ SumUp(w) \/ WriteRating(w)
        \/ ReviewCutOff(w)

ReviewsSpec == ReviewsInit /\ [][ReviewsNext]_reviewsVars

-----------------------------------------------------------------------------
\* When no call is running, and none was cut off, a product shows the average
\* and the number of its reviews that are not deleted (syncProductRating),
\* whichever of them are written, hidden or approved at the same time: unless
\* the call that wrote the rating last had summed up before another one changed
\* a review, and so wrote over what is right.
RatingMatches ==
    NobodyCalls /\ faults = 0 =>
        \A p \in Product : rating[p] = Summary(p) \/ p \in outdated
=============================================================================
