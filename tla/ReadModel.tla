------------------------------ MODULE ReadModel ------------------------------
(***************************************************************************)
(* The screens over published uploads: the public feeds of a date and of a *)
(* keyword, the detail of an upload, and a user's review of what they have *)
(* published.  A feed is one statement; a detail and a review are several, *)
(* with publications in between.                                           *)
(***************************************************************************)
EXTENDS Rows, FiniteSetsExt, SequencesExt

CONSTANTS
    Requests,    \* slots for the requests in progress
    Users,
    Days,        \* business dates
    Keywords,    \* official keywords, numbered
    MaxUploads,  \* bound on the uploads
    MaxImages,   \* images of an upload
    MaxKey,      \* rand_key and seed are fractions: 0..MaxKey stand for [0, 1)
    MaxHidden    \* bound on the uploads that are hidden

DayAssumption == Days \subseteq Nat /\ Keywords \subseteq Nat \ {0}
UserAssumption == Users # {}
BoundAssumption == /\ MaxUploads \in Nat /\ MaxImages \in Nat \ {0}
                   /\ MaxKey \in Nat /\ MaxHidden \in Nat

Times == 1..MaxUploads   \* an upload is known by the place of its published_at

VARIABLES
    upload,  \* work_uploads: a sequence in the order of published_at
    hidden,  \* uploads whose visibility_status is not visible any more
    req      \* the requests in progress, with the answer of the last one

vars == <<upload, hidden, req>>

Upload == [author : Users, official : BOOLEAN, day : Days, keyword : Keywords,
           rand : 0..MaxKey, images : 1..MaxImages]
ReviewDay == [day : Days, keyword : Keywords, uploads : Times, images : 1..(MaxUploads * MaxImages)]

Idle == [pc |-> "idle", op |-> "none", u |-> CHOOSE u \in Users : TRUE, t |-> 0, shown |-> 0,
         images |-> 0, items |-> {}, days |-> 0, total |-> 0, late |-> FALSE]

TypeOK ==
    /\ upload \in Seq(Upload) /\ Len(upload) <= MaxUploads
    /\ hidden \subseteq Times
    /\ req \in [Requests ->
         [pc : {"idle", "own", "images", "days", "total"},
          op : {"none", "public", "review", "dates"}, u : Users, t : 0..MaxUploads,
          shown : 0..MaxUploads, images : 0..MaxImages, items : SUBSET ReviewDay,
          days : 0..MaxUploads, total : 0..(MaxUploads * MaxImages),
          late : BOOLEAN]]   \* late: the upload was hidden when the request began

-----------------------------------------------------------------------------
(* The queries of the public screens.                                      *)

Uploads == DOMAIN upload
Official(t) == upload[t].official            \* context_type = 'official_today'
Public(t) == Official(t) /\ t \notin hidden

OnDay(d) == {t \in Uploads : Public(t) /\ upload[t].day = d}
Under(k) == {t \in Uploads : Public(t) /\ upload[t].keyword = k}

(* ORDER BY published_at DESC                                              *)
Latest(S, limit) == FirstOf(OrderBy(S, {p \in S \X S : p[1] > p[2]}), limit)

(* A plausible bug: what lies before the seed is left out. *)
OnlyFromSeed(S, seed, limit) ==
    FirstOf(SetToSortSeq({t \in S : upload[t].rand >= seed}, LAMBDA s, t :
        upload[s].rand < upload[t].rand \/ (upload[s].rand = upload[t].rand /\ s < t)), limit)

(* A plausible bug: the start is one of the rows there are, not a value. *)
FromSeedthRow(S, seed, limit) ==
    LET all == SetToSortSeq(S, LAMBDA s, t :
                 upload[s].rand < upload[t].rand \/ (upload[s].rand = upload[t].rand /\ s < t))
        start == IF S = {} THEN 0 ELSE seed % Cardinality(S)
    IN  FirstOf(SubSeq(all, start + 1, Len(all)) \o SubSeq(all, 1, start), limit)

(* ORDER BY rand_key, beginning at the seed and then from the start again. *)
FromSeed(S, seed, limit) ==
    LET Key(t) == <<IF upload[t].rand < seed THEN 1 ELSE 0, upload[t].rand, t>>
        Earlier(s, t) == \E i \in 1..3 : /\ Key(s)[i] < Key(t)[i]
                                         /\ \A j \in 1..(i - 1) : Key(s)[j] = Key(t)[j]
    IN  FirstOf(OrderBy(S, {p \in S \X S : Earlier(p[1], p[2])}), limit)

ListPublicUploadsByDateLatest(d, limit) == Latest(OnDay(d), limit)
ListPublicUploadsByDateRandom(d, seed, limit) == FromSeed(OnDay(d), seed, limit)
ListPublicUploadsByKeywordLatest(k, limit) == Latest(Under(k), limit)
ListPublicUploadsByKeywordRandom(k, seed, limit) == FromSeed(Under(k), seed, limit)

(* A plausible bug: the card of any visible upload is public. *)
GetUploadCardOfAny(t) == t \in Uploads /\ t \notin hidden

GetPublicUploadCard(t) == t \in Uploads /\ Public(t)
GetMyReviewUploadCard(t, u) == t \in Uploads /\ Official(t) /\ upload[t].author = u

(* The queries of the review screens, which hidden uploads stay in.        *)

Mine(u) == {t \in Uploads : Official(t) /\ upload[t].author = u}
ImagesOf(S) == SumFunction([t \in S |-> upload[t].images])
DaysOf(S) == {upload[t].day : t \in S}

(* A plausible bug: a date is listed once for each of its keywords. *)
ReviewDateStatsByKeyword(u, limit) ==
    { [day |-> p[1], keyword |-> p[2],
       uploads |-> Cardinality({t \in Mine(u) : upload[t].day = p[1] /\ upload[t].keyword = p[2]}),
       images |-> ImagesOf({t \in Mine(u) : upload[t].day = p[1] /\ upload[t].keyword = p[2]})] :
      p \in {<<upload[t].day, upload[t].keyword>> : t \in Mine(u)} }

ReviewDateStats(u, limit) ==
    LET listed == {d \in DaysOf(Mine(u)) : Cardinality({e \in DaysOf(Mine(u)) : e > d}) < limit}
        on(d) == {t \in Mine(u) : upload[t].day = d}
    IN  { [day |-> d, keyword |-> Min({upload[t].keyword : t \in on(d)}),
           uploads |-> Cardinality(on(d)), images |-> ImagesOf(on(d))] : d \in listed }

CountMyReviewParticipationDays(u) == Cardinality(DaysOf(Mine(u)))
CountMyReviewImageTotal(u) == ImagesOf(Mine(u))

ReviewKeywordCounts(u) ==
    { [keyword |-> k,
       uploads |-> Cardinality({t \in Mine(u) : upload[t].keyword = k}),
       images |-> ImagesOf({t \in Mine(u) : upload[t].keyword = k})] :
      k \in {upload[t].keyword : t \in Mine(u)} }

(* The lists also need the live asset row of the cover: every upload has    *)
(* one, as nothing deletes assets.                                         *)
ReviewUploadsByDate(u, d, limit) == Latest({t \in Mine(u) : upload[t].day = d}, limit)
ReviewUploadsByKeyword(u, k, limit) == Latest({t \in Mine(u) : upload[t].keyword = k}, limit)

-----------------------------------------------------------------------------

Init ==
    /\ upload = <<>>
    /\ hidden = {}
    /\ req = [r \in Requests |-> Idle]

Set(r, s) == req' = [req EXCEPT ![r] = s]
NotFound(r) == Set(r, Idle)

(* A commit; rand_key is random().                                         *)
Publish(w) ==
    /\ Len(upload) < MaxUploads
    /\ upload' = Append(upload, w)
    /\ UNCHANGED <<hidden, req>>

(* Somebody hides an upload: the queries reckon with it, and nothing in    *)
(* the program does it.                                                    *)
Hide(t) ==
    /\ t \in Uploads \ hidden
    /\ Cardinality(hidden) < MaxHidden
    /\ hidden' = hidden \cup {t}
    /\ UNCHANGED <<upload, req>>

GetOfficialUpload(r, u, t) ==
    /\ req[r].pc = "idle"
    /\ IF GetPublicUploadCard(t)
       THEN Set(r, [Idle EXCEPT !.op = "public", !.u = u, !.t = t, !.late = t \in hidden,
                                  !.pc = "images"])
       ELSE NotFound(r)
    /\ UNCHANGED <<upload, hidden>>

GetReviewUpload(r, u, t) ==
    /\ req[r].pc = "idle"
    /\ Set(r, [Idle EXCEPT !.op = "review", !.u = u, !.t = t, !.late = t \in hidden,
                           !.pc = IF GetPublicUploadCard(t) THEN "images" ELSE "own"])
    /\ UNCHANGED <<upload, hidden>>

GetOwnCard(r) ==
    /\ req[r].pc = "own"
    /\ IF GetMyReviewUploadCard(req[r].t, req[r].u)
       THEN Set(r, [req[r] EXCEPT !.pc = "images"])
       ELSE NotFound(r)
    /\ UNCHANGED <<upload, hidden>>

ListUploadImages(r) ==
    /\ req[r].pc = "images"
    /\ Set(r, [req[r] EXCEPT !.pc = "idle", !.shown = req[r].t,
                             !.images = upload[req[r].t].images])
    /\ UNCHANGED <<upload, hidden>>

ListReviewDates(r, u) ==
    /\ req[r].pc = "idle"
    /\ Set(r, [Idle EXCEPT !.op = "dates", !.u = u, !.pc = "days",
                           !.items = ReviewDateStats(u, MaxUploads)])
    /\ UNCHANGED <<upload, hidden>>

CountDays(r) ==
    /\ req[r].pc = "days"
    /\ Set(r, [req[r] EXCEPT !.pc = "total", !.days = CountMyReviewParticipationDays(req[r].u)])
    /\ UNCHANGED <<upload, hidden>>

(* A plausible bug: the list is read last. *)
CountImagesThenList(r) ==
    /\ req[r].pc = "total"
    /\ Set(r, [req[r] EXCEPT !.pc = "idle", !.total = CountMyReviewImageTotal(req[r].u),
                             !.items = ReviewDateStats(req[r].u, MaxUploads)])
    /\ UNCHANGED <<upload, hidden>>

CountImages(r) ==
    /\ req[r].pc = "total"
    /\ Set(r, [req[r] EXCEPT !.pc = "idle", !.total = CountMyReviewImageTotal(req[r].u)])
    /\ UNCHANGED <<upload, hidden>>

Next ==
    \/ \E w \in Upload : Publish(w)
    \/ \E t \in Times : Hide(t)
    \/ \E r \in Requests, u \in Users :
          \/ \E t \in Times : GetOfficialUpload(r, u, t) \/ GetReviewUpload(r, u, t)
          \/ ListReviewDates(r, u)
    \/ \E r \in Requests :
          \/ GetOwnCard(r) \/ ListUploadImages(r) \/ CountDays(r) \/ CountImages(r)

Spec == Init /\ [][Next]_vars

-----------------------------------------------------------------------------
Seeds == 0..(MaxKey + 1)

(* What comes before another in one feed comes before it in the other.     *)
Keeps(before, after) ==
    \A i, j \in DOMAIN before, m, n \in DOMAIN after :
        (i < j /\ after[m] = before[i] /\ after[n] = before[j]) => m < n

(* Over any step, a client that sends the seed it was given sees what it   *)
(* has seen in the same order, whatever is published or hidden meanwhile   *)
(* (ListPublicUploadsByDateRandom, ...ByKeywordRandom).                    *)
SameSeedSameOrder ==
    \A seed \in Seeds :
         /\ \A d \in Days :
              Keeps(ListPublicUploadsByDateRandom(d, seed, MaxUploads),
                    ListPublicUploadsByDateRandom(d, seed, MaxUploads)')
         /\ \A k \in Keywords :
              Keeps(ListPublicUploadsByKeywordRandom(k, seed, MaxUploads),
                    ListPublicUploadsByKeywordRandom(k, seed, MaxUploads)')

(* Whatever the order, the seed and the limit, a feed is as long as it can *)
(* be and shows no upload twice; unlimited, the feeds of the dates and     *)
(* those of the keywords show the same uploads (listPublicUploadsByDate,   *)
(* listPublicUploadsByKeyword).                                            *)
FeedsAreComplete ==
    /\ \A d \in Days, seed \in Seeds, limit \in 1..MaxUploads :
          LET random == ListPublicUploadsByDateRandom(d, seed, limit) IN
          /\ IsInjective(random)
          /\ Len(random) = Len(ListPublicUploadsByDateLatest(d, limit))
    /\ \A seed \in Seeds :
          UNION {ToSet(ListPublicUploadsByKeywordRandom(k, seed, MaxUploads)) : k \in Keywords}
            = UNION {ToSet(ListPublicUploadsByDateLatest(d, MaxUploads)) : d \in Days}

(* No feed and no detail shows what was published under a custom keyword,  *)
(* to anybody, and only its author is shown an upload that was hidden      *)
(* before they asked (GetOfficialUpload, GetReviewUpload).                 *)
CustomStaysPrivate ==
    /\ \A k \in Keywords : \A t \in ToSet(ListPublicUploadsByKeywordLatest(k, MaxUploads)) :
          upload[t].official
    /\ \A r \in Requests : req[r].shown # 0 =>
          /\ upload[req[r].shown].official
          /\ req[r].late => upload[req[r].shown].author = req[r].u

ImagesListed(items) == SumFunction([i \in items |-> i.images])

(* A review never shows more days or images in its list than in its totals,*)
(* although they are read one after the other while more is published      *)
(* (ListReviewDates reads the list first).                                 *)
ReviewAddsUp ==
    \A r \in Requests :
        (req[r].op = "dates" /\ req[r].pc = "idle") =>
            /\ Cardinality(req[r].items) <= req[r].days
            /\ ImagesListed(req[r].items) <= req[r].total

(* The dates, the keywords and the totals of a review are of the same      *)
(* uploads, also for a date whose keyword was assigned anew between two of *)
(* them (ListMyReviewDateStats, ListMyReviewKeywordCounts).                *)
ReviewViewsAgree ==
    \A u \in Users :
        LET dates == ReviewDateStats(u, MaxUploads)
            keywords == ReviewKeywordCounts(u)
        IN  /\ Cardinality(dates) = CountMyReviewParticipationDays(u)
            /\ ImagesListed(dates) = CountMyReviewImageTotal(u)
            /\ ImagesListed(keywords) = CountMyReviewImageTotal(u)
            /\ \A i \in dates : i.uploads = Len(ReviewUploadsByDate(u, i.day, MaxUploads))
            /\ \A i \in keywords : i.uploads = Len(ReviewUploadsByKeyword(u, i.keyword, MaxUploads))
=============================================================================
