----------------------------- MODULE KeywordCards -----------------------------
(***************************************************************************)
(* The uploads of a custom keyword as cards, made of the rows of one       *)
(* query, and the gallery that they are cut from.                          *)
(***************************************************************************)
EXTENDS CustomKeyword, Rows, SequencesExt

(* ORDER BY published_at DESC, display_order ASC                           *)
InOrder(S) == OrderBy(S, {p \in S \X S : Before(p[1], p[2])})

(* The rows of the newest publications, a row for each image.              *)
ListUploadImages(k, limit) ==
    LET page == {t \in Times : /\ upload[t].k = k
                               /\ Cardinality({s \in Times : upload[s].k = k /\ s > t}) < limit}
    IN  InOrder({i \in ImagesWithAsset(k) : At(i) \in page})

GetUploadImages(t) ==
    InOrder({i \in Images \ deleted : At(i) = t /\ DisplayOrder(i) <= upload[t].count})

(* A plausible bug: a card is started whenever the row before was the cover. *)
UploadCardsByCover(rows) ==
    FoldLeft(LAMBDA cards, row :
        IF DisplayOrder(row) = 1
        THEN Append(cards, [upload |-> At(row), count |-> upload[At(row)].count, images |-> <<row>>])
        ELSE [cards EXCEPT ![Len(cards)].images = Append(@, row)], <<>>, rows)

(* The rows of an upload are gathered in the card of its first row.        *)
UploadCards(rows) ==
    FoldLeft(LAMBDA cards, row :
        LET of == {c \in DOMAIN cards : cards[c].upload = At(row)} IN
        IF of = {}
        THEN Append(cards, [upload |-> At(row), count |-> upload[At(row)].count, images |-> <<row>>])
        ELSE [cards EXCEPT ![Max(of)].images = Append(@, row)], <<>>, rows)

ListUploads(k, limit) == UploadCards(ListUploadImages(k, ClampLimit(limit, MaxLimit, MaxLimit)))

-----------------------------------------------------------------------------
(* The cards of a keyword's uploads are its gallery, cut into uploads: the *)
(* newest first, each upload once with all its images in order             *)
(* (uploadCardsOutput over the rows of ListCustomKeywordUploadImages).     *)
CardsAreTheGallery ==
    \A k \in Keywords :
        LET cards == ListUploads(k, Limit)
            limit == ClampLimit(Limit, MaxLimit, MaxLimit)
        IN  /\ FlattenSeq([c \in DOMAIN cards |-> cards[c].images])
                 = InOrder({i \in ListKeywordImages(k, CountVisibleImages(k)) :
                              \E c \in DOMAIN cards : cards[c].upload = At(i)})
            /\ \A c \in DOMAIN cards : cards[c].images = GetUploadImages(cards[c].upload)
            /\ \A t \in Times :
                 (/\ GetUploadImages(t) # <<>> /\ upload[t].k = k
                  /\ Cardinality({s \in Times : upload[s].k = k /\ s > t}) < limit)
                    => \E c \in DOMAIN cards : cards[c].upload = t
            /\ Len(cards) <= limit
===============================================================================
