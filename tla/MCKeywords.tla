----------------------------- MODULE MCKeywords -----------------------------
(* What is shown under a keyword: custom keywords with their covers,        *)
(* galleries and cards (CustomKeyword, KeywordCards, in three sizes), the   *)
(* official keyword of a date (DailyKeyword, with keywords that stay or     *)
(* change), and the feeds and reviews of what was published (ReadModel).    *)
(* The modules share no state, so one behaviour moves one of them and       *)
(* leaves the others where they began.                                      *)
EXTENDS CustomKeyword, Integers, TLC

CONSTANTS Slot, Keyword, Sessions, Users, Author

VARIABLES
    part,                                           \* the part that moves
    today, active, assignment, session, asked,
    works, hidden, reading

(* Two requests race for one gallery while an image is removed; and one     *)
(* reads the galleries of three uploads, one more than a list may have.     *)
Gallery == INSTANCE CustomKeyword WITH
    Keywords <- {Keyword}, Removals <- 1, Limit <- 5
GalleryCards == INSTANCE KeywordCards WITH
    Keywords <- {Keyword}, Removals <- 1, Limit <- 5
Cards == INSTANCE CustomKeyword WITH
    Requests <- {Slot}, Keywords <- {Keyword}, MaxUploads <- 3, MaxImages <- 2,
    Removals <- 1, Limit <- 5
ThreeCards == INSTANCE KeywordCards WITH
    Requests <- {Slot}, Keywords <- {Keyword}, MaxUploads <- 3, MaxImages <- 2,
    Removals <- 1, Limit <- 5

Fixed == INSTANCE DailyKeyword WITH
    Keywords <- 1..3, FirstDay <- -2, LastDay <- 1, KeywordsChange <- FALSE, req <- asked
Changing == INSTANCE DailyKeyword WITH
    Keywords <- 1..2, FirstDay <- 0, LastDay <- 1, KeywordsChange <- TRUE, req <- asked

Feeds == INSTANCE ReadModel WITH
    Requests <- {}, Users <- {Author}, Days <- 1..2, Keywords <- {1}, MaxUploads <- 3,
    MaxImages <- 1, MaxKey <- 2, MaxHidden <- 1, upload <- works, req <- reading
Review == INSTANCE ReadModel WITH
    Requests <- {Slot}, Days <- 1..2, Keywords <- 1..2, MaxUploads <- 2,
    MaxImages <- 2, MaxKey <- 0, MaxHidden <- 1, upload <- works, req <- reading

ASSUME GalleryAssumption == Gallery!KeywordAssumption
ASSUME FixedAssumption ==
    Fixed!KeywordAssumption /\ Fixed!DayAssumption /\ Fixed!ChangeAssumption
ASSUME ChangingAssumption ==
    Changing!KeywordAssumption /\ Changing!DayAssumption /\ Changing!ChangeAssumption
ASSUME FeedsAssumption ==
    Feeds!DayAssumption /\ Feeds!UserAssumption /\ Feeds!BoundAssumption
ASSUME ReviewAssumption ==
    Review!DayAssumption /\ Review!UserAssumption /\ Review!BoundAssumption

-----------------------------------------------------------------------------
customVars == <<keyword, upload, deleted, begun, req>>
dailyVars == <<today, active, assignment, session, asked>>
readVars == <<works, hidden, reading>>

KeywordsInit ==
    /\ part \in {"races", "gallery", "cards", "fixed", "changing", "feeds", "review"}
    /\ CASE part = "gallery" -> Gallery!Init
         [] part = "cards" -> Cards!Init
         [] OTHER -> Init
    /\ IF part = "changing" THEN Changing!Init ELSE Fixed!Init
    /\ part \notin {"fixed", "changing"} => today = 0 /\ active = 1..3
    /\ IF part = "feeds" THEN Feeds!Init ELSE Review!Init

KeywordsNext ==
    /\ UNCHANGED part
    /\ \/ part = "races" /\ Next /\ UNCHANGED <<dailyVars, readVars>>
       \/ part = "gallery" /\ Gallery!Next /\ UNCHANGED <<dailyVars, readVars>>
       \/ part = "cards" /\ Cards!Next /\ UNCHANGED <<dailyVars, readVars>>
       \/ part = "fixed" /\ Fixed!Next /\ UNCHANGED <<customVars, readVars>>
       \/ part = "changing" /\ Changing!Next /\ UNCHANGED <<customVars, readVars>>
       \/ part = "feeds" /\ Feeds!Next /\ UNCHANGED <<customVars, dailyVars>>
       \/ part = "review" /\ Review!Next /\ UNCHANGED <<customVars, dailyVars>>

KeywordsSpec == KeywordsInit /\ [][KeywordsNext]_<<part, customVars, dailyVars, readVars>>

Symmetry == Permutations(Requests) \cup Permutations(Keywords)

-----------------------------------------------------------------------------
TypesOK ==
    CASE part = "races" -> TypeOK
      [] part = "gallery" -> Gallery!TypeOK
      [] part = "cards" -> Cards!TypeOK
      [] part = "fixed" -> Fixed!TypeOK
      [] part = "changing" -> Changing!TypeOK
      [] part = "feeds" -> Feeds!TypeOK
      [] part = "review" -> Review!TypeOK

(* An image that is chosen or shown as the cover of a keyword was published *)
(* under it, whatever becomes of keyword and image between the statements   *)
(* (SetCover, resolveCoverAsset), and is none that a newer one should have  *)
(* replaced; a work goes to a keyword that was active since its commit      *)
(* began, and a deleted keyword is changed by nobody.                       *)
KeywordKept ==
    /\ [](CASE part = "races" ->
              CoverOfKeyword /\ GalleryCoverIsNewest /\ PublishedWhileOpen
         [] part = "gallery" -> /\ Gallery!CoverOfKeyword /\ Gallery!GalleryCoverIsNewest
                                /\ Gallery!PublishedWhileOpen
         [] part = "cards" -> /\ Cards!CoverOfKeyword /\ Cards!GalleryCoverIsNewest
                              /\ Cards!PublishedWhileOpen
         [] OTHER -> TRUE)
    /\ [][part = "races" => DeletedStays]_customVars

(* The images of a gallery and its cards agree, whatever was published and  *)
(* removed before (ListImages, ListUploads).                                *)
GalleryAgrees ==
    /\ part = "gallery" => GalleryCards!CardsAreTheGallery
    /\ part = "cards" => ThreeCards!CardsAreTheGallery

(* A date gets one keyword from all the requests that race to assign it,    *)
(* each keyword has its turn, and while keywords change an assignment is    *)
(* overwritten only by a request that had found none                        *)
(* (EnsureDailyKeywordAssignment).                                          *)
DateKeepsKeyword ==
    /\ [](part = "fixed" => Fixed!OneKeywordPerDay /\ Fixed!RotationFair)
    /\ [][part = "changing" => Changing!AssignmentSettles]_dailyVars

(* A feed is complete and shows nothing twice for every seed and limit, and *)
(* a seed that comes back gives the order it gave before                    *)
(* (listPublicUploadsByDate, listPublicUploadsByKeyword).                   *)
FeedsSteady ==
    /\ [](part = "feeds" => Feeds!FeedsAreComplete)
    /\ [][part = "feeds" => Feeds!SameSeedSameOrder]_readVars

(* The parts of a review that are read one after the other agree, and       *)
(* neither a feed nor a detail shows what is private (ListReviewDates,      *)
(* GetReviewUpload).                                                        *)
ReviewAgrees ==
    part = "review" =>
        Review!ReviewAddsUp /\ Review!ReviewViewsAgree /\ Review!CustomStaysPrivate
=============================================================================
