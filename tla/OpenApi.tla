------------------------------- MODULE OpenApi -------------------------------
(***************************************************************************)
(* The operations of the HTTP API, and what the code generated from the    *)
(* document (openapi.gen.go) binds of the request of each.                 *)
(***************************************************************************)

(* The operations with "security: []", the others, those that bind a JSON  *)
(* body, and those that make a new resource whenever they are called.      *)
(* "preflight" is an OPTIONS request and "nowhere" a path that the         *)
(* document does not have.                                                 *)
Public == {"healthz", "sendSignupEmailCode", "verifySignupEmailCode", "signupComplete",
           "loginByPassword", "sendLoginEmailCode", "loginByEmailCode", "sendResetEmailCode",
           "verifyResetEmailCode", "resetComplete", "getOfficialHome", "drawOfficialPrompt",
           "listOfficialDateUploads", "getOfficialUpload"}
Secured == {"createUploadPublishSession", "presignUploadPublishSessionAssetsBatch",
            "completeUploadPublishSessionAssetsBatch", "commitUploadPublishSession",
            "listCustomKeywords", "createCustomKeyword", "updateCustomKeyword",
            "deleteCustomKeyword", "listCustomKeywordUploads", "listCustomKeywordImages",
            "getCustomUpload", "getCustomImage", "setCustomKeywordCover",
            "clearCustomKeywordCover", "listReviewDates", "listReviewKeywords",
            "listReviewMyUploadsByDate", "getReviewUpload", "listReviewMyUploadsByKeyword",
            "listReviewAllUploadsByKeyword", "getMeHome", "createAvatarUploadSession",
            "presignAvatarUploadSessionImage", "completeAvatarUploadSession", "getMeSettings",
            "updateMeNotificationSettings", "updateMeNickname", "listMeNotifications",
            "markAllMeNotificationsRead", "reactToUpload", "unreactToUpload"}
Bodies == (Public \ {"healthz", "getOfficialHome", "listOfficialDateUploads", "getOfficialUpload"})
          \cup {"createUploadPublishSession", "presignUploadPublishSessionAssetsBatch",
                "completeUploadPublishSessionAssetsBatch", "createCustomKeyword",
                "updateCustomKeyword", "setCustomKeywordCover",
                "presignAvatarUploadSessionImage", "completeAvatarUploadSession",
                "updateMeNotificationSettings", "updateMeNickname", "reactToUpload"}
Creates == {"createUploadPublishSession", "createCustomKeyword", "createAvatarUploadSession"}

(* What the generated wrapper of an operation binds and wants once only:   *)
(* the headers, and the query parameters that are not dates.  What else it *)
(* binds, the path, the dates, the formats, the validator has looked at.   *)
Plain == {"X-Request-ID"}
Keyed == Plain \cup {"Idempotency-Key"}
Feed == {"sort", "limit", "seed", "include_reaction_counts"}

AuthWrappers ==
    [sendLoginEmailCode |-> Plain, loginByEmailCode |-> Plain, loginByPassword |-> Keyed,
     resetComplete |-> Keyed, sendResetEmailCode |-> Plain, verifyResetEmailCode |-> Plain,
     signupComplete |-> Keyed, sendSignupEmailCode |-> Plain,
     verifySignupEmailCode |-> Plain]

KeywordWrappers ==
    [listCustomKeywords |-> Plain, createCustomKeyword |-> Keyed,
     deleteCustomKeyword |-> Keyed, updateCustomKeyword |-> Keyed]
CoverWrappers ==
    [clearCustomKeywordCover |-> Keyed, setCustomKeywordCover |-> Keyed]
GalleryWrappers ==
    [listCustomKeywordImages |-> Plain \cup {"limit"},
     listCustomKeywordUploads |-> Plain \cup {"limit"}, getCustomImage |-> Plain,
     getCustomUpload |-> Plain]
AvatarWrappers ==
    [createAvatarUploadSession |-> Keyed, completeAvatarUploadSession |-> Keyed,
     presignAvatarUploadSessionImage |-> Keyed]
HomeWrappers ==
    [getMeHome |-> Plain, listMeNotifications |-> Plain,
     markAllMeNotificationsRead |-> Keyed]
SettingsWrappers ==
    [updateMeNickname |-> Keyed, getMeSettings |-> Plain,
     updateMeNotificationSettings |-> Keyed]
OfficialWrappers ==
    [listOfficialDateUploads |-> Plain \cup Feed, getOfficialHome |-> Plain,
     drawOfficialPrompt |-> Plain,
     getOfficialUpload |-> Plain \cup {"include_reaction_counts"}]
ReactionWrappers ==
    [reactToUpload |-> Keyed, unreactToUpload |-> Keyed]
ReviewWrappers ==
    [listReviewDates |-> Plain \cup {"limit"},
     listReviewMyUploadsByDate |-> Plain \cup {"limit"}, listReviewKeywords |-> Plain,
     listReviewAllUploadsByKeyword |-> Plain \cup Feed,
     listReviewMyUploadsByKeyword |-> Plain \cup {"limit"}, getReviewUpload |-> Plain]
PublishWrappers ==
    [createUploadPublishSession |-> Keyed, completeUploadPublishSessionAssetsBatch |-> Keyed,
     presignUploadPublishSessionAssetsBatch |-> Keyed, commitUploadPublishSession |-> Keyed]

Wrappers == {AuthWrappers, KeywordWrappers, CoverWrappers, GalleryWrappers, AvatarWrappers,
             HomeWrappers, SettingsWrappers, OfficialWrappers, ReactionWrappers,
             ReviewWrappers, PublishWrappers, [healthz |-> Plain]}
Singles == [op \in Public \cup Secured |->
               UNION {W[op] : W \in {V \in Wrappers : op \in DOMAIN V}}]

(* What clients ask for, by its operationId. *)
Operations == Public \cup Secured \cup {"preflight", "nowhere"}
=============================================================================
