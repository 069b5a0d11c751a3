-------------------------------- MODULE RuledPages --------------------------------
(***************************************************************************)
(* The pages keep the rules from which ScreensProofs reasons.               *)
(***************************************************************************)
LOCAL INSTANCE AllPages
LOCAL Kept ==
    INSTANCE PageRules
        WITH Pages <- AllPages, Views <- AllViews, Unrouted <- PagesWithoutRecord

ASSUME PagesKeepTheRules == Kept!PageRulesHold
===============================================================================
