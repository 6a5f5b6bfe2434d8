------------------------------- MODULE AgeGate ------------------------------
(***************************************************************************)
(* app/core/age.py and the filters of lists: who may see a title. A title  *)
(* is abstracted to what decides it, its class: the content rating ("odd"  *)
(* stands for one that the code does not know) and whether MangaDex has a  *)
(* publication demographic for it.  An age is a number or Null, for a      *)
(* guest or a profile without a birth date.                                *)
(***************************************************************************)
EXTENDS Naturals

CONSTANT Null

ASSUME NullAssumption == Null \notin Nat

AllRatings == {"safe", "suggestive", "erotica", "pornographic", "odd"}

\* CONTENT_AGE_LIMITS
AgeLimit(rating) ==
    CASE rating = "safe"       -> 0
      [] rating = "suggestive" -> 16
      [] OTHER                 -> 18

CanAccessContent(class, age) ==
    \/ class.rating = Null
    \/ /\ class.rating # "odd"
       /\ IF age = Null THEN AgeLimit(class.rating) = 0
                        ELSE age >= AgeLimit(class.rating)

CanAccessDemographic(class, age) ==
    \/ class.known
    \/ class.rating = "safe"
    \/ age # Null /\ age >= 18

\* _filter_by_age: a title in a list.
Listable(class, age) == CanAccessContent(class, age) /\ CanAccessDemographic(class, age)

\* _age_allowed_content_ratings: what MangaDex is asked for on behalf of a reader.
AgeAllowedContentRatings(age) ==
    CASE age = Null \/ age < 16 -> {"safe"}
      [] age >= 16 /\ age < 18  -> {"safe", "suggestive"}
      [] OTHER                  -> {"safe", "suggestive", "erotica", "pornographic"}

\* _content_rating_to_mangadex: the reader's own preference, Null if there is none.
ContentRatingToMangadex(preference) ==
    CASE preference = "suggestive" -> {"safe", "suggestive"}
      [] preference = "all" -> {"safe", "suggestive", "erotica", "pornographic"}
      [] OTHER -> {"safe"}

\* _resolve_content_ratings: a preference narrows, it never widens.
ResolveContentRatings(age, preference) ==
    IF preference = Null
      THEN AgeAllowedContentRatings(age)
      ELSE ContentRatingToMangadex(preference) \cap AgeAllowedContentRatings(age)
=============================================================================
